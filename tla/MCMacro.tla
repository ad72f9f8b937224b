------------------------------ MODULE MCMacro -------------------------------
(***************************************************************************)
(* Sources for Macro: a macro b that passes its parameter on, a macro a    *)
(* with one or two parameters and up to two lines, and one or two calls.   *)
(***************************************************************************)
EXTENDS MacroExpansion

BodyLines == {<<"x">>, <<"w", "y", "x">>, <<"b", "x">>,
              <<"b", "open", "x", "comma", "y", "close">>}

CallLines == {<<"a">>, <<"a", "w">>, <<"a", "w", "comma", "v">>, <<"a", "b">>,
              <<"a", "x", "comma", "v">>, <<"b", "v">>,
              <<"a", "open", "w", "comma", "v", "close", "comma", "v">>}

Ended(lines) == {Append(l, "newline") : l \in lines}

UpToTwo(lines) == lines \cup {first \o second : first \in lines, second \in lines}

SmallSources ==
  {<<".macro", "b", "x", "newline", "x", "newline", ".endmacro", "newline",
     ".macro", "a">> \o names \o body \o <<".endmacro", "newline">> \o calls :
     names \in Ended({<<"x">>, <<"x", "comma", "y">>}),
     body \in UpToTwo(Ended(BodyLines)), calls \in UpToTwo(Ended(CallLines))}
=============================================================================
