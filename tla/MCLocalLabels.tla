---------------------------- MODULE MCLocalLabels ---------------------------
(* All streams of labels and references up to a length.                    *)
EXTENDS LocalLabels

CONSTANT MaxLength

AllStreams == UNION {[1 .. m -> Items] : m \in 0 .. MaxLength}
=============================================================================
