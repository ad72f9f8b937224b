SPECIFICATION Spec
CONSTANTS
  Following = 100
  Subjects <- MCSubjects8008
  Operands80 <- MCOperands80
  Operands65 <- MCOperands65
  Operands89 <- MCOperands89
INVARIANTS
  OneMeaning
