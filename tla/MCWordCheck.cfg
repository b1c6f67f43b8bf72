SPECIFICATION Spec
CONSTANTS
  Letters = {a, b, c}
  MaxLength = 4
SYMMETRY LetterSymmetry
INVARIANTS
  TypeOK
  LettersAreAccountedFor
  ChecksByTheRule
\* Check returns.
CHECK_DEADLOCK FALSE
