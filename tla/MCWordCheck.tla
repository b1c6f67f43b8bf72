---------------------------- MODULE MCWordCheck ----------------------------
(***************************************************************************)
(* All pairs of words of up to four letters over three letters, which are  *)
(* interchangeable.                                                        *)
(***************************************************************************)
EXTENDS WordCheck, TLC

LetterSymmetry == Permutations(Letters)
=============================================================================
