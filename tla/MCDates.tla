------------------------------ MODULE MCDates ------------------------------
(* Model-checking instance of Dates: years around the turns of two         *)
(* centuries, of which one begins with a leap year.                        *)
EXTENDS Dates

MCChanges == {-13, -1, 0, 1, 12, 14}
=============================================================================
