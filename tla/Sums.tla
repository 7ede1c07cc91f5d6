-------------------------------- MODULE Sums --------------------------------
(***************************************************************************)
(* The sum of a table's column: SQL's SUM, and the handlers' loops that    *)
(* add up the lines of a document.  A column is a function from rows to    *)
(* numbers, so a sequence of numbers is one.                               *)
(***************************************************************************)
EXTENDS Integers, Functions

SumOf(f) == FoldFunction(+, 0, f)

=============================================================================
