--------------------------------- MODULE Sums ---------------------------------
(* Sums over finite sets: SUM(amount) of the rows of a table.              *)
EXTENDS FiniteSetsExt

(* The sum of f[x] over the elements x of S.                               *)
Sum(f, S) == MapThenSumSet(LAMBDA x : f[x], S)

=============================================================================
