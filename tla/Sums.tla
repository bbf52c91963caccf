--------------------------------- MODULE Sums ---------------------------------
(***************************************************************************)
(* The sum that the queries compute with SUM(...) over some rows.          *)
(***************************************************************************)
EXTENDS FiniteSetsExt

\* f[x], summed over the x in S.
SumOver(S, f) == MapThenSumSet(LAMBDA x : f[x], S)
===============================================================================
