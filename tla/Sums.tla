-------------------------------- MODULE Sums --------------------------------
(***************************************************************************)
(* Sums over the rows of a table.  A table whose rows are numbered 1..n in *)
(* the order they were inserted is a function on 1..n; SumTo(f, n) is the  *)
(* SQL aggregate COALESCE(SUM(f), 0) over its rows.                        *)
(*                                                                         *)
(* The definition is a recursive function and not a RECURSIVE operator, so *)
(* that LedgerProofs can prove the laws that its conservation proof        *)
(* rests on.                                                               *)
(***************************************************************************)
EXTENDS Integers

PrefixSums(f, n) == LET s[i \in 0 .. n] == IF i = 0 THEN 0 ELSE s[i-1] + f[i]
                    IN  s

SumTo(f, n) == PrefixSums(f, n)[n]
=============================================================================
