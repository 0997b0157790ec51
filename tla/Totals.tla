-------------------------------- MODULE Totals --------------------------------
(***************************************************************************)
(* Sums over finite sets, counted: a total is the number of units its      *)
(* members have.                                                           *)
(***************************************************************************)
EXTENDS Integers, FiniteSets

\* The units f gives the members of S, one by one.
Units(f, S) == UNION {{s} \X (1..f[s]) : s \in S}

\* The sum of f over S, for an f that is nowhere negative, and for any f.
Count(f, S) == Cardinality(Units(f, S))
Total(f, S) == Count(f, S) - Count([s \in S |-> -f[s]], S)
=============================================================================
