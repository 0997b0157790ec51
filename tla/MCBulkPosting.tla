----------------------------- MODULE MCBulkPosting -----------------------------
(* Small instances of BulkPosting. *)
EXTENDS BulkPosting, TLC

CONSTANTS s1, s2, d1

Periods   == [r \in Rules |-> r]
TwoPosts  == [r \in Rules |-> IF r = 1 THEN 2 ELSE 1]
=============================================================================
