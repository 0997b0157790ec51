------------------------------- MODULE MCMirror -------------------------------
(* Two chats that answer and one that does not.                              *)
EXTENDS Mirror

CONSTANTS c1, c2, c3

MCOldest == [c \in Chats |-> IF c = c1 THEN 2 ELSE 1]
=============================================================================
