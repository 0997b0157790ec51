---------------------------- MODULE MCReplyPipeline ----------------------------
(* Small instances of ReplyPipeline. *)
EXTENDS ReplyPipeline, TLC

CONSTANTS f1, w1, w2

WorkerSymmetry == Permutations(Workers)

OneFan   == [m \in Messages |-> f1]
AllUnread == [m \in Messages |-> "unread"]
LastStalled == [m \in Messages |->
                    IF \A n \in Messages : n <= m THEN "stalled" ELSE "unread"]
=============================================================================
