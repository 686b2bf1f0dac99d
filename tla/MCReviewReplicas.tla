-------------------------- MODULE MCReviewReplicas --------------------------
(* Small instances of ReviewReplicas for TLC: a root comment with a reply. *)
EXTENDS ReviewReplicas

CONSTANTS h, g1, root, reply

Alone == (root :> None)
OneReply == (root :> None) @@ (reply :> root)
SameTime == [m \in Replicas |-> 0]
GuestAhead == [m \in Replicas |-> IF m = Host THEN 0 ELSE 2]
HostKinds == {"add", "edit", "resolve", "del", "undo"}
GuestKinds == {"edit", "like", "del", "undo", "redo"}
LikeKinds == [m \in Replicas |-> IF m = Host THEN {"edit"} ELSE {"like", "del", "undo"}]
PairKinds == [m \in Replicas |-> IF m = Host THEN {"add", "del"} ELSE {"del", "undo"}]
SharedKinds == [m \in Replicas |-> IF m = Host THEN HostKinds ELSE GuestKinds]
=============================================================================
