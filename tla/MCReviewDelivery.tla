-------------------------- MODULE MCReviewDelivery --------------------------
(* Small instances of ReviewDelivery for TLC. *)
EXTENDS ReviewDelivery

CONSTANTS h, g1, g2, a, b, e, n

NothingInherited == [o \in Ops |-> 0]

\* A note of the guest and one of the host.
TwoAuthor == (a :> g1) @@ (n :> h)
TwoTarget == (a :> a) @@ (n :> n)

\* Two notes of one member wait in one outbox; in the guest's run the first
\* was committed under an earlier host.
QueueTarget == (a :> a) @@ (b :> b)
GuestQueueAuthor == (a :> g1) @@ (b :> g1)
FirstInherited == (a :> 1) @@ (b :> 0)
HostQueueAuthor == (a :> h) @@ (b :> h)

\* g1 adds two notes and then edits the second.
EditAuthor == (a :> g1) @@ (b :> g1) @@ (e :> g1)
EditTarget == (a :> a) @@ (b :> b) @@ (e :> b)

\* A single note of the guest.
GuestAuthor == a :> g1
GuestTarget == a :> a

\* A single note of the host.
HostAuthor == n :> h
HostTarget == n :> n
=============================================================================
