---------------------------- MODULE MCReviewStore ----------------------------
(* Small instances of ReviewStore for TLC. *)
EXTENDS ReviewStore, TLC

CONSTANTS k1, k2, n1, n2

Doc(notes) == [live |-> notes, gone |-> {}]
Had(file, old) == [file |-> file, legacy |-> old]

\* An empty folder.
FirstBoot == [k \in Keys |-> Had(None, None)]

\* A review of one note in the folder.
OneNote == k1 :> Had(Doc({n1}), None)

\* One review in the folder, another still in localStorage.
OneLegacy == (k1 :> Had(Doc({n1}), None)) @@ (k2 :> Had(None, Doc({n2})))
=============================================================================
