----------------------------- MODULE NoteLedger -----------------------------
(***************************************************************************)
(* What the room promises about notes, seen from outside: a note is        *)
(* posted, the host's durable review gives it a revision of its own that   *)
(* is above every earlier one and never changes, and only a note that has  *)
(* its revision may be forgotten by its author.  lib/review-delivery.ts    *)
(* states the promise ("No acknowledgement is emitted before both durable  *)
(* writes finish", "retries never apply twice").                           *)
(***************************************************************************)
EXTENDS Naturals

CONSTANT Notes

VARIABLES
  posted,   \* notes somebody posted
  rev,      \* rev[n]: the durable revision of n; 0 while it has none
  settled   \* posted notes their author no longer keeps for a retry

ledger == <<posted, rev, settled>>

Recorded == {n \in Notes : rev[n] # 0}

OneEach(f) == \A n, p \in Notes : f[n] = f[p] /\ f[n] # 0 => n = p

\* The ledger may start with what an earlier host recorded.
Init ==
  /\ posted \subseteq Notes
  /\ rev \in [Notes -> Nat] /\ OneEach(rev)
  /\ settled \subseteq Recorded

Post(n) ==
  /\ n \notin posted
  /\ posted' = posted \union {n}
  /\ UNCHANGED <<rev, settled>>

\* One write of the review file may record several notes.
Record ==
  /\ rev' \in [Notes -> Nat] /\ OneEach(rev')
  /\ \A n \in Recorded : rev'[n] = rev[n]
  /\ \A n \in Notes \ Recorded : rev'[n] # 0 =>
       /\ n \in posted
       /\ \A p \in Recorded : rev[p] < rev'[n]
  /\ UNCHANGED <<posted, settled>>

Settle(n) ==
  /\ n \in posted /\ rev[n] # 0
  /\ settled' = settled \union {n}
  /\ UNCHANGED <<posted, rev>>

Next == Record \/ \E n \in Notes : Post(n) \/ Settle(n)

Spec == Init /\ [][Next]_ledger
=============================================================================
