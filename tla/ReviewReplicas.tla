---------------------------- MODULE ReviewReplicas ----------------------------
(***************************************************************************)
(* What the shared review says on every machine of a room.                 *)
(*                                                                         *)
(* Everybody applies an operation to the document on screen the moment it  *)
(* is made, and keeps the result in a file of its own.  The host applies   *)
(* it again in commit order, with a revision and a time of its own, and    *)
(* every guest applies those commits as they arrive.  A guest that comes   *)
(* back takes the host's snapshot and replays what it has not been         *)
(* answered for.  Undo and redo post the inverse operations.               *)
(*                                                                         *)
(* Modelled: the operations and merges of lib/review.ts, prepareCommit and *)
(* applyCommit of lib/review-delivery.ts, the undo of ReviewPanel.tsx and  *)
(* lib/undo.ts.  How a message gets lost between two awaits and when an    *)
(* answer may be sent is in ReviewDelivery: here a commit is one step.     *)
(***************************************************************************)
EXTENDS Naturals, FiniteSets, Sequences, SequencesExt

CONSTANTS
  Host, Guests,
  Ids,         \* comment ids
  Parent,      \* Parent[i]: the root i replies to, or None
  None,
  First,       \* the comments everybody has at the start
  Bodies,      \* texts, as numbers so that "<=" is the order of strings
  Kinds,       \* bound: the kinds of operation each machine posts
  Ahead,       \* how far the wall clock of each machine is ahead
  MaxPosts,    \* bound: operations posted
  MaxBreaks    \* bound: connections lost

Replicas == {Host} \union Guests
OpIds == 1..MaxPosts
Higher(m, n) == IF m > n THEN m ELSE n

ASSUME ReplicasAssumption ==
  /\ Host \notin Guests /\ IsFiniteSet(Ids) /\ First \subseteq Ids
  /\ Bodies \subseteq Nat \ {0} /\ Bodies # {}
  /\ None \notin Ids \union Replicas
  /\ Parent \in [Ids -> Ids \union {None}]
  /\ \A i \in Ids : Parent[i] # None => Parent[Parent[i]] = None
  /\ Kinds \in [Replicas -> SUBSET {"add", "edit", "resolve", "like", "del", "undo", "redo"}]
  /\ Ahead \in [Replicas -> Nat]
  /\ MaxPosts \in Nat /\ MaxBreaks \in Nat

VARIABLES
  now,         \* the time
  used,        \* how many operations have been posted
  made,        \* the ids that have been given out
  doc,         \* doc[r]: the document on r's screen; None out of the room
  kept,        \* kept[r]: r's own file of this review
  past, future,\* the undo stack of r: what was done, what was undone
  outbox,      \* outbox[r]: r's operations without an answer
  link,        \* the guests in the room
  up, down,    \* operations on their way to the host; commits and snapshots back
  log,         \* the host's commits (sync.commits), in order
  breaks       \* breaks[g]: how often g lost its connection

vars == <<now, used, made, doc, kept, past, future, outbox, link, up, down, log, breaks>>

-----------------------------------------------------------------------------
(* The document *)

Silent == [r \in Replicas |-> None]

\* A comment: its text, resolved flag, time of the last edit, time of the last
\* explicit restoration, revision, who likes it and the history of the likes.
NewNote(body, at) ==
  [body |-> body, resolved |-> FALSE, at |-> at, back |-> 0, rev |-> 0,
   fans |-> {}, heard |-> Silent]

Shown(d) == {i \in Ids : d.notes[i] # None}

\* A reply inherits the deletion of its parent.
GoneAt(gone, i) ==
  Higher(gone[i], IF Parent[i] = None THEN 0 ELSE gone[Parent[i]])

Buried(gone, i, note) == GoneAt(gone, i) # 0 /\ note.back <= GoneAt(gone, i)

\* Mutant: an add is not asked about tombstones.
InsertAnyway(d, i, note) ==
  IF i \in Shown(d) THEN d ELSE [d EXCEPT !.notes[i] = note]

Insert(d, i, note) ==
  IF Buried(d.gone, i, note) \/ i \in Shown(d) THEN d
  ELSE [d EXCEPT !.notes[i] = note]

\* An earlier edit loses; at the same time, the smaller text does.
Edit(d, i, body, at) ==
  IF \/ i \notin Shown(d) \/ at < d.notes[i].at
     \/ at = d.notes[i].at /\ body <= d.notes[i].body
    THEN d
    ELSE [d EXCEPT !.notes[i] = [@ EXCEPT !.body = body, !.at = at]]

Resolve(d, i, on, at) ==
  IF i \notin Shown(d) \/ at < d.notes[i].at \/ (at = d.notes[i].at /\ ~on) THEN d
  ELSE [d EXCEPT !.notes[i] = [@ EXCEPT !.resolved = on, !.at = at]]

Thread(d, i) == {i} \union {j \in Shown(d) : Parent[j] = i}

\* Mutant: the replies of a deleted comment stay where they are.
DeleteAlone(d, i, at) ==
  LET gone == [j \in Ids |-> IF j \in Thread(d, i) THEN Higher(d.gone[j], at) ELSE d.gone[j]]
  IN [d EXCEPT !.gone = gone,
               !.notes[i] = IF @ # None /\ Buried(gone, i, @) THEN None ELSE @]

Delete(d, i, at) ==
  LET gone == [j \in Ids |-> IF j \in Thread(d, i) THEN Higher(d.gone[j], at) ELSE d.gone[j]]
  IN [d EXCEPT
       !.gone = gone,
       !.notes = [j \in Ids |-> IF (j = i \/ Parent[j] = i) /\ j \in Shown(d)
                                     /\ Buried(gone, j, d.notes[j])
                                  THEN None ELSE d.notes[j]]]

\* Membership is set whatever the time; the history keeps the newest.
LikeNote(note, who, on, at) ==
  IF (on <=> who \in note.fans) /\ note.heard[who] # None /\ note.heard[who].on = on
    THEN note
    ELSE [note EXCEPT
           !.fans = IF on THEN @ \union {who} ELSE @ \ {who},
           !.heard[who] = IF @ = None \/ at >= @.at THEN [on |-> on, at |-> at] ELSE @]

Like(d, i, who, on, at) ==
  IF i \notin Shown(d) THEN d ELSE [d EXCEPT !.notes[i] = LikeNote(@, who, on, at)]

\* An operation without a time is stamped by whoever applies it.
Stamp(op, t) == IF op.at = 0 THEN t ELSE op.at

Apply(d, op, t) ==
  CASE op.t = "add"     -> Insert(d, op.id, op.note)
    [] op.t = "edit"    -> Edit(d, op.id, op.body, op.at)
    [] op.t = "resolve" -> Resolve(d, op.id, op.on, op.at)
    [] op.t = "like"    -> Like(d, op.id, op.who, op.on, Stamp(op, t))
    [] op.t = "del"     -> Delete(d, op.id, Stamp(op, t))

\* The later of two recorded likes; at the same time, the one that is on.
Newer(a, b) ==
  IF a = None THEN b ELSE IF b = None THEN a
  ELSE IF b.at > a.at \/ (b.at = a.at /\ b.on) THEN b ELSE a

\* Host revision first, then restoration, then edit time; ties are incoming's.
MergeNote(incoming, local) ==
  LET newer == \/ local.rev > incoming.rev
               \/ local.rev = incoming.rev /\ local.back > incoming.back
               \/ local.rev = incoming.rev /\ local.back = incoming.back
                    /\ local.at > incoming.at
      heard == [r \in Replicas |-> Newer(incoming.heard[r], local.heard[r])]
      fans == {r \in Replicas : IF heard[r] = None THEN r \in incoming.fans \union local.fans
                                                   ELSE heard[r].on}
  IN [(IF newer THEN local ELSE incoming) EXCEPT !.fans = fans, !.heard = heard]

\* Mutant: a comment only one side has is kept without a look at tombstones.
MergeKeepsOwn(local, incoming) ==
  [incoming EXCEPT
    !.notes = [i \in Ids |-> IF i \notin Shown(incoming) THEN local.notes[i]
                             ELSE IF i \notin Shown(local) THEN incoming.notes[i]
                             ELSE MergeNote(incoming.notes[i], local.notes[i])],
    !.gone = [i \in Ids |-> Higher(local.gone[i], incoming.gone[i])],
    !.clock = Higher(local.clock, @), !.rev = Higher(local.rev, @), !.ops = local.ops \union @]

Merge(local, incoming) ==
  LET gone == [i \in Ids |-> Higher(local.gone[i], incoming.gone[i])]
      both(i) == IF i \notin Shown(incoming) THEN local.notes[i]
                 ELSE IF i \notin Shown(local) THEN incoming.notes[i]
                 ELSE MergeNote(incoming.notes[i], local.notes[i])
  IN [notes |-> [i \in Ids |-> IF both(i) # None /\ Buried(gone, i, both(i)) THEN None
                                                                            ELSE both(i)],
      gone |-> gone,
      clock |-> Higher(local.clock, incoming.clock),
      rev |-> Higher(local.rev, incoming.rev),
      ops |-> local.ops \union incoming.ops]

-----------------------------------------------------------------------------
(* Commits *)

\* The host's time: after its wall clock, its last commit and every edit.
NextClock(d, t) == Max({t, d.clock + 1} \union {d.notes[i].at + 1 : i \in Shown(d)})

\* Mutant: a restoration keeps the time its author gave it.
PrepareAsRestored(d, op, t) ==
  LET clock == NextClock(d, t)
  IN [t |-> "commit", clock |-> clock, rev |-> d.rev + 1,
      op |-> IF op.t = "add" THEN [op EXCEPT !.note.rev = d.rev + 1, !.note.at = clock]
                             ELSE [op EXCEPT !.at = clock]]

Prepare(d, op, t) ==
  LET clock == NextClock(d, t)
  IN [t |-> "commit", clock |-> clock, rev |-> d.rev + 1,
      op |-> IF op.t = "add"
               THEN [op EXCEPT !.note = [op.note EXCEPT !.rev = d.rev + 1, !.at = clock,
                                                        !.back = IF @ # 0 THEN clock ELSE 0]]
               ELSE [op EXCEPT !.at = clock]]

\* Mutant: a commit is applied like any operation, by its time.
ApplyCommitByTime(d, c, opid) ==
  IF opid \in d.ops THEN d ELSE
  LET next == Apply(d, c.op, c.clock)
      ranked == IF c.op.id \in Shown(next) /\ next.notes[c.op.id].rev < c.rev
                  THEN [next EXCEPT !.notes[c.op.id].rev = c.rev] ELSE next
  IN [ranked EXCEPT !.rev = Higher(@, c.rev), !.clock = Higher(@, c.clock),
                    !.ops = @ \union {opid}]

\* A commit outranks what the note has: its time is forgotten first.
ApplyCommit(d, c, opid) ==
  IF opid \in d.ops THEN d ELSE
  LET i == c.op.id
      known == i \in Shown(d)
      outranks == known /\ d.notes[i].rev < c.rev
      base == IF ~outranks THEN d
              ELSE IF c.op.t = "add" THEN [d EXCEPT !.notes[i] = None]
              ELSE [d EXCEPT !.notes[i].at = 0]
      next == IF known /\ ~outranks THEN d ELSE Apply(base, c.op, c.clock)
      ranked == IF i \in Shown(next) /\ next.notes[i].rev < c.rev
                  THEN [next EXCEPT !.notes[i].rev = c.rev] ELSE next
  IN [ranked EXCEPT !.rev = Higher(@, c.rev), !.clock = Higher(@, c.clock),
                    !.ops = @ \union {opid}]

-----------------------------------------------------------------------------
(* Posting: what the panel does, undo and redo included *)

Clock(r) == now + Ahead[r]

\* Time passes between two acts, further than the host's commits, which lead
\* the wall clock by a millisecond for each commit of the same one.
Later(m) == Higher(m, doc[Host].clock) + 1
ActClock(r) == Later(now) + Ahead[r]

InRoom(r) == doc[r] # None

DelOp(i) == [t |-> "del", id |-> i, at |-> 0]
AddOp(i, note) == [t |-> "add", id |-> i, note |-> note, at |-> 0]

\* What reverses op, seen from the document before it.
InverseOps(d, op) ==
  CASE op.t = "add"     -> <<DelOp(op.id)>>
    [] op.t = "del"     -> LET thread == SetToSeq(Thread(d, op.id) \intersect Shown(d))
                           IN [k \in DOMAIN thread |-> AddOp(thread[k], d.notes[thread[k]])]
    [] op.t = "edit"    -> <<[op EXCEPT !.body = d.notes[op.id].body]>>
    [] op.t = "resolve" -> <<[op EXCEPT !.on = d.notes[op.id].resolved]>>

\* A replayed operation gets the time of the replay, a comment put back counts
\* as restored after it.
Restamp(op, t) ==
  IF op.t = "add" THEN [op EXCEPT !.note.back = t + 1] ELSE [op EXCEPT !.at = t]
RestampAll(ops, t) == [k \in DOMAIN ops |-> Restamp(ops[k], t)]

ApplyAll(d, ops, t) ==
  LET after[k \in 0..Len(ops)] == IF k = 0 THEN d ELSE Apply(after[k - 1], ops[k], t)
  IN after[Len(ops)]
OpsOf(envelopes) == [k \in DOMAIN envelopes |-> envelopes[k].op]

\* postSessionOp, once per operation: outbox, screen, file, wire.
PostAll(r, ops) ==
  LET envelopes == [k \in DOMAIN ops |-> [id |-> used + k, op |-> ops[k]]]
  IN /\ used + Len(ops) <= MaxPosts /\ now' = Later(now)
     /\ used' = used + Len(ops)
     /\ doc' = [doc EXCEPT ![r] = ApplyAll(@, ops, ActClock(r))]
     /\ kept' = [kept EXCEPT ![r] = Merge(@, doc'[r])]
     /\ outbox' = [outbox EXCEPT ![r] = @ \o envelopes]
     /\ up' = [up EXCEPT ![r] = @ \o envelopes]
     /\ UNCHANGED <<link, down, log, breaks>>

\* dispatchUndoable
Do(r, op) ==
  /\ PostAll(r, <<op>>)
  /\ past' = [past EXCEPT ![r] = Append(@, [op |-> op, inverse |-> InverseOps(doc[r], op),
                                           redo |-> <<op>>])]
  /\ future' = [future EXCEPT ![r] = <<>>]

AddNote(r, i, body) ==
  /\ "add" \in Kinds[r] /\ InRoom(r) /\ i \notin made
  /\ Parent[i] # None => Parent[i] \in Shown(doc[r])
  /\ made' = made \union {i}
  /\ Do(r, AddOp(i, NewNote(body, ActClock(r))))

EditNote(r, i, body) ==
  /\ "edit" \in Kinds[r] /\ InRoom(r) /\ i \in Shown(doc[r]) /\ body # doc[r].notes[i].body
  /\ Do(r, [t |-> "edit", id |-> i, body |-> body, at |-> ActClock(r)])
  /\ UNCHANGED made

ResolveNote(r, i) ==
  /\ "resolve" \in Kinds[r] /\ InRoom(r) /\ i \in Shown(doc[r]) /\ Parent[i] = None
  /\ Do(r, [t |-> "resolve", id |-> i, on |-> ~doc[r].notes[i].resolved, at |-> ActClock(r)])
  /\ UNCHANGED made

DeleteNote(r, i) ==
  /\ "del" \in Kinds[r] /\ InRoom(r) /\ i \in Shown(doc[r])
  /\ Do(r, DelOp(i))
  /\ UNCHANGED made

\* A like is not undoable.
ToggleLike(r, i) ==
  /\ "like" \in Kinds[r] /\ InRoom(r) /\ i \in Shown(doc[r])
  /\ PostAll(r, <<[t |-> "like", id |-> i, who |-> r, on |-> r \notin doc[r].notes[i].fans,
                   at |-> 0]>>)
  /\ UNCHANGED <<made, past, future>>

\* Undoing an add deletes the replies it has by now: redo must put them back,
\* so what redo does is decided here.
RedoAfter(r, entry) ==
  LET thread == InverseOps(doc[r], DelOp(entry.op.id))
  IN IF entry.op.t = "add" THEN IF thread = <<>> THEN <<entry.op>> ELSE thread
                           ELSE entry.redo

Undo(r) ==
  /\ "undo" \in Kinds[r] /\ InRoom(r) /\ past[r] # <<>>
  /\ LET entry == Last(past[r])
     IN /\ PostAll(r, RestampAll(entry.inverse, ActClock(r)))
        /\ past' = [past EXCEPT ![r] = Front(@)]
        /\ future' = [future EXCEPT ![r] = Append(@, [entry EXCEPT !.redo = RedoAfter(r, entry)])]
  /\ UNCHANGED made

Redo(r) ==
  /\ "redo" \in Kinds[r] /\ InRoom(r) /\ future[r] # <<>>
  /\ LET entry == Last(future[r])
     IN /\ PostAll(r, RestampAll(entry.redo, ActClock(r)))
        /\ future' = [future EXCEPT ![r] = Front(@)]
        /\ past' = [past EXCEPT ![r] = Append(@, entry)]
  /\ UNCHANGED made

Posts(r) ==
  \/ \E i \in Ids : \/ AddNote(r, i, Min(Bodies)) \/ \E body \in Bodies : EditNote(r, i, body)
                   \/ ResolveNote(r, i) \/ DeleteNote(r, i) \/ ToggleLike(r, i)
  \/ Undo(r) \/ Redo(r)

-----------------------------------------------------------------------------
(* The room *)

Broadcast(message) ==
  down' = [g \in Guests |-> IF g \in link THEN Append(down[g], message) ELSE down[g]]

Without(envelopes, id) ==
  LET rest[k \in 0..Len(envelopes)] ==
        IF k = 0 THEN <<>> ELSE IF envelopes[k].id = id THEN rest[k - 1]
        ELSE Append(rest[k - 1], envelopes[k])
  IN rest[Len(envelopes)]
Committed(id) == \E k \in DOMAIN log : log[k].id = id
Recorded(id) == log[CHOOSE k \in DOMAIN log : log[k].id = id]

\* The host serves one envelope: a new one is stamped, applied, saved, shown
\* and broadcast; for one it knows it broadcasts what it recorded.
Serve(r, loaded) ==
  LET e == Head(up[r])
      c == IF Committed(e.id) THEN Recorded(e.id)
           ELSE [id |-> e.id, commit |-> Prepare(loaded, e.op, Clock(Host))]
      next == IF Committed(e.id) THEN loaded ELSE ApplyCommit(loaded, c.commit, e.id)
  IN /\ doc' = [doc EXCEPT ![Host] = next]
     /\ kept' = [kept EXCEPT ![Host] = next]
     /\ log' = IF Committed(e.id) THEN log ELSE Append(log, c)
     /\ outbox' = [outbox EXCEPT ![Host] = Without(@, e.id)]
     /\ up' = [up EXCEPT ![r] = Tail(@)]
     /\ Broadcast([t |-> "commit", id |-> c.id, commit |-> c.commit])

HostCommits(r) ==
  /\ up[r] # <<>>
  /\ Serve(r, Merge(kept[Host], doc[Host]))
  /\ UNCHANGED <<now, used, made, past, future, link, breaks>>

GuestHears(g) ==
  /\ down[g] # <<>> /\ Head(down[g]).t = "commit"
  /\ LET c == Head(down[g])
     IN /\ doc' = [doc EXCEPT ![g] = ApplyCommit(@, c.commit, c.id)]
        /\ outbox' = [outbox EXCEPT ![g] = Without(@, c.id)]
  /\ kept' = [kept EXCEPT ![g] = doc'[g]]
  /\ down' = [down EXCEPT ![g] = Tail(@)]
  /\ UNCHANGED <<now, used, made, past, future, link, up, log, breaks>>

\* adoptSnapshot on an empty screen, then every unanswered operation is sent
\* again.
GuestAdopts(g) ==
  /\ down[g] # <<>> /\ Head(down[g]).t = "doc"
  /\ doc' = [doc EXCEPT ![g] = ApplyAll(Head(down[g]).doc, OpsOf(outbox[g]), Clock(g))]
  /\ kept' = [kept EXCEPT ![g] = Merge(@, doc'[g])]
  /\ up' = [up EXCEPT ![g] = @ \o outbox[g]]
  /\ down' = [down EXCEPT ![g] = Tail(@)]
  /\ now' = Later(now)
  /\ UNCHANGED <<used, made, past, future, outbox, link, log, breaks>>

\* The connection is lost; the guest's room, document and undo stack go with it.
LinkBreaks(g) ==
  /\ g \in link /\ InRoom(g) /\ breaks[g] < MaxBreaks
  /\ link' = link \ {g}
  /\ breaks' = [breaks EXCEPT ![g] = @ + 1]
  /\ doc' = [doc EXCEPT ![g] = None]
  /\ up' = [up EXCEPT ![g] = <<>>] /\ down' = [down EXCEPT ![g] = <<>>]
  /\ past' = [past EXCEPT ![g] = <<>>] /\ future' = [future EXCEPT ![g] = <<>>]
  /\ UNCHANGED <<now, used, made, kept, outbox, log>>

\* Some time later the guest is back, and the host sends what it has on screen.
GuestJoins(g) ==
  /\ g \notin link
  /\ link' = link \union {g}
  /\ now' = Later(now)
  /\ down' = [down EXCEPT ![g] = <<[t |-> "doc", doc |-> doc[Host]]>>]
  /\ UNCHANGED <<used, made, doc, kept, past, future, outbox, up, log, breaks>>

-----------------------------------------------------------------------------
(* Specification *)

FirstDoc ==
  [notes |-> [i \in Ids |-> IF i \in First THEN NewNote(Min(Bodies), 1) ELSE None],
   gone |-> [i \in Ids |-> 0], clock |-> 0, rev |-> 0, ops |-> {}]

Init ==
  /\ now = 1 /\ used = 0 /\ made = First
  /\ doc = [r \in Replicas |-> FirstDoc] /\ kept = doc
  /\ past = [r \in Replicas |-> <<>>] /\ future = past
  /\ outbox = [r \in Replicas |-> <<>>] /\ up = outbox
  /\ link = Guests /\ down = [g \in Guests |-> <<>>]
  /\ log = <<>> /\ breaks = [g \in Guests |-> 0]

Next ==
  \/ \E r \in Replicas : Posts(r) \/ HostCommits(r)
  \/ \E g \in Guests : GuestHears(g) \/ GuestAdopts(g) \/ LinkBreaks(g) \/ GuestJoins(g)

Spec == Init /\ [][Next]_vars

-----------------------------------------------------------------------------
(* Properties *)

Notes ==
  [body : Bodies, resolved : BOOLEAN, at : Nat, back : Nat, rev : Nat,
   fans : SUBSET Replicas, heard : [Replicas -> {None} \union [on : BOOLEAN, at : Nat]]]

\* No comment at all is not one.
ASSUME NoneAssumption == None \notin Notes

Docs ==
  [notes : [Ids -> Notes \union {None}], gone : [Ids -> Nat], clock : Nat, rev : Nat,
   ops : SUBSET OpIds]
OpTypes ==
  [t : {"add"}, id : Ids, note : Notes, at : Nat]
    \union [t : {"edit"}, id : Ids, body : Bodies, at : Nat]
    \union [t : {"resolve"}, id : Ids, on : BOOLEAN, at : Nat]
    \union [t : {"like"}, id : Ids, who : Replicas, on : BOOLEAN, at : Nat]
    \union [t : {"del"}, id : Ids, at : Nat]
Envelopes == [id : OpIds, op : OpTypes]
Commits == [t : {"commit"}, clock : Nat, rev : Nat, op : OpTypes]
Downs ==
  [t : {"commit"}, id : OpIds, commit : Commits] \union [t : {"doc"}, doc : Docs]
Entries == [op : OpTypes, inverse : Seq(OpTypes), redo : Seq(OpTypes)]

TypeOK ==
  /\ now \in Nat /\ used \in 0..MaxPosts /\ made \in SUBSET Ids
  /\ doc \in [Replicas -> Docs \union {None}] /\ kept \in [Replicas -> Docs]
  /\ past \in [Replicas -> Seq(Entries)] /\ future \in [Replicas -> Seq(Entries)]
  /\ outbox \in [Replicas -> Seq(Envelopes)] /\ up \in [Replicas -> Seq(Envelopes)]
  /\ link \in SUBSET Guests /\ down \in [Guests -> Seq(Downs)]
  /\ log \in Seq([id : OpIds, commit : Commits]) /\ breaks \in [Guests -> 0..MaxBreaks]

\* Everything posted was answered and delivered to everybody.
Settled ==
  /\ link = Guests /\ \A r \in Replicas : InRoom(r) /\ outbox[r] = <<>> /\ up[r] = <<>>
  /\ \A g \in Guests : down[g] = <<>>

View(d) ==
  [i \in Shown(d) |-> [body |-> d.notes[i].body, resolved |-> d.notes[i].resolved,
                       fans |-> d.notes[i].fans]]

Texts(d) == [i \in Shown(d) |-> <<d.notes[i].body, d.notes[i].resolved>>]

\* No document shows a comment that it knows to be deleted, the replies of a
\* deleted comment included, whatever came in which order.
TombstonesHold ==
  \A r \in Replicas : \A d \in {doc[r], kept[r]} \ {None} :
    \A i \in Shown(d) : ~Buried(d.gone, i, d.notes[i])

\* A guest that was there all along, and whose clock is not ahead of the host's,
\* ends up with the host's review, whatever it showed of its own before the
\* commits came.
SteadyGuestsAgree ==
  Settled => \A g \in Guests :
    breaks[g] = 0 /\ Ahead[g] <= Ahead[Host] => Texts(doc[g]) = Texts(doc[Host])

\* Deletions of i, its parent's among them, and the commits that have a word in
\* whether it shows.
Deletes(op, i) == op.t = "del" /\ op.id \in {i, Parent[i]}
Concerns(op, i) == Deletes(op, i) \/ (op.t = "add" /\ op.id = i)

DeletedBefore(k, i) == \E j \in 1..(k - 1) : Deletes(log[j].commit.op, i)

LastWord(k, i) ==
  /\ Concerns(log[k].commit.op, i)
  /\ \A j \in DOMAIN log : Concerns(log[j].commit.op, i) => j <= k

\* What it says: a deletion hides, a restoration shows, and so does the add the
\* comment was posted with unless it was deleted before.
Allows(k, i) ==
  LET op == log[k].commit.op
  IN op.t = "add" /\ (op.note.back # 0 \/ ~DeletedBefore(k, i))

\* Whether a comment shows at the host is decided by the last commit that adds,
\* restores or deletes it, or deletes its parent.
LastWordStands ==
  Settled => \A i \in Ids :
    /\ \A k \in DOMAIN log : LastWord(k, i) => (i \in Shown(doc[Host]) <=> Allows(k, i))
    /\ (\A k \in DOMAIN log : ~Concerns(log[k].commit.op, i)) =>
         (i \in Shown(doc[Host]) <=> i \in First)

Restores(op, i) == op.t = "add" /\ op.id = i /\ op.note.back # 0

\* The same guest also has the likes of every comment that was not put back.
LikesAgree ==
  Settled => \A g \in Guests : breaks[g] = 0 /\ Ahead[g] <= Ahead[Host] =>
    \A i \in Shown(doc[g]) \intersect Shown(doc[Host]) :
      doc[g].notes[i].fans = doc[Host].notes[i].fans
        \/ \E k \in DOMAIN log : Restores(log[k].commit.op, i)

\* The add i was posted with was committed after a deletion of it.
AddedLate(i) ==
  \E k \in DOMAIN log :
    /\ log[k].commit.op.t = "add" /\ log[k].commit.op.id = i /\ log[k].commit.op.note.back = 0
    /\ DeletedBefore(k, i)

\* Also a guest that came back shows no comment the host does not: what was
\* deleted for one is deleted for all.
NothingComesBack ==
  Settled => \A g \in Guests : Ahead[g] <= Ahead[Host] =>
    \A i \in Shown(doc[g]) : i \in Shown(doc[Host]) \/ AddedLate(i)

\* What d says of a comment.
Says(d, i) == IF i \in Shown(d) THEN <<d.notes[i].body, d.notes[i].resolved>> ELSE <<>>

\* What is on screen is what the file of that machine says: always at the host,
\* and at a guest that returned once at most and whose clock is not ahead, but
\* for comments whose add was committed after their deletion.
KeptIsShown ==
  Settled => \A r \in Replicas : r = Host \/ (breaks[r] <= 1 /\ Ahead[r] <= Ahead[Host]) =>
    \A i \in Ids : Says(kept[r], i) = Says(doc[r], i) \/ (r # Host /\ AddedLate(i))

\* The same of every guest, however often it returned.
EveryFileIsShown == Settled => \A r \in Replicas : Texts(kept[r]) = Texts(doc[r])

\* A comment put back shows until it is deleted again.
RestoredStay ==
  Settled => \A i \in Ids : \A k \in DOMAIN log :
    Restores(log[k].commit.op, i) /\ (\A j \in DOMAIN log : Deletes(log[j].commit.op, i) => j < k)
      => i \in Shown(doc[Host])

\* Every guest ends up with the host's review, texts and likes.
ReturnedGuestsAgree ==
  Settled => \A g \in Guests : View(doc[g]) = View(doc[Host])
=============================================================================
