--------------------------- MODULE ReviewDelivery ---------------------------
(***************************************************************************)
(* How a note reaches the room's shared review and is never lost.          *)
(*                                                                         *)
(* Every mutation of a review (an operation) is written to its author's    *)
(* durable outbox before it is sent.  The host runs one commit at a time:  *)
(* it gives the operation the next revision, waits until the document is   *)
(* on disk, publishes it and only then broadcasts the commit.  A guest     *)
(* forgets an operation when that commit (or an ack) arrives.  Retries,    *)
(* reconnects, a new room, a refused write and a host crash may fall       *)
(* between any two of those steps.                                         *)
(*                                                                         *)
(* Modelled: lib/review-delivery.ts, lib/review-outbox.ts, the delivery    *)
(* and room-lifecycle parts of hooks/use-co-review.ts, and what they use   *)
(* of lib/review-store.ts (cache, dirty flag, flush).  A document is       *)
(* abstracted to its `sync` record: the room it was last stamped with,     *)
(* its revision and the revision of each operation.                        *)
(***************************************************************************)
EXTENDS Integers, Sequences, SequencesExt

CONSTANTS
  Host,       \* the member who hosts the room
  Guests,     \* the members who join it
  Ops,        \* operation ids (crypto.randomUUID in the code)
  Author,     \* Author[o]: the member who posts o
  Target,     \* Target[o]: the `add` that o edits; o itself when o is an add
  Inherited,  \* Inherited[o] # 0: the host learnt o, with that revision, as a
              \* guest of an earlier host: a revision without a commit journal
  InheritedRev, \* the revision counter those left behind
  Foreign,    \* operations filed under a cut the host's document does not have
  MaxRoom,    \* bound: how many rooms the host opens
  MaxPipe     \* bound: messages in one direction of a link, and queued commits

Members == {Host} \union Guests

ASSUME ConstantsAssumption ==
  /\ Host \notin Guests
  /\ Author \in [Ops -> Members]
  /\ Target \in [Ops -> Ops]
  /\ Inherited \in [Ops -> Nat]
  /\ InheritedRev \in Nat /\ \A o \in Ops : Inherited[o] <= InheritedRev
  /\ \A o, p \in Ops : Inherited[o] = Inherited[p] /\ Inherited[o] # 0 => o = p
  /\ Foreign \subseteq Ops
  /\ MaxRoom \in Nat /\ MaxPipe \in Nat

VARIABLES
  posted,    \* operations members have posted (history)
  outbox,    \* outbox[m]: m's durable queue (localStorage)
  drain,     \* drain[m]: what the running drain of m's outbox has yet to send
  hosting,   \* coRoleRef.current = "host" at the host
  room,      \* coSessionIdRef.current at the host
  opened,    \* reviewKeysRef knows this review
  shown,     \* sessionDocRef holds this review
  doc,       \* sessionDocRef.current, meaningful while shown
  cache,     \* review-store's in-memory document
  dirty,     \* the cache has not reached disk
  disk,      \* the review file
  tail,      \* commits waiting behind the running one
  task,      \* the running commit
  link,      \* link[g]: the host's view of g's connection
  snap,      \* snap[g]: the snapshot a running welcome is about to send
  up, down,  \* up[g], down[g]: messages in flight from and to g
  joined,    \* joined[g]: g's coRoleRef.current = "peer"
  sid,       \* sid[g]: the room id g adopted; 0 before its first snapshot
  open,      \* open[g]: g's sessionDocRef holds this review
  known,     \* known[g]: revisions in the `sync.operations` g keeps
  seen,      \* seen[g]: operations g has applied to its copy of the review
  held,      \* held[g]: pendingOpsRef, operations waiting for a document
  astray     \* astray[g]: those g replayed onto its copy of another review

memberVars == <<posted, outbox, drain>>
roomVars   == <<hosting, room, opened, shown, doc>>
storeVars  == <<cache, dirty, disk>>
commitVars == <<tail, task>>
linkVars   == <<link, snap, up, down>>
guestVars  == <<joined, sid, open, known, seen, held, astray>>
vars == <<memberVars, roomVars, storeVars, commitVars, linkVars, guestVars>>

-----------------------------------------------------------------------------
(* Documents, tasks and messages *)

Revisions == [Ops -> Nat]
Docs == [sid : Nat, rev : Nat, ops : Revisions]
NoOps == [o \in Ops |-> 0]
NoDoc == [sid |-> 0, rev |-> 0, ops |-> NoOps]

Higher(m, n) == IF m > n THEN m ELSE n

\* mergeReviewDoc on the sync record: the incoming document's room and
\* revisions win, the revision counter never falls.
Merge(local, incoming) ==
  [sid |-> incoming.sid,
   rev |-> Higher(local.rev, incoming.rev),
   ops |-> [o \in Ops |-> IF incoming.ops[o] # 0 THEN incoming.ops[o]
                                                 ELSE local.ops[o]]]

\* deps.load: the cached document, with what the room has on screen.
Loaded == IF shown THEN Merge(cache, doc) ELSE cache

Intents == [op : Ops, sid : Nat, drain : BOOLEAN]
Intent(o, s, d) == [op |-> o, sid |-> s, drain |-> d]

Idle == [stage |-> "idle"]
Commits == [stage : {"saving", "saved", "sending", "copying"}, op : Ops, sid : Nat,
            drain : BOOLEAN, next : Docs]

Submits == [op : Ops, sid : Nat]
Receipts == [t : {"commit", "ack"}, op : Ops, sid : Nat, rev : Nat]
Snapshots == [t : {"doc"}, doc : Docs]
Copies == [t : {"copy"}, op : Ops]
Switches == [t : {"cleared", "other"}]
Downs == Receipts \union Snapshots \union Copies \union Switches

\* What a broadcast appends for every member of the roster.
Broadcast(msg) ==
  down' = [g \in Guests |-> IF link[g] = "none" THEN down[g]
                                               ELSE Append(down[g], msg)]
RoomForBroadcast == \A g \in Guests : Len(down[g]) < MaxPipe

\* Mutant: takes it for granted that the acknowledged envelope is the oldest.
ForgetOldest(m, o) ==
  IF outbox[m] # <<>> THEN [outbox EXCEPT ![m] = Tail(@)] ELSE outbox

\* acknowledgeEnvelope: m's queue without o.
Forget(m, o) ==
  IF o \in ToSet(outbox[m])
    THEN [outbox EXCEPT ![m] = RemoveAt(@, CHOOSE i \in DOMAIN @ : @[i] = o)]
    ELSE outbox

\* The user edits a note they can see: their own, or one in their document.
CanSee(m, o, visible) ==
  \/ Target[o] = o
  \/ Author[Target[o]] = m /\ Target[o] \in posted
  \/ Target[o] \in visible

CommittedIn(d) == {o \in Ops : d.ops[o] # 0}

-----------------------------------------------------------------------------
(* Posting and draining *)

\* postSessionOp at the host: outbox first, then the optimistic apply (whose
\* render effect puts the merged document in the store), then the commit.
HostPosts(o) ==
  /\ o \notin posted /\ Author[o] = Host
  /\ hosting /\ shown /\ CanSee(Host, o, CommittedIn(doc))
  /\ posted' = posted \union {o}
  /\ outbox' = [outbox EXCEPT ![Host] = Append(@, o)]
  /\ cache' = Merge(cache, doc)
  /\ dirty' = TRUE
  /\ tail' = Append(tail, Intent(o, room, FALSE))
  /\ UNCHANGED <<drain, disk, task, roomVars, linkVars, guestVars>>

\* session_send: on a live connection the message is queued, else it is lost.
GuestSends(g, o) ==
  up' = IF link[g] = "none" THEN up
        ELSE [up EXCEPT ![g] = Append(@, [op |-> o, sid |-> sid[g]])]

\* postSessionOp at a guest.
GuestPosts(g, o) ==
  /\ o \notin posted /\ Author[o] = g
  /\ open[g] /\ CanSee(g, o, seen[g])
  /\ posted' = posted \union {o}
  /\ outbox' = [outbox EXCEPT ![g] = Append(@, o)]
  /\ seen' = [seen EXCEPT ![g] = @ \union {o}]
  /\ GuestSends(g, o)
  /\ UNCHANGED <<drain, roomVars, storeVars, commitVars, link, snap, down, joined, sid, open, known, held, astray>>

\* A drain hands over the first envelope at once and awaits it before the next.
\* One drain runs per member; a second one would only repeat its sends.  With
\* the pipe at its bound the drain is left to the timer.
GuestDrainBegins(g) ==
  IF drain[g] = <<>> /\ outbox[g] # <<>> /\ link[g] # "none" /\ Len(up[g]) < MaxPipe
    THEN /\ up' = [up EXCEPT ![g] = Append(@, [op |-> Head(outbox[g]), sid |-> sid'[g]])]
         /\ drain' = [drain EXCEPT ![g] = Tail(outbox[g])]
    ELSE UNCHANGED <<up, drain>>

\* Mutant: only an adopted snapshot starts a drain, never the timer.
GuestNeverRetries(g) == FALSE /\ UNCHANGED vars

\* The five-second timer, for a review the member has keys for.
GuestStartsDrain(g) ==
  /\ joined[g] /\ sid[g] # 0 /\ link[g] # "none" /\ Len(up[g]) < MaxPipe
  /\ drain[g] = <<>> /\ outbox[g] # <<>>
  /\ UNCHANGED guestVars
  /\ GuestDrainBegins(g)
  /\ UNCHANGED <<posted, outbox, roomVars, storeVars, commitVars, link, snap, down>>

GuestDrains(g) ==
  /\ drain[g] # <<>> /\ link[g] # "none" /\ Len(up[g]) < MaxPipe
  /\ GuestSends(g, Head(drain[g]))
  /\ drain' = [drain EXCEPT ![g] = Tail(@)]
  /\ UNCHANGED <<posted, outbox, roomVars, storeVars, commitVars, link, snap, down, guestVars>>

\* A send that fails ends the drain; the rest stays queued.
GuestDrainFails(g) ==
  /\ drain[g] # <<>> /\ link[g] = "none"
  /\ drain' = [drain EXCEPT ![g] = <<>>]
  /\ UNCHANGED <<posted, outbox, roomVars, storeVars, commitVars, linkVars, guestVars>>

\* The host's drain awaits each commit before it starts the next.
HostDrainBusy ==
  \/ \E i \in DOMAIN tail : tail[i].drain
  \/ task # Idle /\ task.drain

HostDrainBegins ==
  IF ~HostDrainBusy /\ drain[Host] = <<>> /\ outbox[Host] # <<>> /\ Len(tail) < MaxPipe
    THEN /\ tail' = Append(tail, Intent(Head(outbox[Host]), room, TRUE))
         /\ drain' = [drain EXCEPT ![Host] = Tail(outbox[Host])]
    ELSE UNCHANGED <<tail, drain>>

HostStartsDrain ==
  /\ hosting /\ opened /\ ~HostDrainBusy /\ Len(tail) < MaxPipe
  /\ drain[Host] = <<>> /\ outbox[Host] # <<>>
  /\ HostDrainBegins
  /\ UNCHANGED <<posted, outbox, task, roomVars, storeVars, linkVars, guestVars>>

HostDrains ==
  /\ hosting /\ ~HostDrainBusy /\ drain[Host] # <<>> /\ Len(tail) < MaxPipe
  /\ tail' = Append(tail, Intent(Head(drain[Host]), room, TRUE))
  /\ drain' = [drain EXCEPT ![Host] = Tail(@)]
  /\ UNCHANGED <<posted, outbox, task, roomVars, storeVars, linkVars, guestVars>>

-----------------------------------------------------------------------------
(* The serial commit *)

\* coApplyRef, review-submit: only the current room's submissions are queued.
HostReceives(g) ==
  /\ up[g] # <<>> /\ Len(tail) < MaxPipe
  /\ up' = [up EXCEPT ![g] = Tail(@)]
  /\ tail' = IF hosting /\ Head(up[g]).sid = room
               THEN Append(tail, Intent(Head(up[g]).op, Head(up[g]).sid, FALSE))
               ELSE tail
  /\ UNCHANGED <<memberVars, roomVars, storeVars, task, link, snap, down, guestVars>>

\* A commit that throws ends the host's drain when the drain awaited it.
CommitFails(intent) ==
  drain' = IF intent.drain THEN [drain EXCEPT ![Host] = <<>>] ELSE drain

Admissible(intent) ==
  /\ hosting /\ intent.sid = room      \* authorize
  /\ intent.op \notin Foreign          \* prepareCommit: a different cut

Running(intent, next) ==
  [stage |-> "saving", op |-> intent.op, sid |-> intent.sid,
   drain |-> intent.drain, next |-> next]

\* A retry of an operation the document already has: save again, then re-send.
RetryCommit ==
  /\ tail # <<>> /\ task = Idle
  /\ opened /\ Loaded.ops[Head(tail).op] # 0
  /\ task' = Running(Head(tail), Loaded)
  /\ tail' = Tail(tail)
  /\ cache' = Loaded
  /\ dirty' = (dirty \/ shown)
  /\ UNCHANGED <<memberVars, roomVars, disk, linkVars, guestVars>>

\* Mutant: the counter is read but not advanced.
CommittedInPlace(d, intent) ==
  [sid |-> intent.sid, rev |-> d.rev, ops |-> [d.ops EXCEPT ![intent.op] = d.rev + 1]]

\* prepareCommit and applyCommit: the next revision, in this room.
Committed(d, intent) ==
  [sid |-> intent.sid, rev |-> d.rev + 1,
   ops |-> [d.ops EXCEPT ![intent.op] = d.rev + 1]]

\* Mutant: the document is not asked whether it already has the operation.
FreshCommitAnyway ==
  /\ tail # <<>> /\ task = Idle
  /\ opened /\ Admissible(Head(tail))
  /\ LET next == Committed(Loaded, Head(tail)) IN
       /\ task' = Running(Head(tail), next)
       /\ cache' = next
  /\ tail' = Tail(tail)
  /\ dirty' = TRUE
  /\ UNCHANGED <<memberVars, roomVars, disk, linkVars, guestVars>>

FreshCommit ==
  /\ tail # <<>> /\ task = Idle
  /\ opened /\ Loaded.ops[Head(tail).op] = 0 /\ Admissible(Head(tail))
  /\ LET next == Committed(Loaded, Head(tail)) IN
       /\ task' = Running(Head(tail), next)
       /\ cache' = next
  /\ tail' = Tail(tail)
  /\ dirty' = TRUE
  /\ UNCHANGED <<memberVars, roomVars, disk, linkVars, guestVars>>

\* The review is not open, the room has changed, or the cut is another one.
RejectCommit ==
  /\ tail # <<>> /\ task = Idle
  /\ ~opened \/ (Loaded.ops[Head(tail).op] = 0 /\ ~Admissible(Head(tail)))
  /\ CommitFails(Head(tail))
  /\ tail' = Tail(tail)
  /\ UNCHANGED <<posted, outbox, task, roomVars, storeVars, linkVars, guestVars>>

\* writeDirtyDocs on behalf of the commit: document and index reach disk.
WriteLands ==
  /\ task.stage = "saving"
  /\ disk' = cache
  /\ dirty' = FALSE
  /\ task' = [task EXCEPT !.stage = "saved"]
  /\ UNCHANGED <<memberVars, roomVars, cache, tail, linkVars, guestVars>>

\* Mutant: the failure is caught and the commit goes on as if saved.
WriteFailureIsSwallowed ==
  /\ task.stage = "saving" /\ dirty
  /\ dirty' = FALSE
  /\ task' = [task EXCEPT !.stage = "saved"]
  /\ UNCHANGED <<memberVars, roomVars, disk, cache, tail, linkVars, guestVars>>

\* The write fails, before the document or between it and the index: the
\* document stays dirty and the commit throws.
WriteFails ==
  /\ task.stage = "saving" /\ dirty
  /\ disk' \in {disk, cache}
  /\ CommitFails(task)
  /\ task' = Idle
  /\ UNCHANGED <<posted, outbox, tail, roomVars, cache, dirty, linkVars, guestVars>>

\* persistReviewDoc throws when the document changed while it was written.
SaveIsStale ==
  /\ task.stage = "saved" /\ dirty
  /\ CommitFails(task)
  /\ task' = Idle
  /\ UNCHANGED <<posted, outbox, tail, roomVars, storeVars, linkVars, guestVars>>

\* publish (and its render effect), then the start of send: acknowledge the
\* host's own outbox when the commit belongs to the current room.
Publish ==
  /\ task.stage = "saved" /\ ~dirty
  /\ IF hosting /\ shown
       THEN /\ doc' = task.next
            /\ cache' = Merge(cache, task.next)
            /\ dirty' = TRUE
       ELSE UNCHANGED <<doc, cache, dirty>>
  /\ IF hosting /\ task.sid = room
       THEN /\ outbox' = Forget(Host, task.op)
            /\ task' = [task EXCEPT !.stage = "sending"]
       ELSE /\ outbox' = outbox
            /\ task' = Idle
  /\ UNCHANGED <<posted, drain, hosting, room, opened, shown, disk, tail, linkVars, guestVars>>

\* A revision with a journal entry is announced as the commit it was, one
\* without as a bare acknowledgement.
Announcement ==
  [t |-> IF Inherited[task.op] = 0 THEN "commit" ELSE "ack",
   op |-> task.op, sid |-> task.sid, rev |-> task.next.ops[task.op]]

SendCommit ==
  /\ task.stage = "sending" /\ RoomForBroadcast
  /\ Broadcast(Announcement)
  /\ task' = IF Announcement.t = "commit" THEN [task EXCEPT !.stage = "copying"] ELSE Idle
  /\ UNCHANGED <<memberVars, roomVars, storeVars, tail, link, snap, up, guestVars>>

\* The bare operation, for clients that cannot read the commit.
SendCopy ==
  /\ task.stage = "copying" /\ RoomForBroadcast
  /\ Broadcast([t |-> "copy", op |-> task.op])
  /\ task' = Idle
  /\ UNCHANGED <<memberVars, roomVars, storeVars, tail, link, snap, up, guestVars>>

\* The debounced background flush.
FlushCache ==
  /\ dirty
  /\ disk' = cache
  /\ dirty' = FALSE
  /\ UNCHANGED <<memberVars, roomVars, cache, commitVars, linkVars, guestVars>>

-----------------------------------------------------------------------------
(* The host's room *)

StartRoom ==
  /\ ~hosting /\ room < MaxRoom
  /\ hosting' = TRUE
  /\ room' = room + 1
  /\ UNCHANGED <<memberVars, opened, shown, doc, storeVars, commitVars, linkVars, guestVars>>

\* Seeding: the stored document, stamped with this room, becomes the session
\* document, is announced to the roster, and the outbox is drained.
OpenReview ==
  /\ hosting /\ ~shown /\ RoomForBroadcast
  /\ LET seeded == [cache EXCEPT !.sid = room] IN
       /\ doc' = seeded
       /\ cache' = seeded
       /\ Broadcast([t |-> "doc", doc |-> seeded])
  /\ dirty' = TRUE
  /\ shown' = TRUE /\ opened' = TRUE
  /\ HostDrainBegins
  /\ UNCHANGED <<posted, outbox, hosting, room, disk, task, link, snap, up, guestVars>>

\* The host clears the source or turns to another review.  This one goes to
\* the store first; the room's key for it stays.
LeaveReview(switch) ==
  /\ hosting /\ RoomForBroadcast
  /\ cache' = Loaded
  /\ dirty' = (dirty \/ shown)
  /\ shown' = FALSE
  /\ doc' = NoDoc
  /\ Broadcast([t |-> switch])
  /\ UNCHANGED <<memberVars, hosting, room, opened, disk, commitVars, link, snap, up, guestVars>>

CloseReview == shown /\ LeaveReview("cleared")
OpenOther == LeaveReview("other")

NoLinks ==
  /\ link' = [g \in Guests |-> "none"]
  /\ snap' = [g \in Guests |-> NoDoc]
  /\ up' = [g \in Guests |-> <<>>]

\* Leaving: what is shown goes to the store, the keys are forgotten.  Commits
\* already queued or running are not cancelled.
EndRoom ==
  /\ hosting
  /\ hosting' = FALSE
  /\ cache' = Loaded
  /\ dirty' = (dirty \/ shown)
  /\ shown' = FALSE /\ opened' = FALSE
  /\ doc' = NoDoc
  /\ drain' = [drain EXCEPT ![Host] = <<>>]
  /\ NoLinks
  /\ UNCHANGED <<posted, outbox, room, disk, commitVars, down, guestVars>>

\* The host's process dies: memory goes, the disk and the outbox stay.
HostCrashes ==
  /\ hosting \/ dirty \/ tail # <<>> \/ task # Idle
  /\ hosting' = FALSE
  /\ cache' = disk
  /\ dirty' = FALSE
  /\ shown' = FALSE /\ opened' = FALSE
  /\ doc' = NoDoc
  /\ tail' = <<>> /\ task' = Idle
  /\ drain' = [drain EXCEPT ![Host] = <<>>]
  /\ NoLinks
  /\ UNCHANGED <<posted, outbox, room, disk, down, guestVars>>

-----------------------------------------------------------------------------
(* Links and guests *)

GuestJoins(g) ==
  /\ hosting /\ ~joined[g] /\ link[g] = "none"
  /\ joined' = [joined EXCEPT ![g] = TRUE]
  /\ link' = [link EXCEPT ![g] = "joined"]
  /\ down' = [down EXCEPT ![g] = <<>>]
  /\ UNCHANGED <<memberVars, roomVars, storeVars, commitVars, snap, up, sid, open, known, seen, held, astray>>

\* The welcome effect serialises the session document ...
HostGreets(g) ==
  /\ link[g] = "joined"
  /\ snap' = [snap EXCEPT ![g] = doc]
  /\ link' = [link EXCEPT ![g] = IF shown THEN "greeting" ELSE "live"]
  /\ UNCHANGED <<memberVars, roomVars, storeVars, commitVars, up, down, guestVars>>

\* ... and sends that text after awaiting the messages that go before it.
GreetingSent(g) ==
  /\ link[g] = "greeting" /\ Len(down[g]) < MaxPipe
  /\ down' = [down EXCEPT ![g] = Append(@, [t |-> "doc", doc |-> snap[g]])]
  /\ link' = [link EXCEPT ![g] = "live"]
  /\ snap' = [snap EXCEPT ![g] = NoDoc]
  /\ UNCHANGED <<memberVars, roomVars, storeVars, commitVars, up, guestVars>>

CutLink(g) ==
  /\ link' = [link EXCEPT ![g] = "none"]
  /\ snap' = [snap EXCEPT ![g] = NoDoc]
  /\ up' = [up EXCEPT ![g] = <<>>]

LinkBreaks(g) ==
  /\ link[g] # "none"
  /\ CutLink(g)
  /\ UNCHANGED <<memberVars, roomVars, storeVars, commitVars, down, guestVars>>

\* The guest's side of a closed connection: off, and the session is forgotten.
GuestResets(g) ==
  /\ joined' = [joined EXCEPT ![g] = FALSE]
  /\ sid' = [sid EXCEPT ![g] = 0]
  /\ open' = [open EXCEPT ![g] = FALSE]
  /\ down' = [down EXCEPT ![g] = <<>>]
  /\ drain' = [drain EXCEPT ![g] = <<>>]
  /\ held' = [held EXCEPT ![g] = {}]

GuestGoesOff(g) ==
  /\ joined[g] /\ link[g] = "none"
  /\ GuestResets(g)
  /\ UNCHANGED <<posted, outbox, roomVars, storeVars, commitVars, link, snap, up, known, seen, astray>>

\* At worst nothing of the guest's debounced document had reached its disk.
GuestCrashes(g) ==
  /\ joined[g]
  /\ GuestResets(g)
  /\ CutLink(g)
  /\ known' = [known EXCEPT ![g] = NoOps]
  /\ seen' = [seen EXCEPT ![g] = {}]
  /\ UNCHANGED <<posted, outbox, roomVars, storeVars, commitVars, astray>>

Delivered(g, kinds) ==
  /\ joined[g] /\ down[g] # <<>> /\ Head(down[g]).t \in kinds
  /\ down' = [down EXCEPT ![g] = Tail(@)]

\* reviewDoc: adopt the host's room and document, replay what was held (when
\* no document was open) and the outbox, and drain the outbox.
GuestAdopts(g) ==
  /\ Delivered(g, {"doc"})
  /\ LET incoming == Head(down[g]).doc IN
       /\ sid' = [sid EXCEPT ![g] = incoming.sid]
       /\ known' = [known EXCEPT ![g] = [o \in Ops |-> IF incoming.ops[o] # 0
                                              THEN incoming.ops[o] ELSE @[o]]]
       /\ seen' = [seen EXCEPT ![g] = @ \union CommittedIn(incoming) \union ToSet(outbox[g])
                                      \union (IF open[g] THEN {} ELSE held[g])]
  /\ held' = [held EXCEPT ![g] = IF open[g] THEN @ ELSE {}]
  /\ open' = [open EXCEPT ![g] = TRUE]
  /\ GuestDrainBegins(g)
  /\ UNCHANGED <<posted, outbox, roomVars, storeVars, commitVars, link, snap, joined, astray>>

\* loadSource for nothing: the review leaves the screen.
GuestClears(g) ==
  /\ Delivered(g, {"cleared"})
  /\ open' = [open EXCEPT ![g] = FALSE]
  /\ UNCHANGED <<memberVars, roomVars, storeVars, commitVars, link, snap, up, joined, sid, known, seen, held, astray>>

\* reviewDoc of another review: this one is stored.  With no document open the
\* held operations are replayed onto the other one.
GuestAdoptsOther(g) ==
  /\ Delivered(g, {"other"})
  /\ open' = [open EXCEPT ![g] = FALSE]
  /\ IF open[g]
       THEN UNCHANGED <<held, astray>>
       ELSE /\ astray' = [astray EXCEPT ![g] = @ \union held[g]]
            /\ held' = [held EXCEPT ![g] = {}]
  /\ UNCHANGED <<memberVars, roomVars, storeVars, commitVars, link, snap, up, joined, sid, known, seen>>

\* review-commit and review-ack, for the room the guest adopted: apply once,
\* then acknowledge.  Anything else is dropped and the note stays queued.
GuestHears(g) ==
  /\ Delivered(g, {"commit", "ack"})
  /\ LET m == Head(down[g]) IN
       IF m.sid # sid[g]
         THEN UNCHANGED <<outbox, known, seen>>
         ELSE /\ outbox' = Forget(g, m.op)
              /\ IF m.t = "commit" /\ known[g][m.op] = 0
                   THEN /\ known' = [known EXCEPT ![g][m.op] = m.rev]
                        /\ seen' = [seen EXCEPT ![g] = @ \union {m.op}]
                   ELSE UNCHANGED <<known, seen>>
  /\ UNCHANGED <<posted, drain, roomVars, storeVars, commitVars, link, snap, up, joined, sid, open, held, astray>>

\* The compatibility copy: ignored over a committed document, held without one.
GuestHearsCopy(g) ==
  /\ Delivered(g, {"copy"})
  /\ held' = [held EXCEPT ![g] = IF open[g] THEN @ ELSE @ \union {Head(down[g]).op}]
  /\ UNCHANGED <<memberVars, roomVars, storeVars, commitVars, link, snap, up, joined, sid, open, known, seen, astray>>

-----------------------------------------------------------------------------
(* Specification *)

Stored == [sid |-> 0, rev |-> InheritedRev, ops |-> Inherited]

\* The application starts: nobody is in a room, and an operation an earlier
\* host committed may still wait in its author's outbox for the lost answer.
Init ==
  /\ posted = {o \in Ops : Inherited[o] # 0}
  /\ outbox \in [Members -> {<<>>} \union {<<o>> : o \in posted}]
  /\ \A m \in Members : \A i \in DOMAIN outbox[m] : Author[outbox[m][i]] = m
  /\ drain = [m \in Members |-> <<>>]
  /\ hosting = FALSE /\ room = 0 /\ opened = FALSE /\ shown = FALSE
  /\ doc = NoDoc /\ cache = Stored /\ disk = Stored /\ dirty = FALSE
  /\ tail = <<>> /\ task = Idle
  /\ link = [g \in Guests |-> "none"]
  /\ snap = [g \in Guests |-> NoDoc]
  /\ up = [g \in Guests |-> <<>>] /\ down = [g \in Guests |-> <<>>]
  /\ joined = [g \in Guests |-> FALSE] /\ open = [g \in Guests |-> FALSE]
  /\ sid = [g \in Guests |-> 0]
  /\ known = [g \in Guests |-> NoOps]
  /\ seen = [g \in Guests |-> {}] /\ held = [g \in Guests |-> {}]
  /\ astray = [g \in Guests |-> {}]

HostCommits ==
  \/ RetryCommit \/ FreshCommit \/ RejectCommit
  \/ WriteLands \/ WriteFails \/ SaveIsStale
  \/ Publish \/ SendCommit \/ SendCopy \/ FlushCache

HostNext ==
  \/ \E o \in Ops : HostPosts(o)
  \/ HostStartsDrain \/ HostDrains
  \/ \E g \in Guests : HostReceives(g) \/ HostGreets(g) \/ GreetingSent(g)
  \/ HostCommits
  \/ StartRoom \/ OpenReview \/ CloseReview \/ OpenOther \/ EndRoom \/ HostCrashes

GuestNext(g) ==
  \/ \E o \in Ops : GuestPosts(g, o)
  \/ GuestStartsDrain(g) \/ GuestDrains(g) \/ GuestDrainFails(g)
  \/ GuestJoins(g) \/ LinkBreaks(g) \/ GuestGoesOff(g) \/ GuestCrashes(g)
  \/ GuestAdopts(g) \/ GuestClears(g) \/ GuestAdoptsOther(g)
  \/ GuestHears(g) \/ GuestHearsCopy(g)

Next == HostNext \/ \E g \in Guests : GuestNext(g)

Spec == Init /\ [][Next]_vars

-----------------------------------------------------------------------------
(* Type invariant *)

MemberTypes ==
  /\ posted \in SUBSET Ops
  /\ outbox \in [Members -> Seq(Ops)] /\ drain \in [Members -> Seq(Ops)]

RoomTypes ==
  /\ hosting \in BOOLEAN /\ room \in Nat
  /\ opened \in BOOLEAN /\ shown \in BOOLEAN /\ doc \in Docs

StoreTypes == cache \in Docs /\ disk \in Docs /\ dirty \in BOOLEAN

CommitTypes == tail \in Seq(Intents) /\ task \in {Idle} \union Commits

LinkTypes ==
  /\ link \in [Guests -> {"none", "joined", "greeting", "live"}]
  /\ snap \in [Guests -> Docs]
  /\ up \in [Guests -> Seq(Submits)] /\ down \in [Guests -> Seq(Downs)]

GuestTypes ==
  /\ joined \in [Guests -> BOOLEAN] /\ open \in [Guests -> BOOLEAN]
  /\ sid \in [Guests -> Nat] /\ known \in [Guests -> Revisions]
  /\ seen \in [Guests -> SUBSET Ops] /\ held \in [Guests -> SUBSET Ops]
  /\ astray \in [Guests -> SUBSET Ops]

TypeOK ==
  MemberTypes /\ RoomTypes /\ StoreTypes /\ CommitTypes /\ LinkTypes /\ GuestTypes

-----------------------------------------------------------------------------
(* Safety *)

\* A posted note is in its author's outbox until the host's review file has it.
NoNoteLost ==
  \A o \in posted : o \in ToSet(outbox[Author[o]]) \/ disk.ops[o] # 0

\* What the host announces is on its disk, with the announced revision.
AnnouncedIsDurable ==
  \A g \in Guests : \A i \in DOMAIN down[g] :
    down[g][i].t \in {"commit", "ack"} =>
      down[g][i].rev # 0 /\ disk.ops[down[g][i].op] = down[g][i].rev

\* The inductive invariant behind the promises.  Every copy of the document
\* agrees with the cache ...
Keeps(f, k) == \A o \in Ops : f[o] # 0 => k[o] = f[o]

CacheKeepsAll ==
  /\ Keeps(disk.ops, cache.ops) /\ Keeps(doc.ops, cache.ops)
  /\ task.stage # "idle" =>
       Keeps(task.next.ops, cache.ops) /\ task.next.ops[task.op] # 0

\* ... no revision is above the counter of its document ...
CountersAhead ==
  \A o \in Ops : cache.ops[o] <= cache.rev /\ disk.ops[o] <= disk.rev

\* ... no two operations share one, and what is not yet on disk is later than
\* all that is ...
OneRevisionEach ==
  /\ \A o, p \in Ops : cache.ops[o] = cache.ops[p] /\ cache.ops[o] # 0 => o = p
  /\ \A o, p \in Ops : disk.ops[o] = 0 /\ cache.ops[o] # 0 => disk.ops[p] < cache.ops[o]

\* ... a commit past its save is on disk ...
SavedIsDurable ==
  task.stage \in {"saved", "sending", "copying"} =>
    disk.ops[task.op] = task.next.ops[task.op]

\* ... and only what was posted is queued, sent or committed.
MembersPosted ==
  \A m \in Members : ToSet(outbox[m]) \subseteq posted /\ ToSet(drain[m]) \subseteq posted
TailPosted == \A i \in DOMAIN tail : tail[i].op \in posted
UpPosted == \A g \in Guests : \A i \in DOMAIN up[g] : up[g][i].op \in posted
CachePosted == \A o \in Ops : cache.ops[o] # 0 => o \in posted
OnlyPosted == MembersPosted /\ TailPosted /\ UpPosted /\ CachePosted

DurableInv ==
  /\ CacheKeepsAll /\ CountersAhead /\ OneRevisionEach /\ SavedIsDurable
  /\ OnlyPosted /\ AnnouncedIsDurable /\ NoNoteLost

\* The delivery implements the ledger: revisions are the ones in the review
\* file, and a note is settled once its author's outbox has let go of it.
Ledger == INSTANCE NoteLedger WITH
  Notes <- Ops,
  rev <- disk.ops,
  settled <- {o \in posted : o \notin ToSet(outbox[Author[o]])}

RefinesLedger == Ledger!Spec

\* An author's edit is committed after the note it edits.
EditFollowsNote ==
  \A o \in Ops :
    disk.ops[o] # 0 /\ Author[o] = Author[Target[o]] /\ Target[o] # o
      => disk.ops[Target[o]] # 0 /\ disk.ops[Target[o]] < disk.ops[o]

\* Whatever room document the host shows is stamped with the current room.
ShownInThisRoom == hosting /\ shown => doc.sid = room

\* Once nothing is in flight, a guest that has the review open has every
\* operation the host's shown review has.
Settled ==
  /\ hosting /\ shown /\ task = Idle /\ tail = <<>>
  /\ \A g \in Guests : down[g] = <<>> /\ link[g] \notin {"joined", "greeting"}

GuestsConverge ==
  Settled => \A g \in Guests : link[g] = "live" /\ open[g] =>
               CommittedIn(doc) \subseteq seen[g]

\* An operation is never replayed onto a review it was not made on.
NotesStayWithTheirReview == \A g \in Guests : astray[g] = {}

-----------------------------------------------------------------------------
(* Liveness *)

\* The program's own steps are taken when they can be; users, links, crashes
\* and refused writes come as they please, but a write that is retried for
\* ever succeeds in the end.
Fairness ==
  /\ WF_vars(HostStartsDrain) /\ WF_vars(HostDrains)
  /\ WF_vars(RetryCommit) /\ WF_vars(FreshCommit) /\ WF_vars(RejectCommit)
  /\ SF_vars(WriteLands) /\ WF_vars(SaveIsStale) /\ SF_vars(Publish)
  /\ WF_vars(SendCommit) /\ WF_vars(SendCopy) /\ WF_vars(FlushCache)
  /\ \A g \in Guests :
       /\ WF_vars(HostReceives(g)) /\ WF_vars(HostGreets(g)) /\ WF_vars(GreetingSent(g))
       /\ WF_vars(GuestStartsDrain(g)) /\ WF_vars(GuestDrains(g))
       /\ WF_vars(GuestDrainFails(g)) /\ WF_vars(GuestGoesOff(g))
       /\ WF_vars(GuestAdopts(g)) /\ WF_vars(GuestClears(g)) /\ WF_vars(GuestAdoptsOther(g))
       /\ WF_vars(GuestHears(g)) /\ WF_vars(GuestHearsCopy(g))

FairSpec == Spec /\ Fairness

\* The author and the host stay together in a room with the review open.
Together(m) ==
  /\ hosting /\ shown
  /\ m # Host => link[m] = "live" /\ open[m] /\ sid[m] = room

\* A note whose author stays in the room leaves the outbox: it is committed
\* and acknowledged.
NotesAreDelivered ==
  \A o \in Ops :
    <>[]Together(Author[o]) => (o \in posted ~> o \notin ToSet(outbox[Author[o]]))
=============================================================================
