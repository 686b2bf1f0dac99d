----------------------------- MODULE NdiProgram -----------------------------
(***************************************************************************)
(* A live program shared with the room: the coordinator of the page        *)
(* (ndi-program-coordinator.ts) with the hook that feeds it                *)
(* (use-ndi-input.ts), the native registry of receivers (ndi.rs) and the   *)
(* host's publication (session.rs).                                        *)
(*                                                                         *)
(* The page's operations run one at a time, each a chain of native         *)
(* commands; the room may change between any two of them.  A command that  *)
(* takes the session's lock is one step.                                   *)
(***************************************************************************)
EXTENDS Naturals, Sequences, FiniteSets

CONSTANTS
  Source,         \* what can be previewed: NDI sources and captures
  NoSource,
  Programs,       \* how many receivers may be started, a bound
  Intents,        \* how many operations the user may ask for, a bound
  Events,         \* how much may happen to the room and its receivers, a bound
  LateSnapshots,  \* may ndi_sessions answer after a command that came later?
  Impatient       \* may the user act while an event, a snapshot or an answer is on its way?

ASSUME ProgramAssumption ==
  /\ NoSource \notin Source
  /\ {Programs, Intents, Events} \subseteq Nat
  /\ {LateSnapshots, Impatient} \subseteq BOOLEAN

Program == 1 .. Programs
NoRoom == 0
Nothing == 0

VARIABLES
  room,         \* the host's session: generation, presenting, epoch
  registry,     \* Programs: the receivers ever started, those entered, its generation
  bound,        \* Program.room: the generation each receiver is bound to
  publication,  \* published_program, or NoLease
  announced,    \* the session:state events on their way: does the host present?
  happened,     \* how many of them there have been
  page,         \* the coordinator's snapshot, and its intent counter
  turns,        \* the operations that wait for the one under way
  doing,        \* that operation, and the await it is suspended at
  sync          \* the last ndi_sessions: its stage and what it has read

hostVars == <<room, announced, happened>>
nativeVars == <<registry, bound, publication>>
ndiVars == <<hostVars, nativeVars, page, turns, doing, sync>>

NoLease == [id |-> Nothing, gen |-> NoRoom, epoch |-> 0, revision |-> 0]
NoCandidate == [id |-> Nothing, room |-> NoRoom, retired |-> FALSE]
Off == [gen |-> NoRoom, epoch |-> 0, presents |-> FALSE]
\* An operation: what it is about, the await it is at, and what a stop is for.
NotDoing == [op |-> "none", turn |-> 0, at |-> "idle", then |-> "idle", source |-> NoSource,
             id |-> Nothing, lease |-> NoLease, room |-> Off, generation |-> 0, in |-> NoRoom]
NoSync == [stage |-> "none"]

Running == registry.entries \ registry.stopped
IsPublished(p) == publication.id = p

NdiTypeOK ==
  /\ room \in [gen : Nat, hosts : BOOLEAN, presents : BOOLEAN, epoch : Nat]
  /\ registry.entries \subseteq 1 .. registry.started /\ registry.started \in 0 .. Programs
  /\ Cardinality(Running) <= 2
  /\ publication.id # Nothing => room.hosts /\ room.presents /\ publication.gen = room.gen
                                  /\ publication.epoch = room.epoch
  /\ page.lease.id = page.published.id
  /\ page.candidate.id # Nothing => page.candidate.id # page.published.id
  /\ Len(turns) <= Intents
  /\ page.busy \in {"none", "starting", "publishing", "stopping"}
  /\ sync.stage \in {"none", "asked", "room", "answered"}

NdiInit ==
  /\ room = [gen |-> 0, hosts |-> FALSE, presents |-> FALSE, epoch |-> 0]
  /\ registry = [started |-> 0, entries |-> {}, stopped |-> {}, generation |-> 0,
                 source |-> [p \in Program |-> NoSource], revision |-> 0]
  /\ bound = [p \in Program |-> NoRoom]
  /\ publication = NoLease
  /\ announced = <<>> /\ happened = 0
  /\ page = [candidate |-> NoCandidate, published |-> NoCandidate, lease |-> NoLease,
             room |-> Off, busy |-> "none", intent |-> 0]
  /\ turns = <<>> /\ doing = NotDoing /\ sync = NoSync

-----------------------------------------------------------------------------
(* The room and the registry.                                              *)

\* What a member would be told: a room whose host presents, or not.
Announce(r) ==
  /\ happened < Events /\ happened' = happened + 1
  /\ announced' = Append(announced, r.hosts /\ r.presents)

\* stop_room: every receiver of the room ends, and no start under way enters.
StopRoom(gen) ==
  registry' = [registry EXCEPT !.generation = @ + 1,
                               !.entries = {p \in @ : bound[p] # gen}]

PageRests == UNCHANGED <<page, turns, doing, sync>>

HostRoom ==
  /\ ~room.hosts
  /\ room' = [gen |-> room.gen + 1, hosts |-> TRUE, presents |-> TRUE, epoch |-> 0]
  /\ Announce(room')
  /\ UNCHANGED nativeVars /\ PageRests

\* session_leave.
LeaveRoom ==
  /\ room.hosts
  /\ room' = [gen |-> room.gen + 1, hosts |-> FALSE, presents |-> FALSE, epoch |-> 0]
  /\ Announce(room')
  /\ StopRoom(room.gen) /\ publication' = NoLease
  /\ UNCHANGED bound /\ PageRests

\* A guest is let present (the host has no way to take the floor back): what was
\* shared is not any more, and no event tells the host's own page.
NamePresenter ==
  /\ room.hosts
  /\ happened < Events /\ happened' = happened + 1
  /\ room' = [room EXCEPT !.presents = FALSE, !.epoch = @ + 1]
  /\ StopRoom(room.gen) /\ publication' = NoLease
  /\ UNCHANGED <<announced, bound>> /\ PageRests

\* The host presents a file, while its page shows no program: what is published
\* is revoked, and nobody tells the page that waits for the publication's answer.
ShowFile ==
  /\ room.hosts /\ room.presents /\ page.lease = NoLease
  /\ Impatient \/ doing.at # "committed"
  /\ happened < Events /\ happened' = happened + 1
  /\ publication' = NoLease
  /\ UNCHANGED <<room, announced, registry, bound>> /\ PageRests

\* A guest comes or goes: the state is announced as it is.
RoomAnnounced ==
  /\ room.hosts
  /\ Announce(room)
  /\ UNCHANGED <<room, nativeVars>> /\ PageRests

\* A receiver fails by itself, or its application is closed.
ProgramDies(p) ==
  /\ p \in Running /\ happened < Events /\ happened' = happened + 1
  /\ registry' = [registry EXCEPT !.stopped = @ \cup {p}]
  /\ UNCHANGED <<room, announced, bound, publication>> /\ PageRests

-----------------------------------------------------------------------------
(* The coordinator.                                                        *)

Valid(turn) == turn = page.intent
SetPage(patch) == page' = patch

\* setRoom: a room other than the one last seen ends every intent.
Entered(pg, seen) ==
  IF seen = pg.room THEN pg
  ELSE [pg EXCEPT !.intent = @ + 1, !.room = seen, !.busy = "none",
                  !.published = NoCandidate, !.lease = NoLease,
                  !.candidate = IF @.room = NoRoom \/ (@.room = seen.gen /\ seen.presents)
                                  THEN @ ELSE NoCandidate]

\* restore: the room, and if nothing is under way the native truth about programs.
Restored(pg, snap) ==
  LET now == Entered(pg, snap.room)
      others == snap.programs \ {snap.lease.id}
      kept == {now.candidate.id} \cap others
      chosen == IF kept # {} THEN kept ELSE IF Cardinality(others) = 1 THEN others ELSE {}
      Local(p) == [id |-> p, room |-> snap.bound[p], retired |-> FALSE]
  IN IF now.busy # "none" THEN now
     ELSE [now EXCEPT
            !.published = IF snap.lease.id \in snap.programs THEN Local(snap.lease.id) ELSE NoCandidate,
            !.lease = IF snap.lease.id \in snap.programs THEN snap.lease ELSE NoLease,
            !.candidate = IF chosen = {} THEN NoCandidate
                          ELSE Local(CHOOSE p \in chosen : TRUE)]

\* A session:state event: leave at once what the host no longer presents, then
\* ask for the whole truth.
HearState ==
  /\ announced # <<>>
  /\ announced' = Tail(announced)
  /\ page' = IF Head(announced) THEN page ELSE Entered(page, Off)
  /\ sync' = [stage |-> "asked"]
  /\ UNCHANGED <<room, happened, nativeVars, turns, doing>>

\* ndi_sessions reads the room, and then the registry.
ReadRoom ==
  /\ sync.stage = "asked"
  /\ sync' = [stage |-> "room", lease |-> publication,
              room |-> IF room.hosts
                         THEN [gen |-> room.gen, epoch |-> room.epoch, presents |-> room.presents]
                         ELSE Off]
  /\ UNCHANGED <<hostVars, nativeVars, page, turns, doing>>

ReadPrograms ==
  /\ sync.stage = "room"
  /\ sync' = [stage |-> "answered", room |-> sync.room, lease |-> sync.lease,
              programs |-> registry.entries, bound |-> bound]
  /\ UNCHANGED <<hostVars, nativeVars, page, turns, doing>>

Restore ==
  /\ sync.stage = "answered"
  /\ page' = Restored(page, sync)
  /\ sync' = NoSync
  /\ UNCHANGED <<hostVars, nativeVars, turns, doing>>

\* An operation is asked for: it takes the next turn, and no snapshot asked
\* before it counts any more.
Asks(request, busy) ==
  /\ page.intent < Intents
  /\ Impatient \/ (announced = <<>> /\ sync.stage = "none")
  /\ page' = [page EXCEPT !.intent = @ + 1, !.busy = busy]
  /\ turns' = Append(turns, [request EXCEPT !.turn = page.intent + 1])
  /\ sync' = NoSync
  /\ UNCHANGED <<hostVars, nativeVars, doing>>

Mutable == page.busy \notin {"publishing", "stopping"}

AskPreview ==
  /\ Mutable
  /\ \E s \in Source : Asks([NotDoing EXCEPT !.op = "preview", !.source = s], "starting")

AskPublish ==
  /\ page.candidate.id # Nothing /\ ~page.candidate.retired
  /\ page.room.presents /\ page.busy = "none"
  /\ Asks([NotDoing EXCEPT !.op = "publish", !.id = page.candidate.id, !.room = page.room],
          "publishing")

AskCancel == Mutable /\ Asks([NotDoing EXCEPT !.op = "cancel"], "stopping")

AskStopSharing ==
  /\ Mutable /\ page.lease # NoLease
  /\ Asks([NotDoing EXCEPT !.op = "unpublish", !.lease = page.lease], "stopping")

-----------------------------------------------------------------------------
(* The operation under way: what the page does between two awaits.         *)

\* It ends; the turn that is still the last one frees the coordinator.
Ends(turn, pg) ==
  /\ page' = IF Valid(turn) THEN [pg EXCEPT !.busy = "none"] ELSE pg
  /\ doing' = NotDoing

Awaits(pg, next) == page' = pg /\ doing' = next

\* It calls ndi_stop for p, and goes on with `then` when that has answered.
Stops(op, pg, p, then) ==
  Awaits(pg, [op EXCEPT !.at = "stop", !.id = p, !.then = then])

\* The next preview: at once its picture, if the source is the one published.
OpensSource(op, pg) ==
  IF pg.published.id # Nothing /\ registry.source[pg.published.id] = op.source
    THEN Ends(op.turn, [pg EXCEPT !.candidate = NoCandidate])
    ELSE Awaits(pg, [op EXCEPT !.at = "start", !.room = pg.room])

PageStep == UNCHANGED <<hostVars, nativeVars, sync>>

\* The first await of an operation whose turn has come.
Begin ==
  LET op == Head(turns)
      old == page.candidate
  IN
  /\ doing = NotDoing /\ turns # <<>>
  /\ turns' = Tail(turns)
  /\ PageStep
  /\ \/ ~Valid(op.turn) /\ op.op # "none" /\ UNCHANGED <<page, doing>>
     \/ /\ Valid(op.turn) /\ op.op = "preview"
        /\ \/ /\ old.id # Nothing /\ registry.source[old.id] = op.source /\ ~old.retired
              /\ Ends(op.turn, page)
           \/ /\ old.id # Nothing /\ old.id # page.published.id
              /\ registry.source[old.id] = op.source => old.retired \/ old.id \notin Running
              /\ Stops(op, page, old.id, "replaced")
           \/ old.id \in {Nothing, page.published.id} /\ OpensSource(op, page)
     \/ Valid(op.turn) /\ op.op = "publish" /\ Awaits(page, [op EXCEPT !.at = "commit"])
     \/ /\ Valid(op.turn) /\ op.op = "cancel"
        /\ IF old.id \in {Nothing, page.published.id}
             THEN Ends(op.turn, [page EXCEPT !.candidate = NoCandidate])
             ELSE Stops(op, page, old.id, "cancelled")
     \/ Valid(op.turn) /\ op.op = "unpublish" /\ Awaits(page, [op EXCEPT !.at = "withdraw"])

Resumes(at) == doing.at = at /\ UNCHANGED turns /\ PageStep

\* ndi_stop or ndi_start has been refused, or an ndi_stop that ends all.
Fails == Resumes("failed") /\ Ends(doing.turn, page)

Replaced ==
  /\ Resumes("replaced")
  /\ IF ~Valid(doing.turn)
       THEN Ends(doing.turn, page)
       ELSE OpensSource(doing, [page EXCEPT !.candidate.retired = TRUE])

Cancelled ==
  /\ Resumes("cancelled")
  /\ Ends(doing.turn, IF Valid(doing.turn) THEN [page EXCEPT !.candidate = NoCandidate] ELSE page)

\* A receiver started for a turn that has passed is stopped again, and so is a
\* capture that came out as another than the one asked for.
Started ==
  /\ Resumes("started")
  /\ \/ Stops(doing, page, doing.id, "failed")
     \/ /\ Valid(doing.turn)
        /\ Awaits([page EXCEPT !.candidate = [id |-> doing.id, room |-> doing.room.gen,
                                              retired |-> FALSE]],
                  [doing EXCEPT !.at = "status"])

\* ndi_status tells the room the receiver is bound to.
Status ==
  /\ Resumes("status")
  /\ Ends(doing.turn, IF doing.id \in registry.entries /\ page.candidate.id = doing.id
                        THEN [page EXCEPT !.candidate.room = bound[doing.id]] ELSE page)

\* Mutant: a publication that replaces another keeps the lease of that one.
CommittedKeepsLease ==
  /\ Resumes("committed")
  /\ IF ~Valid(doing.turn)
       THEN Awaits(page, [doing EXCEPT !.at = "withdraw"])
       ELSE LET old == page.published
                pg == [page EXCEPT !.candidate = NoCandidate,
                         !.lease = IF @ = NoLease THEN doing.lease ELSE @,
                         !.published = [id |-> doing.id, room |-> doing.room.gen, retired |-> FALSE]]
            IN IF old.id \in {Nothing, doing.id} THEN Ends(doing.turn, pg)
               ELSE Stops(doing, pg, old.id, "failed")

\* A publication is taken over, or taken back if the room has changed meanwhile.
Committed ==
  /\ Resumes("committed")
  /\ IF ~Valid(doing.turn)
       THEN Awaits(page, [doing EXCEPT !.at = "withdraw"])
       ELSE LET old == page.published
                pg == [page EXCEPT !.candidate = NoCandidate, !.lease = doing.lease,
                         !.published = [id |-> doing.id, room |-> doing.room.gen, retired |-> FALSE]]
            IN IF old.id \in {Nothing, doing.id} THEN Ends(doing.turn, pg)
               ELSE Stops(doing, pg, old.id, "failed")

\* Sharing is over: what was shared is a private preview now, unless there is one.
Withdrawn ==
  /\ Resumes("withdrawn")
  /\ IF ~Valid(doing.turn)
       THEN Ends(doing.turn, page)
       ELSE LET old == page.published
                own == IF page.candidate.id # Nothing THEN page.candidate ELSE old
                pg == [page EXCEPT !.candidate = own, !.published = NoCandidate, !.lease = NoLease]
            IN IF old.id \in {Nothing, own.id} THEN Ends(doing.turn, pg)
               ELSE Stops(doing, pg, old.id, "failed")

-----------------------------------------------------------------------------
(* The native command it waits for.                                        *)

Answers(at, to) == doing.at = at /\ doing' = [doing EXCEPT !.at = to]
Native == UNCHANGED <<hostVars, page, turns, sync>>

\* Programs::stop: not what is published; unknown receivers are no error.
RunStop ==
  /\ IF IsPublished(doing.id)
       THEN Answers("stop", "failed") /\ UNCHANGED registry
       ELSE /\ Answers("stop", doing.then)
            /\ registry' = [registry EXCEPT !.entries = @ \ {doing.id}]
  /\ UNCHANGED <<bound, publication>> /\ Native

\* A snapshot read before this command is answered before it.
NoneRead == LateSnapshots \/ sync.stage \notin {"room", "answered"}

\* ndi_start reads the registry's generation, then the room, and enters only
\* if no room has ended meanwhile and fewer than two receivers run.
ReadGeneration ==
  /\ doing.at = "start"
  /\ doing' = [doing EXCEPT !.at = "startRoom", !.generation = registry.generation]
  /\ UNCHANGED nativeVars /\ Native

ReadRoomGeneration ==
  /\ doing.at = "startRoom"
  /\ doing' = [doing EXCEPT !.at = "insert", !.in = IF room.hosts THEN room.gen ELSE NoRoom]
  /\ UNCHANGED nativeVars /\ Native

Inserts ==
  LET p == registry.started + 1 IN
  /\ doing.at = "insert" /\ p \in Program
  /\ doing' = [doing EXCEPT !.at = "started", !.id = p]
  /\ registry' = [registry EXCEPT !.started = p, !.entries = Running \cup {p},
                                  !.source[p] = doing.source]
  /\ bound' = [bound EXCEPT ![p] = doing.in]
  /\ UNCHANGED publication /\ Native

\* Mutant: a start that enters although a room has ended since it was asked for.
InsertAnyway == Cardinality(Running) < 2 /\ Inserts

Insert == Cardinality(Running) < 2 /\ registry.generation = doing.generation /\ Inserts

\* No runtime, no permit, a third receiver, or the start of an earlier room.
StartRefused ==
  /\ Answers("insert", "failed")
  /\ UNCHANGED nativeVars /\ Native

Permitted ==
  /\ room.hosts /\ room.presents
  /\ doing.room = [gen |-> room.gen, epoch |-> room.epoch, presents |-> TRUE]
  /\ doing.id \in Running

\* ndi_publish: a publication of its own, unless this very one stands already.
Commit ==
  /\ doing.at = "commit" /\ Permitted /\ NoneRead
  /\ IF IsPublished(doing.id)
       THEN UNCHANGED <<registry, bound, publication>>
       ELSE /\ registry' = [registry EXCEPT !.revision = @ + 1]
            /\ bound' = [bound EXCEPT ![doing.id] = room.gen]
            /\ publication' = [id |-> doing.id, gen |-> room.gen, epoch |-> room.epoch,
                               revision |-> registry'.revision]
  /\ doing' = [doing EXCEPT !.at = "committed", !.lease = publication']
  /\ Native

CommitRefused ==
  /\ Answers("commit", "failed")
  /\ UNCHANGED nativeVars /\ Native

\* ndi_unpublish: this publication and no other; the message that says so to the
\* room makes the page ask for the whole truth.
Withdraw ==
  /\ NoneRead
  /\ Answers("withdraw", "withdrawn")
  /\ IF publication = doing.lease
       THEN publication' = NoLease /\ sync' = [stage |-> "asked"]
       ELSE UNCHANGED <<publication, sync>>
  /\ UNCHANGED <<registry, bound, hostVars, page, turns>>

\* ndi_source_stopped: the service has seen its application go.
SourceStopped ==
  /\ publication.id \in registry.stopped
  /\ publication' = NoLease
  /\ sync' = [stage |-> "asked"]
  /\ UNCHANGED <<hostVars, registry, bound, page, turns, doing>>

NdiNext ==
  \/ HostRoom \/ LeaveRoom \/ NamePresenter \/ ShowFile \/ RoomAnnounced
  \/ (\E p \in Program : ProgramDies(p)) \/ SourceStopped
  \/ HearState \/ ReadRoom \/ ReadPrograms \/ Restore
  \/ AskPreview \/ AskPublish \/ AskCancel \/ AskStopSharing
  \/ Begin \/ Fails \/ Replaced \/ Cancelled \/ Started \/ Status \/ Committed \/ Withdrawn
  \/ RunStop \/ ReadGeneration \/ ReadRoomGeneration \/ Insert \/ StartRefused
  \/ Commit \/ CommitRefused \/ Withdraw

NdiSpec == NdiInit /\ [][NdiNext]_ndiVars

-----------------------------------------------------------------------------
(* What is promised of a program that is shared.                           *)

\* Nothing is on its way that would change the page's idea of the publication.
Settled ==
  announced = <<>> /\ sync.stage = "none" /\ doing.at \notin {"committed", "withdraw", "withdrawn"}

\* Of receivers that run, what the page shows as shared and can stop is what the
\* room can fetch: no more, however late a publication's answer, and no less.
PublicationIsShown ==
  Settled => \A lease \in {page.lease, publication} :
               lease.id \in Running => page.lease = publication

\* What the page shows as shared is published.  It fails once the floor has been
\* handed over (NamePresenter): the receiver is ended and the publication revoked,
\* and the page learns it with the next event about something else.
OnlyThePublishedIsShown == Settled => page.lease \in {NoLease, publication}

\* No receiver runs on for a room that has ended, whenever it was started.
ReceiversEndWithTheirRoom ==
  \A p \in Running : bound[p] # NoRoom => room.hosts /\ bound[p] = room.gen
=============================================================================
