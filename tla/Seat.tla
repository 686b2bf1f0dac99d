-------------------------------- MODULE Seat --------------------------------
(***************************************************************************)
(* Which room this machine is in: the session manager (session.rs), whose   *)
(* commands start, join and leave a room; the tasks of a room, that may end *)
(* it when its line breaks; and the page that shows it (use-co-review.ts).  *)
(*                                                                          *)
(* A command holds the manager's lock from its first look at the session to *)
(* its last change and answers only then, so it is one step; what a command *)
(* or a task does outside the lock is a step of its own.                     *)
(***************************************************************************)
EXTENDS Naturals, Sequences, SequencesExt, Functions

CONSTANTS
  Presses,      \* bound: how often the user starts, joins, leaves and reloads the page
  News,         \* bound: how often the lists of a room change
  LateAnswers   \* may the answer of a resynchronisation be heard after later events?

ASSUME SeatAssumption == {Presses, News} \subseteq Nat /\ LateAnswers \in BOOLEAN

Rooms == 1 .. Presses
NoSeat == 0
NoSession == [role |-> "off", room |-> NoSeat, news |-> 0]

VARIABLES
  inner,       \* the manager: role, generation, and the room the session is of
  task,        \* each room's tasks; a peer's read loop ends with the line
  born,        \* each room's role, and the generation its tasks were given
  news,        \* what each room's tasks have learnt of its lists and names
  failing,     \* rooms whose fail_peer_to_off waits for the lock
  closing,     \* rooms that shutdown_session has not got through
  hook,        \* the room whose sender the media hook holds
  events,      \* session:state on its way to the page, and answers to a resynchronisation
  press,       \* the user's commands
  mine,        \* those of the page as it is: a reload forgets who asked
  resync,      \* resynchronisations the page has asked for and that are not answered
  pull,        \* the one question a page asks when it mounts, and its answer
  view         \* the page: whether it listens, has heard an event, and what it shows

seatVars == <<inner, task, born, news, failing, closing, hook, events, press, mine, resync, pull, view>>

Snapshot == [role : {"off", "host", "peer"}, room : 0 .. Presses, news : Nat]

SeatTypeOK ==
  /\ inner \in [role : {"off", "host", "peer"}, generation : Nat, room : 0 .. Presses]
  /\ task \in [Rooms -> {"none", "reads", "tells", "ended", "aborted"}]
  /\ born \in [Rooms -> [role : {"none", "host", "peer"}, generation : Nat]]
  /\ news \in [Rooms -> 0 .. News]
  /\ failing \subseteq Rooms /\ closing \in [Rooms -> {"no", "hook", "tasks"}]
  /\ hook \in 0 .. Presses
  /\ events \in Seq([pushed : BOOLEAN, snapshot : Snapshot])
  /\ press \in [Rooms -> {"unused", "start", "join", "leave", "done"}] /\ mine \subseteq Rooms
  /\ resync \in Nat
  /\ pull.at \in {"none", "asked", "answered"} /\ pull.snapshot \in Snapshot
  /\ view \in [listens : BOOLEAN, heard : BOOLEAN, shows : Snapshot]

NotMounted == [listens |-> FALSE, heard |-> FALSE, shows |-> NoSession]
NoPull == [at |-> "none", snapshot |-> NoSession]
Unborn == [role |-> "none", generation |-> 0]

SeatInit ==
  /\ inner = [role |-> "off", generation |-> 0, room |-> NoSeat]
  /\ task = [r \in Rooms |-> "none"] /\ born = [r \in Rooms |-> Unborn] /\ news = [r \in Rooms |-> 0]
  /\ failing = {} /\ closing = [r \in Rooms |-> "no"] /\ hook = NoSeat
  /\ events = <<>> /\ press = [r \in Rooms |-> "unused"] /\ mine = {}
  /\ resync = 0 /\ pull = NoPull /\ view = NotMounted

roomVars == <<task, born, news, failing, closing, hook>>
viewVars == <<mine, resync, pull, view>>

-----------------------------------------------------------------------------
(* The manager.  Every change of the session is told under the lock.       *)

\* snapshot_state: a room's lists are shared with its tasks, so they are as they are now.
SnapshotOf(session) ==
  [role |-> session.role, room |-> session.room,
   news |-> IF session.room = NoSeat THEN 0 ELSE news[session.room]]

\* An event that nobody listens to is dropped.
Emit(snapshot) ==
  events' = IF view.listens THEN Append(events, [pushed |-> TRUE, snapshot |-> snapshot]) ELSE events

\* A command names its room after itself: each opens at most one.
Runs(c, kind) == press[c] = kind /\ press' = [press EXCEPT ![c] = "done"]

\* session_start or session_join comes through: the tasks get the new generation.
Opens(c, role) ==
  /\ inner' = [role |-> role, generation |-> inner.generation + 1, room |-> c]
  /\ task' = [task EXCEPT ![c] = "reads"]
  /\ born' = [born EXCEPT ![c] = [role |-> role, generation |-> inner.generation + 1]]
  /\ Emit(SnapshotOf(inner'))
  /\ UNCHANGED <<news, failing, closing>>

\* A room is open, or the endpoint cannot be bound.  The page takes its refusal
\* for a sign that it missed something, and asks.
Start(c) ==
  /\ Runs(c, "start")
  /\ \/ inner.role = "off" /\ Opens(c, "host") /\ UNCHANGED <<hook, viewVars>>
     \/ /\ resync' = IF c \in mine THEN resync + 1 ELSE resync
        /\ UNCHANGED <<inner, roomVars, events, mine, pull, view>>

\* A refused or failed join changes nothing.
Join(c) ==
  /\ Runs(c, "join")
  /\ \/ inner.role = "off" /\ Opens(c, "peer") /\ hook' = c
     \/ UNCHANGED <<inner, roomVars, events>>
  /\ UNCHANGED viewVars

\* The session is replaced by Off and told; its shutdown follows without the lock.
GoesOff ==
  /\ inner' = [role |-> "off", generation |-> inner.generation + 1, room |-> NoSeat]
  /\ Emit(NoSession)
  /\ closing' = IF inner.room = NoSeat THEN closing
                ELSE [closing EXCEPT ![inner.room] = IF inner.role = "peer" THEN "hook" ELSE "tasks"]

LeaveOf(c) ==
  /\ Runs(c, "leave") /\ GoesOff
  /\ UNCHANGED <<task, born, news, failing, hook, viewVars>>

\* shutdown_session: the media hook of a guest first, then the tasks.
ClearsHook(r) ==
  /\ closing[r] = "hook" /\ closing' = [closing EXCEPT ![r] = "tasks"]
  /\ hook' = NoSeat
  /\ UNCHANGED <<inner, task, born, news, failing, events, press, viewVars>>

Aborts(r) ==
  /\ closing[r] = "tasks" /\ closing' = [closing EXCEPT ![r] = "no"]
  /\ task' = [task EXCEPT ![r] = IF @ = "ended" THEN @ ELSE "aborted"]
  /\ UNCHANGED <<inner, born, news, failing, hook, events, press, viewVars>>

-----------------------------------------------------------------------------
(* The tasks of a room.                                                    *)

\* A list or a name comes in, or on the host a guest comes or goes.
Learns(r) ==
  /\ task[r] = "reads" /\ FoldFunction(+, 0, news) < News
  /\ news' = [news EXCEPT ![r] = @ + 1]
  /\ task' = [task EXCEPT ![r] = "tells"]
  /\ UNCHANGED <<inner, born, failing, closing, hook, events, press, viewVars>>

\* Mutant: a task that tells the state of its own room.
TellsItsOwn(r) ==
  /\ task[r] = "tells" /\ task' = [task EXCEPT ![r] = "reads"]
  /\ Emit([role |-> "peer", room |-> r, news |-> news[r]])
  /\ UNCHANGED <<inner, born, news, failing, closing, hook, press, viewVars>>

\* emit_state_now: whatever the session is by then.
Tells(r) ==
  /\ task[r] = "tells" /\ task' = [task EXCEPT ![r] = "reads"]
  /\ Emit(SnapshotOf(inner))
  /\ UNCHANGED <<inner, born, news, failing, closing, hook, press, viewVars>>

\* The line of a guest ends or breaks: its loop spawns the teardown and returns.
LineEnds(r) ==
  /\ task[r] = "reads" /\ born[r].role = "peer"
  /\ task' = [task EXCEPT ![r] = "ended"]
  /\ failing' = failing \cup {r}
  /\ UNCHANGED <<inner, born, news, closing, hook, events, press, viewVars>>

\* Mutant: without the look at the generation.
FailsRegardless(r) ==
  /\ r \in failing /\ failing' = failing \ {r}
  /\ GoesOff
  /\ UNCHANGED <<task, born, news, hook, press, viewVars>>

\* fail_peer_to_off: a teardown of a room that was left is a no-op.
FailsToOff(r) ==
  /\ r \in failing /\ failing' = failing \ {r}
  /\ IF inner.generation = born[r].generation THEN GoesOff ELSE UNCHANGED <<inner, events, closing>>
  /\ UNCHANGED <<task, born, news, hook, press, viewVars>>

-----------------------------------------------------------------------------
(* The page.                                                               *)

managerVars == <<inner, roomVars>>

Idle(c) == view.listens /\ press[c] = "unused" /\ (c > 1 => press[c - 1] # "unused")

\* The lobby offers to start and to join, a room to leave.
Offered == IF view.shows.role = "off" THEN {"start", "join"} ELSE {"leave"}

PressesButton(c) ==
  /\ Idle(c)
  /\ \E kind \in Offered : press' = [press EXCEPT ![c] = kind]
  /\ mine' = mine \cup {c}
  /\ UNCHANGED <<managerVars, events, resync, pull, view>>

\* It listens, and asks once.
Mounts ==
  /\ ~view.listens
  /\ view' = [view EXCEPT !.listens = TRUE]
  /\ pull' = [NoPull EXCEPT !.at = "asked"]
  /\ UNCHANGED <<managerVars, events, press, mine, resync>>

\* A page that reloads forgets everything, and what was on its way to it is lost.
Reload(c) ==
  /\ Idle(c) /\ press' = [press EXCEPT ![c] = "done"]
  /\ view' = NotMounted /\ events' = <<>> /\ mine' = {} /\ resync' = 0 /\ pull' = NoPull
  /\ UNCHANGED managerVars

\* Events are heard in their order; only an answer may be overtaken.
Audible == {i \in DOMAIN events : \A j \in 1 .. i - 1 : LateAnswers /\ ~events[j].pushed}

HearsState ==
  \E i \in Audible :
    /\ events' = RemoveAt(events, i)
    /\ view' = [view EXCEPT !.heard = @ \/ events[i].pushed, !.shows = events[i].snapshot]
    /\ UNCHANGED <<managerVars, press, mine, resync, pull>>

AnswersPull ==
  /\ pull.at = "asked" /\ pull' = [at |-> "answered", snapshot |-> SnapshotOf(inner)]
  /\ UNCHANGED <<managerVars, events, press, mine, resync, view>>

\* An event that came meanwhile is newer, or will be followed by one that is.
HearsPull ==
  /\ pull.at = "answered" /\ pull' = NoPull
  /\ view' = IF ~view.heard /\ pull.snapshot.role # "off"
               THEN [view EXCEPT !.shows = pull.snapshot] ELSE view
  /\ UNCHANGED <<managerVars, events, press, mine, resync>>

\* syncSessionState: the answer will be adopted, whatever is heard meanwhile.
AnswersSync ==
  /\ resync > 0 /\ resync' = resync - 1
  /\ events' = Append(events, [pushed |-> FALSE, snapshot |-> SnapshotOf(inner)])
  /\ UNCHANGED <<managerVars, press, mine, pull, view>>

-----------------------------------------------------------------------------
(* Specification *)

Buttons(c) == Start(c) \/ Join(c) \/ LeaveOf(c) \/ PressesButton(c) \/ Reload(c)
RoomTasks(r) ==
  Learns(r) \/ Tells(r) \/ LineEnds(r) \/ FailsToOff(r) \/ ClearsHook(r) \/ Aborts(r)
ViewSteps ==
  Mounts \/ HearsState \/ AnswersPull \/ HearsPull \/ AnswersSync

SeatNext == ViewSteps \/ \E r \in Rooms : Buttons(r) \/ RoomTasks(r)

SeatSpec == SeatInit /\ [][SeatNext]_seatVars

-----------------------------------------------------------------------------
(* Properties *)

\* When nothing is on its way to it, the page shows the session there is, with the
\* lists as its tasks have learnt them: whatever was left, broken, refused,
\* reloaded or asked meanwhile.
PageSettled ==
  /\ view.listens /\ events = <<>> /\ pull.at = "none" /\ resync = 0
  /\ inner.room # NoSeat => task[inner.room] # "tells"
PageShowsTheSession == PageSettled => view.shows = SnapshotOf(inner)

\* A room is left by the user or because its own line broke: what is left over of
\* an earlier room, however late, never ends this one.
EndsByItsOwn ==
  [][inner.room # NoSeat /\ inner'.room # inner.room =>
       task[inner.room] = "ended" \/ \E c \in Rooms : LeaveOf(c)]_seatVars

\* Violated: a guest's media requests go to its own room once the rooms before it
\* are shut down.
HookIsOfTheRoom ==
  inner.role = "peer" /\ (\A r \in Rooms : closing[r] = "no") => hook = inner.room
=============================================================================
