---------------------------- MODULE Access_proofs ----------------------------
(* Three machines that decide whether something may go on, each for instances of
   any size.  The links of a review: the settings an arrival writes back are the
   ones in the file, and a withdrawal reaches everybody but the handshakes it
   overtakes.  The seat: a room is ended by its own, and the page shows the room
   there is.  The gate before a download: one fetch of a source at a time. *)
EXTENDS Admission, Seat, AcquisitionGate, FiniteSetTheorems, TLAPS

-----------------------------------------------------------------------------
(* The links. *)

\* Whoever holds the lock has read the file as it is.
LockInv ==
  /\ \A a \in Arrivals : arrival[a].at \in {"granted", "closed"} <=> lock = a
  /\ \A c \in Commands : command[c].at = "holds" <=> lock = c
  /\ lock # Nobody => copy = grants

\* What a command under way is about.
CommandInv ==
  \A c \in Commands :
    /\ command[c].at # "idle" => command[c].op # "none" /\ command[c].link \in Links
    /\ command[c].at = "holds" => Applies(c)
    /\ command[c].at = "marked" => grants.link[command[c].link] = "withdrawn"

\* Past its admission a link is live, or its holder was overtaken.
SweptInv ==
  /\ \A g \in swept : grants.link[g] = "withdrawn"
  /\ \A a \in Arrivals :
       /\ arrival[a].at \in {"granted", "closed"} =>
            arrival[a].link \in Links /\ grants.link[arrival[a].link] = "live"
       /\ arrival[a].at = "admitted" /\ arrival[a].link \in swept => a \in overtaken

Inv == AdmissionTypeOK /\ LockInv /\ CommandInv /\ SweptInv /\ WithdrawnAreOut

USE AdmissionAssumption

LEMMA InitInv == AdmissionInit => Inv
<1> SUFFICES ASSUME AdmissionInit PROVE Inv
  OBVIOUS
<1>1. AdmissionTypeOK
  BY DEF AdmissionInit, AdmissionTypeOK, GrantFile, Absent, Out, Rest
<1>2. LockInv
  BY DEF AdmissionInit, LockInv, Out, Rest
<1>3. CommandInv /\ SweptInv /\ WithdrawnAreOut
  BY DEF AdmissionInit, CommandInv, SweptInv, WithdrawnAreOut, Out, Rest
<1> QED BY <1>1, <1>2, <1>3 DEF Inv

\* A handshake that changes nothing but its own place, outside the lock.
LEMMA ArrivalStep ==
  ASSUME Inv, NEW a \in Arrivals, Knocks(a) \/ Decides(a) \/ Registers(a) \/ Drops(a)
  PROVE  Inv'
<1>1. CASE Knocks(a)
  BY <1>1 DEF Knocks, Inv, AdmissionTypeOK, LockInv, CommandInv, Applies, SweptInv, WithdrawnAreOut,
              Out, fileVars, history
<1>2. CASE Decides(a)
  <2>1. CASE readable /\ Invited(grants, arrival[a].link)
    <3>1. /\ arrival' = [arrival EXCEPT ![a].at = "granted"] /\ lock' = a /\ copy' = grants
          /\ arrival[a].at = "knocks" /\ lock = Nobody
          /\ arrival[a].link \in Links /\ grants.link[arrival[a].link] = "live"
          /\ UNCHANGED <<grants, readable, command, hosting, swept, overtaken>>
      BY <1>2, <2>1 DEF Decides, Stands, Invited, fileVars, history
    <3>2. AdmissionTypeOK'
      BY <3>1 DEF Inv, AdmissionTypeOK
    <3>3. LockInv' /\ CommandInv'
      BY <3>1 DEF Inv, AdmissionTypeOK, LockInv, CommandInv, Applies
    <3>4. SweptInv' /\ WithdrawnAreOut'
      BY <3>1 DEF Inv, AdmissionTypeOK, SweptInv, WithdrawnAreOut
    <3> QED BY <3>2, <3>3, <3>4 DEF Inv
  <2>2. CASE ~(readable /\ Invited(grants, arrival[a].link))
    <3>1. /\ \/ arrival' = [arrival EXCEPT ![a].at = "admitted"] /\ arrival[a].link = NoLink
             \/ arrival' = [arrival EXCEPT ![a] = Out]
          /\ arrival[a].at = "knocks" /\ lock = Nobody
          /\ UNCHANGED <<grants, readable, lock, copy, command, hosting, swept, overtaken>>
      BY <1>2, <2>2 DEF Decides, Stands, TurnsAway, Uninvited, fileVars, history
    <3>2. AdmissionTypeOK'
      BY <3>1 DEF Inv, AdmissionTypeOK, Out
    <3>3. LockInv' /\ CommandInv'
      BY <3>1 DEF Inv, AdmissionTypeOK, LockInv, CommandInv, Applies, Out
    <3>4. SweptInv' /\ WithdrawnAreOut'
      BY <3>1 DEF Inv, AdmissionTypeOK, SweptInv, WithdrawnAreOut, Out
    <3> QED BY <3>2, <3>3, <3>4 DEF Inv
  <2> QED BY <2>1, <2>2
<1>3. CASE Registers(a)
  BY <1>3 DEF Registers, Inv, AdmissionTypeOK, LockInv, CommandInv, Applies, SweptInv, WithdrawnAreOut,
              fileVars, history, Stands
<1>4. CASE Drops(a)
  BY <1>4 DEF Drops, Inv, AdmissionTypeOK, LockInv, CommandInv, Applies, SweptInv, WithdrawnAreOut,
              Out, fileVars, TurnsAway
<1> QED BY <1>1, <1>2, <1>3, <1>4

LEMMA StampStep ==
  ASSUME Inv, NEW a \in Arrivals, Stamps(a)
  PROVE  Inv' /\ grants' = grants
<1>1. lock = a /\ copy = grants /\ a # Nobody
  BY DEF Stamps, Inv, LockInv
<1>2. grants' = grants /\ readable' \in BOOLEAN
  BY <1>1 DEF Stamps, Writes, fileVars, Inv, AdmissionTypeOK
<1> QED
  BY <1>1, <1>2 DEF Stamps, Inv, AdmissionTypeOK, LockInv, CommandInv, Applies, SweptInv,
                    WithdrawnAreOut, Out, history, Stands, TurnsAway

LEMMA CommandStep ==
  ASSUME Inv, NEW c \in Commands, Orders(c) \/ Takes(c)
  PROVE  Inv'
<1>1. CASE Orders(c)
  BY <1>1 DEF Orders, Inv, AdmissionTypeOK, LockInv, CommandInv, Applies, SweptInv, WithdrawnAreOut,
              Rest, fileVars, history
<1>2. CASE Takes(c)
  <2>1. /\ \/ /\ command' = [command EXCEPT ![c].at = "holds"] /\ lock' = c /\ copy' = grants
              /\ Applies(c)
           \/ command' = [command EXCEPT ![c] = Rest] /\ UNCHANGED <<lock, copy>>
        /\ command[c].at = "asked" /\ lock = Nobody
        /\ UNCHANGED <<grants, readable, arrival, hosting, swept, overtaken>>
    <3>1. CASE readable /\ Applies(c)
      BY <1>2, <3>1 DEF Takes, fileVars, history
    <3>2. CASE ~(readable /\ Applies(c))
      BY <1>2, <3>2 DEF Takes, fileVars, history
    <3> QED BY <3>1, <3>2
  <2>2. AdmissionTypeOK'
    BY <2>1 DEF Inv, AdmissionTypeOK, Rest
  <2>3. LockInv'
    BY <2>1 DEF Inv, AdmissionTypeOK, LockInv, Rest
  <2>4. CommandInv'
    <3> SUFFICES ASSUME NEW d \in Commands
                 PROVE  /\ command'[d].at # "idle" => command'[d].op # "none" /\ command'[d].link \in Links
                        /\ command'[d].at = "holds" => Applies(d)'
                        /\ command'[d].at = "marked" => grants'.link[command'[d].link] = "withdrawn"
      BY DEF CommandInv
    <3>1. command'[d] = command[d] \/ d = c
      BY <2>1 DEF Inv, AdmissionTypeOK
    <3>2. CASE d = c
      BY <2>1, <3>2 DEF Inv, AdmissionTypeOK, CommandInv, Applies, Rest
    <3> QED BY <2>1, <3>1, <3>2 DEF Inv, CommandInv, Applies
  <2>5. SweptInv' /\ WithdrawnAreOut'
    BY <2>1 DEF Inv, SweptInv, WithdrawnAreOut
  <2> QED BY <2>2, <2>3, <2>4, <2>5 DEF Inv
<1> QED BY <1>1, <1>2

LEMMA SaveStep ==
  ASSUME Inv, NEW c \in Commands, Saves(c)
  PROVE  Inv'
<1> DEFINE g == command[c].link
<1>1. /\ lock = c /\ copy = grants /\ c # Nobody
      /\ \A a \in Arrivals : arrival[a].at \notin {"granted", "closed"}
      /\ \A d \in Commands \ {c} : command[d].at # "holds"
      /\ g \in Links /\ Applies(c) /\ command[c].op \in {"create", "withdraw", "close", "open"}
  BY DEF Saves, Inv, AdmissionTypeOK, LockInv, CommandInv
<1>2. /\ grants' \in GrantFile /\ readable' \in BOOLEAN
      /\ \A l \in Links : grants.link[l] = "withdrawn" => grants'.link[l] = "withdrawn"
  <2>1. CASE UNCHANGED fileVars
    BY <2>1 DEF fileVars, Inv, AdmissionTypeOK
  <2>2. CASE Writes(Changed(grants, c))
    <3>1. CASE command[c].op = "create"
      BY <1>1, <2>2, <3>1 DEF Writes, Changed, Applies, Inv, AdmissionTypeOK, GrantFile
    <3>2. CASE command[c].op = "withdraw"
      BY <1>1, <2>2, <3>2 DEF Writes, Changed, Inv, AdmissionTypeOK, GrantFile
    <3>3. CASE command[c].op \in {"close", "open"}
      BY <2>2, <3>3 DEF Writes, Changed, Inv, AdmissionTypeOK, GrantFile
    <3> QED BY <1>1, <3>1, <3>2, <3>3
  <2> QED BY <1>1, <2>1, <2>2 DEF Saves
<1>3. command[c].op = "withdraw" /\ grants' = Changed(copy, c) => grants'.link[g] = "withdrawn"
  BY <1>1 DEF Changed, Inv, AdmissionTypeOK, GrantFile
<1>4. AdmissionTypeOK'
  BY <1>1, <1>2 DEF Saves, Inv, AdmissionTypeOK, Rest, history
<1>5. LockInv'
  BY <1>1 DEF Saves, Inv, AdmissionTypeOK, LockInv, Rest
<1>6. CommandInv'
  <2> SUFFICES ASSUME NEW d \in Commands
               PROVE  /\ command'[d].at # "idle" => command'[d].op # "none" /\ command'[d].link \in Links
                      /\ command'[d].at = "holds" => Applies(d)'
                      /\ command'[d].at = "marked" => grants'.link[command'[d].link] = "withdrawn"
    BY DEF CommandInv
  <2>1. CASE d = c
    BY <1>1, <1>3, <2>1 DEF Saves, Writes, Rest, Inv, AdmissionTypeOK
  <2>2. CASE d # c
    <3>1. command'[d] = command[d] /\ command[d].at # "holds"
      BY <1>1, <2>2 DEF Saves, Inv, AdmissionTypeOK
    <3> QED BY <3>1, <1>2 DEF Inv, CommandInv
  <2> QED BY <2>1, <2>2
<1>7. SweptInv' /\ WithdrawnAreOut'
  BY <1>1, <1>2 DEF Saves, Inv, AdmissionTypeOK, SweptInv, WithdrawnAreOut, history
<1> QED BY <1>4, <1>5, <1>6, <1>7 DEF Inv

LEMMA SweepStep ==
  ASSUME Inv, NEW c \in Commands, Sweeps(c)
  PROVE  Inv'
<1> DEFINE g == command[c].link
<1>1. grants.link[g] = "withdrawn" /\ g \in Links
  BY DEF Sweeps, Inv, CommandInv
<1>2. \A a \in Arrivals : arrival'[a] = arrival[a] \/ (arrival[a].at = "in" /\ arrival'[a] = Out)
  <2>1. arrival' = [a \in Arrivals |-> IF a \in Holding(g, "in") THEN Out ELSE arrival[a]]
    BY DEF Sweeps
  <2>2. \A a \in Holding(g, "in") : arrival[a].at = "in"
    BY DEF Holding
  <2> HIDE DEF g
  <2> QED BY <2>1, <2>2
<1>3. AdmissionTypeOK' /\ LockInv' /\ CommandInv'
  BY <1>1, <1>2 DEF Sweeps, Holding, Inv, AdmissionTypeOK, LockInv, CommandInv, Applies, Rest, Out, fileVars
<1>4. SweptInv'
  BY <1>1, <1>2 DEF Sweeps, Holding, Inv, AdmissionTypeOK, SweptInv, Out, fileVars
<1>5. WithdrawnAreOut'
  BY <1>1, <1>2 DEF Sweeps, Holding, Inv, AdmissionTypeOK, WithdrawnAreOut, Out
<1> QED BY <1>3, <1>4, <1>5 DEF Inv

LEMMA RoomStep ==
  ASSUME Inv, OpensRoom \/ ClosesRoom \/ Quits \/ AccessChanges
  PROVE  Inv'
<1>1. CASE OpensRoom
  BY <1>1 DEF OpensRoom, Inv, AdmissionTypeOK, LockInv, CommandInv, Applies, SweptInv, WithdrawnAreOut,
              fileVars, history
<1>2. CASE ClosesRoom
  <2>1. /\ \A a \in Arrivals :
             \/ arrival[a].at \in {"granted", "closed"} /\ arrival'[a] = [arrival[a] EXCEPT !.at = "closed"]
             \/ arrival[a].at \notin {"granted", "closed"} /\ arrival'[a] = Out
        /\ DOMAIN arrival' = Arrivals /\ arrival' = [a \in Arrivals |-> arrival'[a]]
        /\ UNCHANGED <<grants, readable, lock, copy, command, swept>>
        /\ overtaken' = {} /\ hosting' = FALSE
    BY <1>2 DEF ClosesRoom, fileVars
  <2>2. AdmissionTypeOK'
    <3>1. \A a \in Arrivals :
             arrival'[a] \in [at : {"out", "knocks", "granted", "closed", "admitted", "in"},
                              link : Links \cup {NoLink}]
      BY <2>1 DEF Inv, AdmissionTypeOK, Out
    <3>2. arrival' \in [Arrivals -> [at : {"out", "knocks", "granted", "closed", "admitted", "in"},
                                    link : Links \cup {NoLink}]]
      BY <2>1, <3>1
    <3> QED BY <2>1, <3>2 DEF Inv, AdmissionTypeOK
  <2>3. LockInv' /\ CommandInv'
    BY <2>1 DEF Inv, AdmissionTypeOK, LockInv, CommandInv, Applies, Out
  <2>4. SweptInv' /\ WithdrawnAreOut'
    BY <2>1 DEF Inv, AdmissionTypeOK, SweptInv, WithdrawnAreOut, Out
  <2> QED BY <2>2, <2>3, <2>4 DEF Inv
<1>3. CASE Quits
  BY <1>3 DEF Quits, Inv, AdmissionTypeOK, LockInv, CommandInv, Applies, SweptInv, WithdrawnAreOut,
              Out, Rest, fileVars
<1>4. CASE AccessChanges
  BY <1>4 DEF AccessChanges, Inv, AdmissionTypeOK, LockInv, CommandInv, Applies, SweptInv,
              WithdrawnAreOut, history
<1> QED BY <1>1, <1>2, <1>3, <1>4

LEMMA StutterStep == Inv /\ UNCHANGED admissionVars => Inv'
BY DEF Inv, admissionVars, AdmissionTypeOK, LockInv, CommandInv, Applies, SweptInv, WithdrawnAreOut

LEMMA NextInv == Inv /\ [AdmissionNext]_admissionVars => Inv'
BY ArrivalStep, StampStep, CommandStep, SaveStep, SweepStep, RoomStep, StutterStep DEF AdmissionNext

LEMMA AlwaysInv == AdmissionSpec => []Inv
BY InitInv, NextInv, PTL DEF AdmissionSpec

\* Nobody is in the room with a link whose withdrawal was answered, except the
\* handshakes it overtook (review_grant.rs, revoke_review_grant).
THEOREM WithdrawalReachesTheRoom == AdmissionSpec => []WithdrawnAreOut
BY AlwaysInv, PTL DEF Inv

LEMMA OnlyTheHostStep ==
  ASSUME Inv, [AdmissionNext]_admissionVars
  PROVE  /\ \A g \in Links : grants'.link[g] # grants.link[g] =>
              \E c \in Commands : command[c].at = "holds" /\ command[c].link = g
         /\ grants'.invitedOnly # grants.invitedOnly =>
              \E c \in Commands : command[c].at = "holds" /\ command[c].op \in {"close", "open"}
<1>1. CASE \E c \in Commands : Saves(c)
  <2>1. PICK c \in Commands : Saves(c)
    BY <1>1
  <2>2. /\ command[c].at = "holds" /\ copy = grants /\ command[c].link \in Links
        /\ command[c].op \in {"create", "withdraw", "close", "open"}
    BY <2>1 DEF Saves, Inv, AdmissionTypeOK, LockInv, CommandInv
  <2>3. grants' = grants \/ grants' = Changed(grants, c)
    BY <2>1, <2>2 DEF Saves, Writes, fileVars
  <2>4. /\ \A g \in Links \ {command[c].link} : Changed(grants, c).link[g] = grants.link[g]
        /\ command[c].op \in {"create", "withdraw"} =>
             Changed(grants, c).invitedOnly = grants.invitedOnly
    BY <2>2 DEF Changed, Inv, AdmissionTypeOK, GrantFile
  <2> QED BY <2>2, <2>3, <2>4
<1>2. CASE \E a \in Arrivals : Stamps(a)
  BY <1>2, StampStep
<1>3. CASE grants' = grants
  BY <1>3
<1> QED
  BY <1>1, <1>2, <1>3 DEF AdmissionNext, admissionVars, fileVars, Knocks, Decides, Registers, Drops,
     Orders, Takes, Sweeps, OpensRoom, ClosesRoom, Quits, AccessChanges

\* An arrival that records when its link was used never overwrites what the host
\* has changed meanwhile (the comment on GRANT_WRITES).
THEOREM ArrivalsKeepTheSettings == AdmissionSpec => OnlyTheHostChangesLinks
<1>1. Inv /\ [AdmissionNext]_admissionVars =>
        [/\ \A g \in Links : grants'.link[g] # grants.link[g] =>
              \E c \in Commands : command[c].at = "holds" /\ command[c].link = g
         /\ grants'.invitedOnly # grants.invitedOnly =>
              \E c \in Commands : command[c].at = "holds" /\ command[c].op \in {"close", "open"}
        ]_admissionVars
  BY OnlyTheHostStep
<1> QED BY <1>1, AlwaysInv, PTL DEF AdmissionSpec, OnlyTheHostChangesLinks

-----------------------------------------------------------------------------
(* The seat. *)

SeatTypes ==
  /\ inner \in [role : {"off", "host", "peer"}, generation : Nat, room : 0 .. Presses]
  /\ task \in [Rooms -> {"none", "reads", "tells", "ended", "aborted"}]
  /\ born \in [Rooms -> [role : {"none", "host", "peer"}, generation : Nat]]
  /\ failing \subseteq Rooms
  /\ press \in [Rooms -> {"unused", "start", "join", "leave", "done"}]

\* The open room has the manager's generation, every other room an earlier one.
OwnGeneration ==
  /\ inner.role = "off" <=> inner.room = NoSeat
  /\ inner.room # NoSeat => born[inner.room].generation = inner.generation
  /\ \A r \in Rooms : r # inner.room /\ born[r].role # "none" => born[r].generation < inner.generation

\* A room opens once, and what is left to tear it down comes after its end.
OpensOnce ==
  /\ \A r \in Rooms : press[r] # "done" => born[r].role = "none"
  /\ \A r \in failing : task[r] = "ended" /\ born[r].role # "none"

SeatInv == SeatTypes /\ OwnGeneration /\ OpensOnce

LEMMA InitSeat == SeatInit => SeatInv
BY SeatAssumption DEF SeatInit, SeatInv, SeatTypes, OwnGeneration, OpensOnce, NoSeat, Unborn, Rooms

LEMMA OpensStep ==
  ASSUME SeatInv, NEW c \in Rooms, NEW role \in {"host", "peer"}, press[c] # "done",
         inner.role = "off", press' = [press EXCEPT ![c] = "done"], Opens(c, role)
  PROVE  SeatInv'
<1>1. SeatTypes'
  BY SeatAssumption DEF SeatInv, SeatTypes, Opens, Rooms
<1>2. OwnGeneration'
  <2>1. inner' = [role |-> role, generation |-> inner.generation + 1, room |-> c] /\ c # NoSeat
    BY DEF Opens, NoSeat, Rooms
  <2>2. inner.generation \in Nat /\ inner.room = NoSeat
    BY DEF SeatInv, SeatTypes, OwnGeneration
  <2>3. born'[c].generation = inner.generation + 1 /\ \A r \in Rooms : r # c => born'[r] = born[r]
    BY DEF SeatInv, SeatTypes, Opens
  <2>4. ASSUME NEW r \in Rooms, r # c, born[r].role # "none" PROVE born[r].generation < inner.generation + 1
    <3>1. r # NoSeat /\ born[r].generation \in Nat
      BY DEF SeatInv, SeatTypes, Rooms, NoSeat
    <3> QED BY <2>2, <2>4, <3>1 DEF SeatInv, OwnGeneration
  <2> QED BY <2>1, <2>3, <2>4 DEF OwnGeneration
<1>3. OpensOnce'
  BY DEF SeatInv, SeatTypes, OpensOnce, Opens
<1> QED BY <1>1, <1>2, <1>3 DEF SeatInv

\* The session ends: the generation grows, whichever room it was.
LEMMA OffStep ==
  ASSUME SeatInv, GoesOff, UNCHANGED <<task, born>>, failing' \subseteq failing,
         press' = press \/ \E c \in Rooms : press' = [press EXCEPT ![c] = "done"] /\ press[c] = "leave"
  PROVE  SeatInv'
<1>1. SeatTypes'
  BY SeatAssumption DEF SeatInv, SeatTypes, GoesOff, NoSeat
<1>2. OwnGeneration'
  BY DEF SeatInv, SeatTypes, OwnGeneration, GoesOff, NoSeat, Rooms
<1>3. OpensOnce'
  BY DEF SeatInv, SeatTypes, OpensOnce
<1> QED BY <1>1, <1>2, <1>3 DEF SeatInv

\* Steps that leave the session alone, and of the rooms only end tasks.
LEMMA TaskStep ==
  ASSUME SeatInv, UNCHANGED <<inner, born, press>>,
         task' \in [Rooms -> {"none", "reads", "tells", "ended", "aborted"}],
         failing' \subseteq Rooms,
         \A r \in failing' : task'[r] = "ended" /\ born[r].role # "none"
  PROVE  SeatInv'
BY DEF SeatInv, SeatTypes, OwnGeneration, OpensOnce

LEMMA PressStep ==
  ASSUME SeatInv, UNCHANGED <<inner, task, born, failing>>,
         press' \in [Rooms -> {"unused", "start", "join", "leave", "done"}],
         \A r \in Rooms : press[r] = "done" => press'[r] = "done"
  PROVE  SeatInv'
BY DEF SeatInv, SeatTypes, OwnGeneration, OpensOnce

LEMMA ButtonsStep == ASSUME SeatInv, NEW c \in Rooms, Buttons(c) PROVE SeatInv'
<1>1. CASE Start(c)
  <2>1. press[c] # "done" /\ press' = [press EXCEPT ![c] = "done"]
    BY <1>1 DEF Start, Runs
  <2>2. CASE inner.role = "off" /\ Opens(c, "host")
    BY <2>1, <2>2, OpensStep
  <2>3. CASE UNCHANGED <<inner, roomVars>>
    BY <2>1, <2>3, PressStep DEF roomVars, SeatInv, SeatTypes
  <2> QED BY <1>1, <2>2, <2>3 DEF Start
<1>2. CASE Join(c)
  <2>1. press[c] # "done" /\ press' = [press EXCEPT ![c] = "done"]
    BY <1>2 DEF Join, Runs
  <2>2. CASE inner.role = "off" /\ Opens(c, "peer")
    BY <2>1, <2>2, OpensStep
  <2>3. CASE UNCHANGED <<inner, roomVars>>
    BY <2>1, <2>3, PressStep DEF roomVars, SeatInv, SeatTypes
  <2> QED BY <1>2, <2>2, <2>3 DEF Join
<1>3. CASE LeaveOf(c)
  BY <1>3, OffStep DEF LeaveOf, Runs
<1>4. CASE PressesButton(c)
  <2>1. Offered \subseteq {"start", "join", "leave"}
    BY DEF Offered
  <2> QED BY <1>4, <2>1, PressStep DEF PressesButton, Idle, managerVars, roomVars, SeatInv, SeatTypes
<1>5. CASE Reload(c)
  BY <1>5, PressStep DEF Reload, Idle, managerVars, roomVars, SeatInv, SeatTypes
<1> QED BY <1>1, <1>2, <1>3, <1>4, <1>5 DEF Buttons

LEMMA TasksStep == ASSUME SeatInv, NEW r \in Rooms, RoomTasks(r) PROVE SeatInv'
<1> USE DEF SeatInv, SeatTypes, OpensOnce
<1>1. CASE Learns(r)
  BY <1>1, TaskStep DEF Learns
<1>2. CASE Tells(r)
  BY <1>2, TaskStep DEF Tells
<1>3. CASE LineEnds(r)
  BY <1>3, TaskStep DEF LineEnds
<1>4. CASE FailsToOff(r)
  <2>1. CASE GoesOff
    BY <1>4, <2>1, OffStep DEF FailsToOff
  <2>2. CASE UNCHANGED inner
    BY <1>4, <2>2, TaskStep DEF FailsToOff
  <2> QED BY <1>4, <2>1, <2>2 DEF FailsToOff
<1>5. CASE ClearsHook(r)
  BY <1>5, TaskStep DEF ClearsHook
<1>6. CASE Aborts(r)
  BY <1>6, TaskStep DEF Aborts
<1> QED BY <1>1, <1>2, <1>3, <1>4, <1>5, <1>6 DEF RoomTasks

LEMMA ViewStep == SeatInv /\ ViewSteps => SeatInv'
<1> SUFFICES ASSUME SeatInv, ViewSteps PROVE SeatInv'
  OBVIOUS
<1>1. UNCHANGED <<inner, task, born, failing, press>>
  BY DEF ViewSteps, Mounts, HearsState, AnswersPull, HearsPull, AnswersSync, managerVars, roomVars
<1> QED BY <1>1, PressStep DEF SeatInv, SeatTypes

LEMMA NextSeat == SeatInv /\ [SeatNext]_seatVars => SeatInv'
<1> SUFFICES ASSUME SeatInv, [SeatNext]_seatVars PROVE SeatInv'
  OBVIOUS
<1>1. CASE UNCHANGED seatVars
  BY <1>1, PressStep DEF seatVars, SeatInv, SeatTypes
<1>2. CASE SeatNext
  BY <1>2, ViewStep, ButtonsStep, TasksStep DEF SeatNext
<1> QED BY <1>1, <1>2

LEMMA EndStep ==
  ASSUME SeatInv, [SeatNext]_seatVars, inner.room # NoSeat, inner'.room # inner.room
  PROVE  task[inner.room] = "ended" \/ \E c \in Rooms : LeaveOf(c)
<1>1. SeatNext /\ inner' # inner /\ inner.role # "off"
  BY DEF seatVars, SeatInv, OwnGeneration
<1>2. CASE ViewSteps
  BY <1>1, <1>2 DEF ViewSteps, Mounts, HearsState, AnswersPull, HearsPull, AnswersSync, managerVars
<1>3. ASSUME NEW c \in Rooms, Buttons(c) PROVE LeaveOf(c)
  BY <1>1, <1>3 DEF Buttons, Start, Join, PressesButton, Reload, managerVars
<1>4. ASSUME NEW r \in Rooms, RoomTasks(r) PROVE task[inner.room] = "ended"
  <2>1. r \in failing /\ inner.generation = born[r].generation
    BY <1>1, <1>4 DEF RoomTasks, Learns, Tells, LineEnds, FailsToOff, ClearsHook, Aborts
  <2>2. r = inner.room
    BY <2>1 DEF SeatInv, SeatTypes, OwnGeneration, OpensOnce
  <2> QED BY <2>1, <2>2 DEF SeatInv, OpensOnce
<1> QED BY <1>1, <1>2, <1>3, <1>4 DEF SeatNext

(* A room is ended by the user or because its own line ended; no teardown of an
   earlier room ends it, however late (fail_peer_to_off and its generation). *)
THEOREM RoomsEndByTheirOwn == SeatSpec => EndsByItsOwn
<1>1. SeatInv /\ [SeatNext]_seatVars =>
        [inner.room # NoSeat /\ inner'.room # inner.room =>
           task[inner.room] = "ended" \/ \E c \in Rooms : LeaveOf(c)]_seatVars
  BY EndStep
<1> QED BY InitSeat, NextSeat, <1>1, PTL DEF SeatSpec, EndsByItsOwn

-----------------------------------------------------------------------------
(* What the page shows of the seat. *)

\* What the page is sent, asks and shows.
ScreenTypes ==
  /\ news \in [Rooms -> Nat] /\ closing \in [Rooms -> {"no", "hook", "tasks"}] /\ mine \subseteq Rooms
  /\ events \in Seq([pushed : BOOLEAN, snapshot : Snapshot]) /\ resync \in Nat
  /\ pull \in [at : {"none", "asked", "answered"}, snapshot : Snapshot]
  /\ view \in [listens : BOOLEAN, heard : BOOLEAN, shows : Snapshot]

\* A room that is being shut down is not the open one.
ClosingInv ==
  /\ inner.room # NoSeat => born[inner.room].role # "none"
  /\ \A r \in Rooms : closing[r] # "no" => r # inner.room /\ born[r].role # "none"

\* Nothing waits for a page that does not listen.
DeafInv ==
  ~view.listens => view = NotMounted /\ events = <<>> /\ pull = NoPull /\ mine = {} /\ resync = 0

\* The last word on its way to the page, or the page itself, is true, unless a
\* task is about to tell it or the answer to its first question is.
Told == inner.room # NoSeat => task[inner.room] # "tells"
Unheard == ~view.heard /\ \A i \in DOMAIN events : ~events[i].pushed
LastWord ==
  view.listens /\ Told =>
    /\ events # <<>> => events[Len(events)].snapshot = SnapshotOf(inner)
    /\ events = <<>> => \/ view.shows = SnapshotOf(inner)
                        \/ ~view.heard /\ pull.at # "none" /\ inner.role # "off"
    /\ Unheard /\ pull.at = "answered" => pull.snapshot = SnapshotOf(inner)

ScreenInv == SeatInv /\ ScreenTypes /\ ClosingInv /\ DeafInv /\ LastWord

LEMMA SeqFacts ==
  ASSUME NEW T, NEW q \in Seq(T), NEW e \in T
  PROVE  /\ Append(q, e) \in Seq(T)
         /\ q # <<>> => q[1] \in T /\ Tail(q) \in Seq(T) /\ (Tail(q) = <<>> => Len(q) = 1)
<1>1. Append(q, e) \in Seq(T)
  OBVIOUS
<1>2. ASSUME q # <<>> PROVE q[1] \in T /\ Tail(q) \in Seq(T)
  BY <1>2
<1>3. ASSUME q # <<>>, Tail(q) = <<>> PROVE Len(q) = 1
  <2>1. Len(Tail(q)) = Len(q) - 1 /\ Len(q) \in Nat
    BY <1>3
  <2>2. Len(Tail(q)) = Len(<<>>) /\ Len(<<>>) = 0
    BY <1>3
  <2> QED BY <2>1, <2>2
<1> QED BY <1>1, <1>2, <1>3

LEMMA InitScreen == SeatInit => ScreenInv
<1> SUFFICES ASSUME SeatInit PROVE ScreenInv
  OBVIOUS
<1>1. SeatInv
  BY InitSeat
<1>2. NoSession \in Snapshot
  BY SeatAssumption DEF NoSession, Snapshot, NoSeat
<1>3. ScreenTypes
  BY <1>2 DEF SeatInit, ScreenTypes, NotMounted, NoPull
<1>4. ClosingInv /\ DeafInv /\ LastWord
  BY DEF SeatInit, ClosingInv, DeafInv, LastWord, NotMounted
<1> QED BY <1>1, <1>3, <1>4 DEF ScreenInv

\* What the session is at this moment can be sent.
LEMMA SnapshotType ==
  ASSUME SeatInv, ScreenTypes PROVE SnapshotOf(inner) \in Snapshot
<1>1. inner.role \in {"off", "host", "peer"} /\ inner.room \in 0 .. Presses
  BY DEF SeatInv, SeatTypes
<1>2. (IF inner.room = NoSeat THEN 0 ELSE news[inner.room]) \in Nat
  BY <1>1, SeatAssumption DEF ScreenTypes, NoSeat, Rooms
<1> QED BY <1>1, <1>2 DEF SnapshotOf, Snapshot

LEMMA EmitType ==
  ASSUME ScreenTypes, NEW s \in Snapshot, Emit(s)
  PROVE  events' \in Seq([pushed : BOOLEAN, snapshot : Snapshot])
<1> DEFINE T == [pushed : BOOLEAN, snapshot : Snapshot]
<1>1. events \in Seq(T) /\ [pushed |-> TRUE, snapshot |-> s] \in T
  BY DEF ScreenTypes
<1> HIDE DEF T
<1>2. Append(events, [pushed |-> TRUE, snapshot |-> s]) \in Seq(T)
  BY <1>1, SeqFacts
<1>3. events' \in Seq(T)
  BY <1>1, <1>2 DEF Emit
<1> QED BY <1>3 DEF T

LEMMA OffSnapshot ==
  ASSUME SeatInv, inner.room = NoSeat PROVE SnapshotOf(inner) = NoSession
BY DEF SeatInv, OwnGeneration, SnapshotOf, NoSession

\* An event that says how things are after the step is the last word.
LEMMA ToldStep ==
  ASSUME ScreenInv, SeatInv', ScreenTypes', UNCHANGED <<mine, pull, view>>, view.listens \/ resync' = resync,
         events' = IF view.listens
                     THEN Append(events, [pushed |-> TRUE, snapshot |-> SnapshotOf(inner)'])
                     ELSE events
  PROVE  DeafInv' /\ LastWord'
<1>1. DeafInv'
  BY DEF ScreenInv, DeafInv
<1>2. ASSUME view.listens PROVE LastWord'
  <2> DEFINE e == [pushed |-> TRUE, snapshot |-> SnapshotOf(inner)']
  <2>1. events' = Append(events, e) /\ e.pushed /\ e.snapshot = SnapshotOf(inner)'
    BY <1>2
  <2>2. events \in Seq([pushed : BOOLEAN, snapshot : Snapshot])
    BY DEF ScreenInv, ScreenTypes
  <2> HIDE DEF e
  <2>3. events' # <<>> /\ events'[Len(events')] = e /\ Len(events') \in DOMAIN events'
    BY <2>1, <2>2
  <2>4. ~Unheard'
    BY <2>1, <2>3 DEF Unheard
  <2> QED BY <2>1, <2>3, <2>4 DEF LastWord
<1>3. ASSUME ~view.listens PROVE LastWord'
  BY <1>3 DEF LastWord
<1> QED BY <1>1, <1>2, <1>3

\* Steps that the page neither sees nor asks about.
LEMMA QuietStep ==
  ASSUME ScreenInv, SeatInv', ScreenTypes', UNCHANGED <<events, pull, view>>,
         view.listens \/ UNCHANGED <<mine, resync>>,
         Told' => Told /\ SnapshotOf(inner)' = SnapshotOf(inner) /\ inner'.role = inner.role
  PROVE  DeafInv' /\ LastWord'
<1>1. DeafInv'
  BY DEF ScreenInv, DeafInv
<1>2. LastWord'
  BY DEF ScreenInv, LastWord, Unheard
<1> QED BY <1>1, <1>2

LEMMA OpensScreen ==
  ASSUME ScreenInv, SeatInv', NEW c \in Rooms, NEW role \in {"host", "peer"}, press[c] # "done",
         inner.role = "off", Opens(c, role), UNCHANGED viewVars
  PROVE  ScreenInv'
<1>1. ScreenTypes'
  <2>1. SnapshotOf(inner') \in Snapshot
    BY SeatAssumption DEF Opens, SnapshotOf, Snapshot, Rooms, ScreenInv, ScreenTypes, NoSeat
  <2>2. events' \in Seq([pushed : BOOLEAN, snapshot : Snapshot])
    BY <2>1, EmitType DEF Opens, ScreenInv
  <2> QED BY <2>2 DEF Opens, viewVars, ScreenInv, ScreenTypes
<1>2. ClosingInv'
  BY DEF Opens, ScreenInv, SeatInv, SeatTypes, OpensOnce, ClosingInv, ScreenTypes
<1>3. SnapshotOf(inner)' = SnapshotOf(inner')
  BY DEF SnapshotOf, Opens
<1>4. DeafInv' /\ LastWord'
  BY <1>1, <1>3, ToldStep DEF Opens, Emit, viewVars
<1> QED BY <1>1, <1>2, <1>4 DEF ScreenInv

LEMMA OffScreen ==
  ASSUME ScreenInv, SeatInv', GoesOff, UNCHANGED <<task, born, news, viewVars>>
  PROVE  ScreenInv'
<1>1. inner'.role = "off" /\ inner'.room = NoSeat /\ SnapshotOf(inner)' = NoSession
  BY DEF GoesOff, SnapshotOf, NoSession
<1>2. ScreenTypes'
  <2>1. NoSession \in Snapshot
    BY SeatAssumption DEF NoSession, Snapshot, NoSeat
  <2>2. events' \in Seq([pushed : BOOLEAN, snapshot : Snapshot])
    BY <2>1, EmitType DEF GoesOff, ScreenInv
  <2>3. closing' \in [Rooms -> {"no", "hook", "tasks"}]
    BY DEF GoesOff, ScreenInv, ScreenTypes
  <2> QED BY <2>2, <2>3 DEF viewVars, ScreenInv, ScreenTypes
<1>3. ClosingInv'
  <2>1. ASSUME NEW r \in Rooms, closing'[r] # "no" PROVE r # NoSeat /\ born[r].role # "none"
    BY <2>1 DEF GoesOff, ScreenInv, ScreenTypes, ClosingInv, Rooms, NoSeat
  <2> QED BY <1>1, <2>1 DEF ClosingInv
<1>4. DeafInv' /\ LastWord'
  BY <1>1, <1>2, ToldStep DEF GoesOff, Emit, viewVars
<1> QED BY <1>2, <1>3, <1>4 DEF ScreenInv

LEMMA ButtonsScreen == ASSUME ScreenInv, SeatInv', NEW c \in Rooms, Buttons(c) PROVE ScreenInv'
<1>1. CASE Start(c)
  <2>1. press[c] # "done"
    BY <1>1 DEF Start, Runs
  <2>2. CASE inner.role = "off" /\ Opens(c, "host") /\ UNCHANGED viewVars
    BY <2>1, <2>2, OpensScreen
  <2>3. CASE /\ resync' = IF c \in mine THEN resync + 1 ELSE resync
             /\ UNCHANGED <<inner, roomVars, events, mine, pull, view>>
    <3>1. ScreenTypes' /\ ClosingInv'
      BY <2>3 DEF roomVars, ScreenInv, ScreenTypes, ClosingInv
    <3>2. view.listens \/ resync' = resync
      BY <2>3 DEF ScreenInv, DeafInv
    <3>3. Told' => Told /\ SnapshotOf(inner)' = SnapshotOf(inner)
      BY <2>3 DEF roomVars, Told, SnapshotOf
    <3>4. DeafInv' /\ LastWord'
      BY <2>3, <3>1, <3>2, <3>3, QuietStep
    <3> QED BY <3>1, <3>4 DEF ScreenInv
  <2> QED BY <1>1, <2>2, <2>3 DEF Start
<1>2. CASE Join(c)
  <2>1. press[c] # "done" /\ UNCHANGED viewVars
    BY <1>2 DEF Join, Runs
  <2>2. CASE inner.role = "off" /\ Opens(c, "peer")
    BY <2>1, <2>2, OpensScreen
  <2>3. CASE UNCHANGED <<inner, roomVars, events>>
    <3>1. ScreenTypes' /\ ClosingInv'
      BY <2>1, <2>3 DEF roomVars, viewVars, ScreenInv, ScreenTypes, ClosingInv
    <3>2. Told' => Told /\ SnapshotOf(inner)' = SnapshotOf(inner)
      BY <2>3 DEF roomVars, Told, SnapshotOf
    <3>3. DeafInv' /\ LastWord'
      BY <2>1, <2>3, <3>1, <3>2, QuietStep DEF viewVars
    <3> QED BY <3>1, <3>3 DEF ScreenInv
  <2> QED BY <1>2, <2>2, <2>3 DEF Join
<1>3. CASE LeaveOf(c)
  BY <1>3, OffScreen DEF LeaveOf
<1>4. CASE PressesButton(c)
  <2>1. ScreenTypes' /\ ClosingInv'
    BY <1>4 DEF PressesButton, managerVars, roomVars, ScreenInv, ScreenTypes, ClosingInv
  <2>2. Told' => Told /\ SnapshotOf(inner)' = SnapshotOf(inner)
    BY <1>4 DEF PressesButton, managerVars, roomVars, Told, SnapshotOf
  <2>3. DeafInv' /\ LastWord'
    BY <1>4, <2>1, <2>2, QuietStep DEF PressesButton, Idle, managerVars
  <2> QED BY <2>1, <2>3 DEF ScreenInv
<1>5. CASE Reload(c)
  <2>1. NoSession \in Snapshot
    BY SeatAssumption DEF NoSession, Snapshot, NoSeat
  <2>2. ScreenTypes' /\ ClosingInv'
    BY <1>5, <2>1 DEF Reload, managerVars, roomVars, ScreenInv, ScreenTypes, ClosingInv, NotMounted, NoPull
  <2>3. DeafInv' /\ LastWord'
    BY <1>5 DEF Reload, DeafInv, LastWord, NotMounted
  <2> QED BY <2>2, <2>3 DEF ScreenInv
<1> QED BY <1>1, <1>2, <1>3, <1>4, <1>5 DEF Buttons

LEMMA TasksScreen == ASSUME ScreenInv, SeatInv', NEW r \in Rooms, RoomTasks(r) PROVE ScreenInv'
<1> USE DEF ScreenInv
<1>1. CASE Learns(r)
  <2>1. task[r] = "reads" /\ news' = [news EXCEPT ![r] = @ + 1]
         /\ task' = [task EXCEPT ![r] = "tells"]
         /\ UNCHANGED <<inner, born, closing, events, viewVars>>
    BY <1>1 DEF Learns
  <2>2. ScreenTypes' /\ ClosingInv'
    BY <2>1 DEF viewVars, ScreenTypes, ClosingInv
  <2>3. Told' => Told /\ SnapshotOf(inner)' = SnapshotOf(inner)
    BY <2>1 DEF Told, SnapshotOf, NoSeat, Rooms, SeatInv, SeatTypes, ScreenTypes
  <2> QED BY <2>1, <2>2, <2>3, QuietStep DEF viewVars
<1>2. CASE Tells(r)
  <2>1. Emit(SnapshotOf(inner)) /\ UNCHANGED <<inner, born, news, closing, viewVars>>
    BY <1>2 DEF Tells
  <2>2. SnapshotOf(inner)' = SnapshotOf(inner)
    BY <2>1 DEF SnapshotOf
  <2>3. events' \in Seq([pushed : BOOLEAN, snapshot : Snapshot])
    BY <2>1, SnapshotType, EmitType
  <2>4. ScreenTypes' /\ ClosingInv'
    BY <2>1, <2>3 DEF viewVars, ScreenTypes, ClosingInv
  <2> QED BY <2>1, <2>2, <2>4, ToldStep DEF Emit, viewVars
<1>3. CASE LineEnds(r)
  <2>1. task[r] = "reads" /\ task' = [task EXCEPT ![r] = "ended"]
         /\ UNCHANGED <<inner, born, news, closing, events, viewVars>>
    BY <1>3 DEF LineEnds
  <2>2. ScreenTypes' /\ ClosingInv'
    BY <2>1 DEF viewVars, ScreenTypes, ClosingInv
  <2>3. Told' => Told /\ SnapshotOf(inner)' = SnapshotOf(inner)
    BY <2>1 DEF Told, SnapshotOf, NoSeat, Rooms, SeatInv, SeatTypes
  <2> QED BY <2>1, <2>2, <2>3, QuietStep DEF viewVars
<1>4. CASE FailsToOff(r)
  <2>1. UNCHANGED <<task, born, news, viewVars>>
    BY <1>4 DEF FailsToOff
  <2>2. CASE GoesOff
    BY <2>1, <2>2, OffScreen
  <2>3. CASE UNCHANGED <<inner, events, closing>>
    <3>1. ScreenTypes' /\ ClosingInv'
      BY <2>1, <2>3 DEF viewVars, ScreenTypes, ClosingInv
    <3>2. Told' => Told /\ SnapshotOf(inner)' = SnapshotOf(inner)
      BY <2>1, <2>3 DEF Told, SnapshotOf
    <3> QED BY <2>1, <2>3, <3>1, <3>2, QuietStep DEF viewVars
  <2> QED BY <1>4, <2>2, <2>3 DEF FailsToOff
<1>5. CASE ClearsHook(r)
  <2>1. closing[r] # "no" /\ closing' = [closing EXCEPT ![r] = "tasks"]
         /\ UNCHANGED <<inner, task, born, news, events, viewVars>>
    BY <1>5 DEF ClearsHook
  <2>2. ScreenTypes' /\ ClosingInv'
    BY <2>1 DEF viewVars, ScreenTypes, ClosingInv
  <2>3. Told' => Told /\ SnapshotOf(inner)' = SnapshotOf(inner)
    BY <2>1 DEF Told, SnapshotOf
  <2> QED BY <2>1, <2>2, <2>3, QuietStep DEF viewVars
<1>6. CASE Aborts(r)
  <2>1. closing[r] # "no" /\ closing' = [closing EXCEPT ![r] = "no"]
         /\ task' = [task EXCEPT ![r] = IF @ = "ended" THEN @ ELSE "aborted"]
         /\ UNCHANGED <<inner, born, news, events, viewVars>>
    BY <1>6 DEF Aborts
  <2>2. ScreenTypes' /\ ClosingInv'
    BY <2>1 DEF viewVars, ScreenTypes, ClosingInv
  <2>3. r # inner.room
    BY <2>1 DEF ClosingInv
  <2>4. Told' => Told /\ SnapshotOf(inner)' = SnapshotOf(inner)
    BY <2>1, <2>3 DEF Told, SnapshotOf, SeatInv, SeatTypes
  <2> QED BY <2>1, <2>2, <2>4, QuietStep DEF viewVars
<1> QED BY <1>1, <1>2, <1>3, <1>4, <1>5, <1>6 DEF RoomTasks

\* Without late answers the page hears what is first.
LEMMA HeardInOrder ==
  ASSUME ScreenInv, LateAnswers = FALSE, HearsState
  PROVE  /\ events # <<>> /\ events' = Tail(events) /\ UNCHANGED <<managerVars, mine, resync, pull>>
         /\ view' = [view EXCEPT !.heard = @ \/ events[1].pushed, !.shows = events[1].snapshot]
<1>1. PICK i \in Audible :
        /\ events' = RemoveAt(events, i)
        /\ view' = [view EXCEPT !.heard = @ \/ events[i].pushed, !.shows = events[i].snapshot]
        /\ UNCHANGED <<managerVars, press, mine, resync, pull>>
  BY DEF HearsState
<1>2. events \in Seq([pushed : BOOLEAN, snapshot : Snapshot])
  BY DEF ScreenInv, ScreenTypes
<1>3. i = 1 /\ events # <<>>
  BY <1>2 DEF Audible
<1>4. RemoveAt(events, 1) = Tail(events)
  BY <1>2, <1>3 DEF RemoveAt
<1> QED BY <1>1, <1>3, <1>4

LEMMA HearsScreen == ASSUME ScreenInv, LateAnswers = FALSE, SeatInv', HearsState PROVE ScreenInv'
<1> DEFINE e == events[1]
<1>1. /\ events # <<>> /\ events' = Tail(events) /\ UNCHANGED <<managerVars, mine, resync, pull>>
      /\ view' = [view EXCEPT !.heard = @ \/ e.pushed, !.shows = e.snapshot]
  BY HeardInOrder
<1>2. events \in Seq([pushed : BOOLEAN, snapshot : Snapshot])
  BY DEF ScreenInv, ScreenTypes
<1>3. /\ e \in [pushed : BOOLEAN, snapshot : Snapshot]
      /\ events' \in Seq([pushed : BOOLEAN, snapshot : Snapshot])
      /\ events' = <<>> => Len(events) = 1
  <2> DEFINE T == [pushed : BOOLEAN, snapshot : Snapshot]
  <2>1. events \in Seq(T)
    BY <1>2
  <2> HIDE DEF T
  <2>2. events[1] \in T
    BY <1>1, <2>1
  <2>3. Tail(events) \in Seq(T) /\ (Tail(events) = <<>> => Len(events) = 1)
    BY <1>1, <2>1, <2>2, SeqFacts
  <2> QED BY <1>1, <2>2, <2>3 DEF T
<1>4. view.listens
  BY <1>1 DEF ScreenInv, DeafInv
<1>5. /\ view \in [listens : BOOLEAN, heard : BOOLEAN, shows : Snapshot]
      /\ UNCHANGED <<inner, task, born, news, failing, closing, hook>>
  BY <1>1 DEF ScreenInv, ScreenTypes, managerVars, roomVars
<1>6. view'.listens /\ view'.shows = e.snapshot /\ view'.heard = (view.heard \/ e.pushed)
  BY <1>1, <1>4, <1>5
<1>7. ScreenTypes'
  BY <1>1, <1>3, <1>5 DEF ScreenInv, ScreenTypes
<1>8. ClosingInv' /\ DeafInv'
  BY <1>5, <1>6 DEF ScreenInv, ClosingInv, DeafInv
<1>9. LastWord'
  <2>1. Told' = Told /\ SnapshotOf(inner)' = SnapshotOf(inner)
    BY <1>5 DEF Told, SnapshotOf
  <2>2. Unheard' => Unheard
    <3>1. ASSUME Unheard', NEW i \in DOMAIN events PROVE ~events[i].pushed
      <4>1. CASE i = 1
        BY <1>6, <3>1, <4>1 DEF Unheard
      <4>2. CASE i # 1
        <5>1. i - 1 \in DOMAIN events' /\ events'[i - 1] = events[i]
          BY <1>1, <1>2, <4>2
        <5> QED BY <3>1, <5>1 DEF Unheard
      <4> QED BY <4>1, <4>2
    <3> QED BY <1>6, <3>1 DEF Unheard
  <2>3. ASSUME Told, events' # <<>> PROVE events'[Len(events')].snapshot = SnapshotOf(inner)
    <3>1. events'[Len(events')] = events[Len(events)]
      BY <1>1, <1>2, <2>3
    <3> QED BY <1>1, <1>4, <2>3, <3>1 DEF ScreenInv, LastWord
  <2>4. ASSUME Told, events' = <<>> PROVE view'.shows = SnapshotOf(inner)
    <3>1. Len(events) = 1
      BY <1>3, <2>4
    <3> QED BY <1>1, <1>4, <1>6, <2>4, <3>1 DEF ScreenInv, LastWord
  <2> QED BY <1>1, <1>4, <2>1, <2>2, <2>3, <2>4 DEF ScreenInv, LastWord
<1> QED BY <1>7, <1>8, <1>9 DEF ScreenInv

LEMMA ViewScreen == ASSUME ScreenInv, LateAnswers = FALSE, SeatInv', ViewSteps PROVE ScreenInv'
<1>1. CASE HearsState
  BY <1>1, HearsScreen
<1>2. ASSUME ~HearsState PROVE UNCHANGED <<inner, task, born, news, failing, closing>>
  BY <1>2 DEF ViewSteps, Mounts, AnswersPull, HearsPull, AnswersSync, managerVars, roomVars
<1>3. ASSUME ~HearsState PROVE ClosingInv' /\ Told' = Told /\ SnapshotOf(inner)' = SnapshotOf(inner)
  BY <1>2, <1>3 DEF ScreenInv, ClosingInv, Told, SnapshotOf
<1>4. SnapshotOf(inner) \in Snapshot
  BY SnapshotType DEF ScreenInv
<1> USE DEF ScreenInv
<1>5. CASE Mounts /\ ~HearsState
  <2>1. /\ ~view.listens /\ view' = [view EXCEPT !.listens = TRUE]
        /\ pull' = [NoPull EXCEPT !.at = "asked"] /\ UNCHANGED <<events, mine, resync>>
    BY <1>5 DEF Mounts
  <2>2. view = NotMounted /\ events = <<>>
    BY <2>1 DEF DeafInv
  <2>3. view'.listens /\ view'.shows = NoSession /\ ~view'.heard /\ pull'.at = "asked"
    BY <2>1, <2>2 DEF NotMounted, NoPull
  <2>4. ScreenTypes'
    <3>1. NoSession \in Snapshot
      BY SeatAssumption DEF NoSession, Snapshot, NoSeat
    <3>2. pull' \in [at : {"none", "asked", "answered"}, snapshot : Snapshot]
      BY <2>1, <3>1 DEF NoPull
    <3>3. view' \in [listens : BOOLEAN, heard : BOOLEAN, shows : Snapshot]
      BY <2>1 DEF ScreenTypes
    <3> QED BY <1>2, <1>5, <2>1, <3>2, <3>3 DEF ScreenTypes
  <2>5. inner.role # "off" \/ SnapshotOf(inner) = NoSession
    BY OffSnapshot DEF SeatInv, OwnGeneration
  <2>6. LastWord' /\ DeafInv'
    BY <1>2, <1>3, <1>5, <2>1, <2>2, <2>3, <2>5 DEF LastWord, DeafInv
  <2> QED BY <1>3, <1>5, <2>4, <2>6
<1>6. CASE AnswersPull /\ ~HearsState
  <2>1. /\ pull.at = "asked" /\ pull' = [at |-> "answered", snapshot |-> SnapshotOf(inner)]
        /\ UNCHANGED <<events, mine, resync, view>>
    BY <1>6 DEF AnswersPull
  <2>2. ScreenTypes'
    BY <1>2, <1>4, <1>6, <2>1 DEF ScreenTypes
  <2>3. DeafInv'
    BY <2>1 DEF DeafInv, NoPull
  <2>4. LastWord'
    BY <1>2, <1>3, <1>6, <2>1 DEF LastWord, Unheard
  <2> QED BY <1>3, <1>6, <2>2, <2>3, <2>4
<1>7. CASE HearsPull /\ ~HearsState
  <2>1. /\ pull.at = "answered" /\ pull' = NoPull
        /\ view' = IF ~view.heard /\ pull.snapshot.role # "off"
                     THEN [view EXCEPT !.shows = pull.snapshot] ELSE view
        /\ UNCHANGED <<events, mine, resync>>
    BY <1>7 DEF HearsPull
  <2>2. view.listens
    BY <2>1 DEF DeafInv, NoPull
  <2>3. view'.listens /\ view'.heard = view.heard
    BY <2>1, <2>2 DEF ScreenTypes
  <2>4. ScreenTypes'
    <3>1. NoSession \in Snapshot
      BY SeatAssumption DEF NoSession, Snapshot, NoSeat
    <3>2. pull' \in [at : {"none", "asked", "answered"}, snapshot : Snapshot]
      BY <2>1, <3>1 DEF NoPull
    <3>3. view' \in [listens : BOOLEAN, heard : BOOLEAN, shows : Snapshot]
      BY <2>1 DEF ScreenTypes
    <3> QED BY <1>2, <1>7, <2>1, <3>2, <3>3 DEF ScreenTypes
  <2>5. ASSUME Told, events = <<>> PROVE view'.shows = SnapshotOf(inner)
    <3>1. CASE view.heard
      BY <2>1, <2>2, <2>5, <3>1 DEF LastWord
    <3>2. CASE ~view.heard
      <4>1. pull.snapshot = SnapshotOf(inner)
        BY <2>1, <2>2, <2>5, <3>2 DEF LastWord, Unheard
      <4>2. CASE pull.snapshot.role # "off"
        BY <2>1, <3>2, <4>1, <4>2 DEF ScreenTypes
      <4>3. CASE pull.snapshot.role = "off"
        BY <2>1, <2>2, <2>5, <4>1, <4>3 DEF LastWord, SnapshotOf
      <4> QED BY <4>2, <4>3
    <3> QED BY <3>1, <3>2
  <2>6. DeafInv' /\ LastWord'
    BY <1>3, <1>7, <2>1, <2>2, <2>3, <2>5 DEF LastWord, DeafInv, NoPull
  <2> QED BY <1>3, <1>7, <2>4, <2>6
<1>8. CASE AnswersSync /\ ~HearsState
  <2> DEFINE e == [pushed |-> FALSE, snapshot |-> SnapshotOf(inner)]
  <2>1. /\ resync > 0 /\ resync' = resync - 1 /\ events' = Append(events, e)
        /\ UNCHANGED <<mine, pull, view>>
    BY <1>8 DEF AnswersSync
  <2>2. events \in Seq([pushed : BOOLEAN, snapshot : Snapshot])
        /\ e \in [pushed : BOOLEAN, snapshot : Snapshot] /\ ~e.pushed /\ e.snapshot = SnapshotOf(inner)
    BY <1>4 DEF ScreenTypes
  <2> HIDE DEF e
  <2>3. /\ events' # <<>> /\ events'[Len(events')] = e
        /\ \A i \in DOMAIN events : i \in DOMAIN events' /\ events'[i] = events[i]
    BY <2>1, <2>2
  <2>4. ScreenTypes'
    BY <1>2, <1>8, <2>1, <2>2 DEF ScreenTypes
  <2>5. view.listens
    BY <2>1 DEF DeafInv
  <2>6. Unheard' => Unheard
    BY <2>1, <2>3 DEF Unheard
  <2>7. DeafInv' /\ LastWord'
    BY <1>3, <1>8, <2>1, <2>2, <2>3, <2>5, <2>6 DEF LastWord, DeafInv
  <2> QED BY <1>3, <1>8, <2>4, <2>7
<1> QED BY <1>1, <1>5, <1>6, <1>7, <1>8 DEF ViewSteps

LEMMA NextScreen == LateAnswers = FALSE /\ ScreenInv /\ [SeatNext]_seatVars => ScreenInv'
<1> SUFFICES ASSUME LateAnswers = FALSE, ScreenInv, [SeatNext]_seatVars PROVE ScreenInv'
  OBVIOUS
<1>1. SeatInv'
  BY NextSeat DEF ScreenInv
<1>2. CASE UNCHANGED seatVars
  BY <1>1, <1>2 DEF seatVars, ScreenInv, ScreenTypes, ClosingInv, DeafInv, LastWord, Told, Unheard, SnapshotOf
<1>3. CASE SeatNext
  BY <1>1, <1>3, ViewScreen, ButtonsScreen, TasksScreen DEF SeatNext
<1> QED BY <1>2, <1>3

(* A page to which nothing is on its way shows the session there is, however
   often it was reloaded, rooms were left, broke, were refused or changed, while
   the answer to a resynchronisation is heard in its turn (syncSessionState). *)
THEOREM ThePageIsTrue == ASSUME LateAnswers = FALSE PROVE SeatSpec => []PageShowsTheSession
<1>1. ScreenInv => PageShowsTheSession
  BY DEF ScreenInv, LastWord, Told, PageShowsTheSession, PageSettled
<1>2. LateAnswers = FALSE
  OBVIOUS
<1>3. ScreenInv /\ [SeatNext]_seatVars => ScreenInv'
  BY <1>2, NextScreen
<1> QED BY InitScreen, <1>1, <1>3, PTL DEF SeatSpec

-----------------------------------------------------------------------------
(* The gate. *)

GateTypes ==
  /\ table \in [Keys -> Slots \cup {NoSlot}]
  /\ call \in [Callers -> [at : {"out", "waits", "fetches"}, key : Keys \cup {NoKey},
                           slot : Slots \cup {NoSlot}]]
  /\ Cardinality(Listed(table)) <= Limit

\* Whoever is under way holds the slot the table has for its source, and one of
\* those who hold it fetches.
HoldsTheListed ==
  /\ \A c \in Callers :
       IF call[c].at = "out" THEN call[c].slot = NoSlot
       ELSE call[c].key \in Keys /\ call[c].slot \in Slots /\ table[call[c].key] = call[c].slot
  /\ \A c, d \in Callers :
       call[c].at = "fetches" /\ call[d].at = "fetches" /\ call[c].slot = call[d].slot => c = d

GateInv == GateTypes /\ HoldsTheListed

LEMMA ImageBound ==
  ASSUME NEW S, IsFiniteSet(S), NEW f
  PROVE  IsFiniteSet({f[x] : x \in S}) /\ Cardinality({f[x] : x \in S}) <= Cardinality(S)
<1> DEFINE T == {f[x] : x \in S}
           g == [x \in S |-> f[x]]
<1>1. g \in Surjection(S, T)
  BY DEF Surjection
<1> QED BY <1>1, FS_Surjection

\* There is a slot for whoever asks: no more are listed or held than the assumption counts.
LEMMA FreshSlot ==
  ASSUME GateInv, NEW c \in Callers, call[c].slot = NoSlot
  PROVE  Fresh \in Slots
<1> DEFINE others == Callers \ {c}
           slots == [d \in Callers |-> call[d].slot]
           listed == {table[k] : k \in Listed(table)}
           held == {slots[d] : d \in others}
<1>1. IsFiniteSet(Listed(table)) /\ Cardinality(Listed(table)) <= Limit
      /\ Cardinality(Listed(table)) \in Nat
  BY GateAssumption, FS_Subset, FS_CardinalityType DEF GateInv, GateTypes, Listed
<1>2. IsFiniteSet(others) /\ Cardinality(others) = Cardinality(Callers) - 1
      /\ Cardinality(Callers) \in Nat
  BY GateAssumption, FS_RemoveElement, FS_CardinalityType
<1>3. IsFiniteSet(listed) /\ Cardinality(listed) <= Cardinality(Listed(table))
  BY <1>1, ImageBound
<1>4. IsFiniteSet(held) /\ Cardinality(held) <= Cardinality(others)
  BY <1>2, ImageBound
<1>5. /\ IsFiniteSet(listed \cup held)
      /\ Cardinality(listed \cup held) =
           Cardinality(listed) + Cardinality(held) - Cardinality(listed \cap held)
  BY <1>3, <1>4, FS_Union
<1>6. /\ Cardinality(listed) \in Nat /\ Cardinality(held) \in Nat
      /\ Cardinality(listed \cap held) \in Nat
  <2>1. IsFiniteSet(listed \cap held)
    BY <1>3, FS_Subset
  <2> QED BY <1>3, <1>4, <2>1, FS_CardinalityType
<1>7. Cardinality(listed \cup held) < Cardinality(Slots)
  <2>1. Cardinality(Slots) \in Nat /\ Limit \in Nat /\ Cardinality(Slots) >= Limit + Cardinality(Callers)
    BY GateAssumption, FS_CardinalityType
  <2> HIDE DEF listed, held, others
  <2> QED BY <1>1, <1>2, <1>3, <1>4, <1>5, <1>6, <2>1
<1>8. PICK s \in Slots : s \notin listed \cup held
  <2>1. ~(Slots \subseteq listed \cup held)
    <3> HIDE DEF listed, held
    <3>1. ASSUME Slots \subseteq listed \cup held PROVE FALSE
      <4>1. Cardinality(Slots) <= Cardinality(listed \cup held)
        BY <1>5, <3>1, FS_Subset
      <4>2. Cardinality(Slots) \in Nat /\ Cardinality(listed \cup held) \in Nat
        BY <1>5, GateAssumption, FS_CardinalityType
      <4> QED BY <1>7, <4>1, <4>2
    <3> QED BY <3>1
  <2> QED BY <2>1
<1>9. s \notin Held /\ \A k \in Keys : table[k] # s
  <2>1. s # NoSlot
    BY GateAssumption
  <2>2. ASSUME NEW k \in Keys, table[k] = s PROVE FALSE
    BY <1>8, <2>1, <2>2 DEF Listed
  <2>3. ASSUME NEW d \in Callers, call[d].slot = s PROVE FALSE
    BY <1>8, <2>1, <2>3
  <2> QED BY <2>2, <2>3 DEF Held
<1> QED BY <1>9 DEF Fresh

LEMMA InitGate == GateInit => GateInv
<1> SUFFICES ASSUME GateInit PROVE GateInv
  OBVIOUS
<1>1. Listed(table) = {}
  BY DEF GateInit, Listed
<1> QED BY <1>1, GateAssumption, FS_EmptySet DEF GateInit, Gone, GateInv, GateTypes, HoldsTheListed

LEMMA AcquiresStep ==
  ASSUME GateInv, NEW c \in Callers, NEW k \in Keys, Acquires(c, k)
  PROVE  GateInv'
<1> DEFINE room == IF Full(table, k) THEN Retained(table) ELSE table
           s == IF room[k] = NoSlot THEN Fresh ELSE room[k]
<1>1. room \in [Keys -> Slots \cup {NoSlot}]
  BY DEF GateInv, GateTypes, Retained
<1>2. \A d \in Callers : call[d].at # "out" => room[call[d].key] = call[d].slot
  BY DEF GateInv, HoldsTheListed, Retained, Held
<1>3. IsFiniteSet(Listed(table)) /\ Listed(room) \subseteq Listed(table)
      /\ IsFiniteSet(Listed(room)) /\ Cardinality(Listed(room)) \in Nat
      /\ Cardinality(Listed(room)) <= Limit
  <2>1. Listed(room) \subseteq Listed(table)
    BY DEF Listed, Retained
  <2>2. IsFiniteSet(Listed(table)) /\ Cardinality(Listed(table)) \in Nat
    BY GateAssumption, FS_Subset, FS_CardinalityType DEF Listed
  <2>3. IsFiniteSet(Listed(room)) /\ Cardinality(Listed(room)) <= Cardinality(Listed(table))
    BY <2>1, <2>2, FS_Subset
  <2>4. Cardinality(Listed(room)) \in Nat /\ Cardinality(Listed(table)) <= Limit /\ Limit \in Nat
    BY <2>3, GateAssumption, FS_CardinalityType DEF GateInv, GateTypes
  <2> HIDE DEF room
  <2> QED BY <2>1, <2>2, <2>3, <2>4
<1>4. CASE Full(room, k)
  <2>1. table' = room /\ call' = call
    BY <1>4 DEF Acquires
  <2>2. GateTypes'
    BY <1>1, <1>3, <2>1 DEF GateInv, GateTypes, Listed
  <2>3. HoldsTheListed'
    BY <1>2, <2>1 DEF GateInv, HoldsTheListed
  <2> QED BY <2>2, <2>3 DEF GateInv
<1>5. CASE ~Full(room, k)
  <2>1. /\ call[c].at = "out" /\ table' = [room EXCEPT ![k] = s]
        /\ call' = [call EXCEPT ![c] = [at |-> "waits", key |-> k, slot |-> s]]
    BY <1>5 DEF Acquires
  <2>2. s \in Slots
    <3>1. call[c].slot = NoSlot
      BY <2>1 DEF GateInv, HoldsTheListed
    <3> QED BY <1>1, <3>1, FreshSlot
  <2>3. Cardinality(Listed(table')) <= Limit
    <3>1. Listed(table') = Listed(room) \cup {k}
      BY <1>1, <2>1, <2>2, GateAssumption DEF Listed
    <3>2. CASE room[k] # NoSlot
      <4>1. Listed(table') = Listed(room)
        BY <3>1, <3>2 DEF Listed
      <4> QED BY <1>3, <4>1
    <3>3. CASE room[k] = NoSlot
      <4>1. Cardinality(Listed(room)) < Limit /\ Limit \in Nat
        BY <1>3, <1>5, <3>3, GateAssumption DEF Full
      <4>2. Cardinality(Listed(room) \cup {k}) \in {Cardinality(Listed(room)), Cardinality(Listed(room)) + 1}
        BY <1>3, FS_AddElement
      <4> HIDE DEF room
      <4> QED BY <1>3, <3>1, <4>1, <4>2
    <3> QED BY <3>2, <3>3
  <2>4. GateTypes'
    BY <1>1, <2>1, <2>2, <2>3 DEF GateInv, GateTypes, Listed
  <2>5. HoldsTheListed'
    <3> HIDE DEF room, s
    <3>1. ASSUME NEW d \in Callers, call'[d].at # "out"
          PROVE  call'[d].key \in Keys /\ call'[d].slot \in Slots /\ table'[call'[d].key] = call'[d].slot
      <4>1. CASE d = c
        BY <1>1, <2>1, <2>2, <4>1 DEF GateInv, GateTypes
      <4>2. CASE d # c
        <5>1. call'[d] = call[d] /\ call[d].key \in Keys /\ call[d].slot \in Slots
              /\ room[call[d].key] = call[d].slot
          BY <1>2, <2>1, <3>1, <4>2 DEF GateInv, GateTypes, HoldsTheListed
        <5>2. CASE call[d].key = k
          <6>1. room[k] # NoSlot
            BY <5>1, <5>2, GateAssumption
          <6>2. s = call[d].slot
            BY <5>1, <5>2, <6>1 DEF s
          <6> QED BY <1>1, <2>1, <5>1, <5>2, <6>2
        <5>3. CASE call[d].key # k
          BY <1>1, <2>1, <5>1, <5>3
        <5> QED BY <5>2, <5>3
      <4> QED BY <4>1, <4>2
    <3>2. ASSUME NEW d \in Callers, NEW e \in Callers, call'[d].at = "fetches", call'[e].at = "fetches",
                 call'[d].slot = call'[e].slot
          PROVE  d = e
      BY <2>1, <3>2 DEF GateInv, GateTypes, HoldsTheListed
    <3>3. ASSUME NEW d \in Callers, call'[d].at = "out" PROVE call'[d].slot = NoSlot
      BY <2>1, <3>3 DEF GateInv, GateTypes, HoldsTheListed
    <3> QED BY <3>1, <3>2, <3>3 DEF HoldsTheListed
  <2> QED BY <2>4, <2>5 DEF GateInv
<1> QED BY <1>4, <1>5

LEMMA NextGate == GateInv /\ [GateNext]_gateVars => GateInv'
<1> SUFFICES ASSUME GateInv, [GateNext]_gateVars PROVE GateInv'
  OBVIOUS
<1>1. CASE UNCHANGED gateVars
  BY <1>1 DEF gateVars, GateInv, GateTypes, HoldsTheListed, Listed
<1>2. ASSUME NEW c \in Callers, Enters(c) PROVE GateInv'
  <2>1. GateTypes'
    BY <1>2 DEF Enters, Gone, GateInv, GateTypes, Listed
  <2>2. HoldsTheListed'
    BY <1>2 DEF Enters, Gone, Unlocked, GateInv, GateTypes, HoldsTheListed
  <2> QED BY <2>1, <2>2 DEF GateInv
<1>3. ASSUME NEW c \in Callers, Fetches(c) PROVE GateInv'
  <2>1. GateTypes'
    BY <1>3 DEF Fetches, Gone, GateInv, GateTypes, Listed
  <2>2. HoldsTheListed'
    BY <1>3 DEF Fetches, Gone, GateInv, GateTypes, HoldsTheListed
  <2> QED BY <2>1, <2>2 DEF GateInv
<1>4. ASSUME NEW s \in Slots, Ages(s) PROVE GateInv'
  BY <1>4 DEF Ages, GateInv, GateTypes, HoldsTheListed, Listed
<1> QED BY <1>1, <1>2, <1>3, <1>4, AcquiresStep DEF GateNext

(* Calls for the same source never fetch it at the same time, however often the table
   was full and let go of slots in between (acquisition_gate.rs, run). *)
THEOREM FetchesAreShared == GateSpec => []OneFetchAtATime
<1>1. GateInv => OneFetchAtATime
  BY DEF GateInv, HoldsTheListed, OneFetchAtATime
<1> QED BY InitGate, NextGate, <1>1, PTL DEF GateSpec
=============================================================================
