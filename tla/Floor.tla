-------------------------------- MODULE Floor --------------------------------
(***************************************************************************)
(* The floor of a room (session.rs, use-co-review.ts, session-clock.ts):   *)
(* the host hands the right to drive playback to a guest, every grant       *)
(* raises the epoch, and the host stamps each beat of the playback with the *)
(* epoch it relays it under.  Receivers keep the newest (epoch, seq) they   *)
(* took and refuse what is older.                                          *)
(*                                                                         *)
(* A beat is its sender's number; what it says about the playback, and that *)
(* a queued beat is replaced by its repetition, are left to other models.   *)
(***************************************************************************)
EXTENDS Naturals, FiniteSets, Sequences, SequencesExt

CONSTANTS
  Host, Guests,   \* the members of the room
  Slips,          \* the races admitted, see Races
  Beats,          \* bound: beats between taking the floor and losing it
  Grants,         \* bound: how often the floor is handed over
  Joins           \* bound: how often a guest comes in

\* "torn": a relay checks who presents and reads the epoch at two moments.
\* "late": a snapshot of the room taken before a grant reaches the host's page after it.
\* "overtaken": two commands of the host's page are carried out in the other order.
\* "hasty": the floor is handed on before the last grant has been heard of.
Races == {"torn", "late", "overtaken", "hasty"}

ASSUME FloorAssumption ==
  /\ Host \notin Guests /\ Slips \subseteq Races
  /\ {Beats, Grants, Joins} \subseteq Nat

Members == Guests \union {Host}
Unstamped == Grants + 1
NoBeat == [from |-> Host, epoch |-> 0, seq |-> 0]
Beat == [from : Members, epoch : 0 .. Unstamped, seq : 0 .. Beats]

\* The lines of a link: a beat, a grant, and the state the host's page is told.
BeatLine(beat) == [what |-> "beat", beat |-> beat]
GrantLine(member) == [what |-> "presenter", beat |-> [NoBeat EXCEPT !.from = member]]
StateLine(member) == [what |-> "state", beat |-> [NoBeat EXCEPT !.from = member]]

VARIABLES
  presenter, epoch,   \* the host's gate and its number (HostShared)
  present,            \* the guests in the roster
  joins,              \* how often each guest came in
  floor,              \* who presents, as each page believes
  seq,                \* coSeqRef of each page
  seen,               \* coLastSeqRef of each page
  player,             \* "loading", "loaded" but no beat heard since, "level"
  calls,              \* the commands of the host's page under way
  up,                 \* the beats of each guest on their way to the host
  relay,              \* the beat the host's task for each guest is relaying
  inbox               \* the lines on their way to each page

believedVars == <<floor, seq, seen, player>>
floorVars == <<presenter, epoch, present, joins, believedVars, calls, up, relay, inbox>>

Tell(members, line) ==
  inbox' = [m \in Members |-> IF m \in members THEN Append(inbox[m], line) ELSE inbox[m]]

\* A page that finds itself the presenter begins to count again.
Believes(m, member) ==
  /\ floor' = [floor EXCEPT ![m] = member]
  /\ seq' = IF member = m /\ floor[m] # m THEN [seq EXCEPT ![m] = 0] ELSE seq

-----------------------------------------------------------------------------
(* The pages *)

Speaks(m) == m = Host \/ m \in present

\* The half-second beat, or a command, of a page that believes it presents.
SendsBeat(m) ==
  /\ Speaks(m) /\ floor[m] = m /\ seq[m] < Beats
  /\ seq' = [seq EXCEPT ![m] = @ + 1]
  /\ IF m = Host
       THEN calls' = Append(calls, BeatLine([NoBeat EXCEPT !.seq = seq'[Host]])) /\ UNCHANGED up
       ELSE up' = [up EXCEPT ![m] = Append(@, seq'[m])] /\ UNCHANGED calls
  /\ UNCHANGED <<presenter, epoch, present, joins, floor, seen, player, relay, inbox>>

Lines(m, what) == {line \in ToSet(inbox[m]) : line.what = what}
GrantsUnderWay == {i \in DOMAIN calls : calls[i].what = "presenter"}

\* Everybody has heard of the last grant, and nothing sent before it is left.
Heard ==
  /\ GrantsUnderWay = {}
  /\ \A g \in present : Lines(g, "presenter") = {}
  /\ \A g \in Guests \ {presenter} : up[g] = <<>> /\ relay[g] = NoBeat

\* The host's page offers the floor to whoever is there and does not present.
Grant(g) ==
  /\ epoch + Cardinality(GrantsUnderWay) < Grants
  /\ g \in present /\ floor[Host] # g
  /\ "hasty" \in Slips \/ Heard
  /\ "late" \in Slips \/ Lines(Host, "state") = {}
  /\ Believes(Host, g)
  /\ calls' = Append(calls, GrantLine(g))
  /\ UNCHANGED <<presenter, epoch, present, joins, seen, player, up, relay, inbox>>

\* Mutant: the number alone decides.
AcceptsBySeq(last, beat, justLoaded) == beat.seq > last.seq \/ justLoaded

\* acceptTransport: nothing of an older epoch; within one, nothing that is not
\* newer, unless the player has only now loaded what is shown.
Accepts(last, beat, justLoaded) ==
  \/ beat.epoch > last.epoch
  \/ beat.epoch = last.epoch /\ (beat.seq > last.seq \/ justLoaded)

HearsBeat(m, beat) ==
  /\ player' = IF player[m] = "loaded" THEN [player EXCEPT ![m] = "level"] ELSE player
  /\ seen' = IF player[m] # "loading" /\ Accepts(seen[m], beat, player[m] = "loaded")
               THEN [seen EXCEPT ![m] = [epoch |-> beat.epoch, seq |-> beat.seq]] ELSE seen
  /\ UNCHANGED <<floor, seq>>

\* The next line of a page's link: a grant or a state moves the floor it believes in.
Hears(m) ==
  /\ inbox[m] # <<>>
  /\ inbox' = [inbox EXCEPT ![m] = Tail(@)]
  /\ LET line == Head(inbox[m]) IN
       IF line.what = "beat" THEN HearsBeat(m, line.beat)
       ELSE Believes(m, line.beat.from) /\ UNCHANGED <<seen, player>>
  /\ UNCHANGED <<presenter, epoch, present, joins, calls, up, relay>>

\* Another source is shown, and in time its player is ready.
Loading(m) ==
  /\ player' = [player EXCEPT ![m] = IF player[m] = "loading" THEN "loaded" ELSE "loading"]
  /\ UNCHANGED <<presenter, epoch, present, joins, floor, seq, seen, calls, up, relay, inbox>>

-----------------------------------------------------------------------------
(* The host *)

\* session_broadcast of a grant: the gate, the epoch and the line.
GrantGoesOut(g) ==
  /\ presenter' = g
  /\ epoch' = epoch + 1
  /\ Tell(present, GrantLine(g))

\* A command of the host's page is carried out; its own beats are not gated.
CarriesOut(i) ==
  /\ i = 1 \/ "overtaken" \in Slips
  /\ calls[i].what = "presenter" /\ "torn" \notin Slips =>
       \A g \in Guests : relay[g].epoch # Unstamped
  /\ calls' = RemoveAt(calls, i)
  /\ IF calls[i].what = "presenter" THEN GrantGoesOut(calls[i].beat.from)
     ELSE /\ Tell(present, BeatLine([calls[i].beat EXCEPT !.epoch = epoch]))
          /\ UNCHANGED <<presenter, epoch>>
  /\ UNCHANGED <<present, joins, believedVars, up, relay>>

\* The task of a guest reads a beat: it passes the gate or is dropped.
CanDrive(g) == presenter = g

RelayChecks(g) ==
  /\ relay[g] = NoBeat /\ up[g] # <<>>
  /\ up' = [up EXCEPT ![g] = Tail(@)]
  /\ relay' = IF CanDrive(g) THEN [relay EXCEPT ![g] = [from |-> g, epoch |-> Unstamped, seq |-> Head(up[g])]]
              ELSE relay
  /\ UNCHANGED <<presenter, epoch, present, joins, believedVars, calls, inbox>>

\* It is stamped and shown to the host's page.
RelayStamps(g) ==
  /\ relay[g].epoch = Unstamped
  /\ relay' = [relay EXCEPT ![g].epoch = epoch]
  /\ Tell({Host}, BeatLine(relay'[g]))
  /\ UNCHANGED <<presenter, epoch, present, joins, believedVars, calls, up>>

\* It is queued for the others.
RelayGives(g) ==
  /\ relay[g] # NoBeat /\ relay[g].epoch # Unstamped
  /\ Tell(present \ {g}, BeatLine(relay[g]))
  /\ relay' = [relay EXCEPT ![g] = NoBeat]
  /\ UNCHANGED <<presenter, epoch, present, joins, believedVars, calls, up>>

\* A guest comes in.  Its page believes that the host presents, whoever does,
\* and has heard no beat; the host's page is told the state of the room.
Enter(g) ==
  /\ g \notin present /\ joins[g] < Joins
  /\ up[g] = <<>> /\ relay[g] = NoBeat
  /\ present' = present \union {g}
  /\ joins' = [joins EXCEPT ![g] = @ + 1]
  /\ floor' = [floor EXCEPT ![g] = Host]
  /\ seq' = [seq EXCEPT ![g] = 0]
  /\ seen' = [seen EXCEPT ![g] = [epoch |-> 0, seq |-> 0]]
  /\ player' = [player EXCEPT ![g] = "loading"]
  /\ "late" \in Slips \/ GrantsUnderWay = {}
  /\ Tell({Host}, StateLine(presenter))
  /\ UNCHANGED <<presenter, epoch, calls, up, relay>>

\* A connection ends; the floor stays with who had it.
Leave(g) ==
  /\ g \in present
  /\ present' = present \ {g}
  /\ up' = [up EXCEPT ![g] = <<>>]
  /\ "late" \in Slips \/ GrantsUnderWay = {}
  /\ inbox' = [inbox EXCEPT ![g] = <<>>, ![Host] = Append(@, StateLine(presenter))]
  /\ UNCHANGED <<presenter, epoch, joins, believedVars, calls, relay>>

-----------------------------------------------------------------------------
(* Specification *)

FloorInit ==
  /\ presenter = Host /\ epoch = 0
  /\ present = {} /\ joins = [g \in Guests |-> 0]
  /\ floor = [m \in Members |-> Host]
  /\ seq = [m \in Members |-> 0]
  /\ seen = [m \in Members |-> [epoch |-> 0, seq |-> 0]]
  /\ player = [m \in Members |-> "loading"]
  /\ calls = <<>> /\ up = [g \in Guests |-> <<>>] /\ relay = [g \in Guests |-> NoBeat]
  /\ inbox = [m \in Members |-> <<>>]

FloorNext ==
  \/ \E m \in Members : SendsBeat(m) \/ Hears(m) \/ Loading(m)
  \/ \E g \in Guests : Grant(g) \/ Enter(g) \/ Leave(g)
  \/ \E i \in 1 .. Len(calls) : CarriesOut(i)
  \/ \E g \in Guests : RelayChecks(g) \/ RelayStamps(g) \/ RelayGives(g)

FloorSpec == FloorInit /\ [][FloorNext]_floorVars

-----------------------------------------------------------------------------
(* Properties *)

Line == [what : {"beat", "presenter", "state"}, beat : Beat]

FloorTypeOK ==
  /\ presenter \in Members /\ epoch \in 0 .. Grants
  /\ present \subseteq Guests /\ joins \in [Guests -> 0 .. Joins]
  /\ floor \in [Members -> Members] /\ seq \in [Members -> 0 .. Beats]
  /\ seen \in [Members -> [epoch : 0 .. Grants, seq : 0 .. Beats]]
  /\ player \in [Members -> {"loading", "loaded", "level"}]
  /\ calls \in Seq(Line) /\ up \in [Guests -> Seq(1 .. Beats)]
  /\ relay \in [Guests -> Beat] /\ inbox \in [Members -> Seq(Line)]

\* Whoever has the floor is heard: a beat it sent under the present epoch is
\* taken by every member whose player is ready, whatever that member has taken
\* from earlier holders (the frozen guest of session-clock.ts).
FromTheHolder(line) ==
  line.what = "beat" /\ line.beat.from = presenter /\ line.beat.epoch = epoch

HolderIsHeard ==
  [][\A m \in Members :
       Hears(m) /\ FromTheHolder(Head(inbox[m])) /\ player[m] # "loading" =>
         seen'[m] = [epoch |-> epoch, seq |-> Head(inbox[m]).beat.seq]]_floorVars

\* A member that has heard everything knows who has the floor.
PresenterIsKnown ==
  GrantsUnderWay = {} =>
    \A m \in present \union {Host} : inbox[m] = <<>> => floor[m] = presenter
==============================================================================
