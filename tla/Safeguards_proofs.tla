-------------------------- MODULE Safeguards_proofs --------------------------
(* Three machines of a live session, for instances of any size.  The floor: whoever
   has it is heard.  The program: a room's receivers end with it, and what the page
   shows as shared is what the room can fetch.  The queue of clip exports: a run is
   answered, and its rows say what is true. *)
EXTENDS Floor, NdiProgram, ClipQueue, FiniteSetTheorems, TLAPS

-----------------------------------------------------------------------------
(* Whoever has the floor is heard, for any number of guests, grants and beats,
   while none of the four slips happens. *)

Notices(m) == {i \in DOMAIN inbox[m] : inbox[m][i].what # "beat"}

\* Grants go to guests, one at a time and after every other command of the page;
\* the guest is not the presenter, and nothing of it or for it is under way.
GrantInv ==
  /\ presenter = Host <=> epoch = 0
  /\ GrantsUnderWay = {} => floor[Host] = presenter
  /\ \A i \in GrantsUnderWay : LET g == calls[i].beat.from IN
       /\ i = Len(calls) /\ epoch < Grants
       /\ g \in Guests /\ g = floor[Host] /\ g # presenter
       /\ up[g] = <<>> /\ relay[g] = NoBeat /\ (g \in present => floor[g] # g)
       /\ \A m \in Members : Notices(m) = {}

\* A notice names the presenter, a guest has at most one, and only a guest that
\* has one to hear believes in vain that it presents.
NoticeInv ==
  /\ \A m \in Members : \A i \in Notices(m) :
       /\ inbox[m][i].beat.from = presenter
       /\ inbox[m][i].what = IF m = Host THEN "state" ELSE "presenter"
  /\ \A g \in Guests :
       /\ g \notin present => inbox[g] = <<>> /\ up[g] = <<>>
       /\ \A i, j \in Notices(g) : i = j
       /\ g \in present /\ floor[g] = g /\ presenter # g => Notices(g) # {}

\* What is relayed for the presenter is of this epoch, for anybody else of an earlier one.
RelayInv ==
  \A g \in Guests : relay[g] # NoBeat =>
    /\ g # presenter => relay[g].epoch < epoch
    /\ g = presenter => relay[g].epoch \in {epoch, Unstamped}

\* The beats of this epoch that a page has yet to hear are in order, and newer
\* than the last it took.
Current(m) == {i \in DOMAIN inbox[m] : inbox[m][i].what = "beat" /\ inbox[m][i].beat.epoch = epoch}
Number(m, i) == inbox[m][i].beat.seq
OrderInv ==
  \A m \in Members :
    /\ seen[m].epoch <= epoch
    /\ \A i \in DOMAIN inbox[m] : inbox[m][i].what = "beat" => inbox[m][i].beat.epoch <= epoch
    /\ seen[m].epoch = epoch => \A i \in Current(m) : seen[m].seq < Number(m, i)
    /\ \A i, j \in Current(m) : i < j => Number(m, i) < Number(m, j)

\* What m has taken or has yet to hear of this epoch, and what is newer than that.
Numbers(m) ==
  {Number(m, i) : i \in Current(m)} \union IF seen[m].epoch = epoch THEN {seen[m].seq} ELSE {}
Newer(n) == \A m \in Members : \A k \in Numbers(m) : k < n

\* While the host presents, its beats are under way in order.
HostInv ==
  /\ \A i \in DOMAIN calls \ GrantsUnderWay :
       /\ presenter = Host /\ Newer(calls[i].beat.seq)
       /\ \A j \in DOMAIN calls \ GrantsUnderWay : j < i => calls[j].beat.seq < calls[i].beat.seq
       /\ floor[Host] = Host => calls[i].beat.seq <= seq[Host]
  /\ presenter = Host /\ floor[Host] = Host => Newer(seq[Host] + 1)

\* So are those of a guest that presents; one that has yet to hear of it has sent none.
GuestInv ==
  presenter # Host => LET g == presenter IN
    /\ \A i \in DOMAIN up[g] :
         /\ Newer(up[g][i])
         /\ \A j \in DOMAIN up[g] : j < i => up[g][j] < up[g][i]
         /\ relay[g] # NoBeat => relay[g].seq < up[g][i]
         /\ floor[g] = g => up[g][i] <= seq[g]
    /\ relay[g] # NoBeat =>
         /\ \A m \in Members : m # Host \/ relay[g].epoch = Unstamped =>
              \A k \in Numbers(m) : k < relay[g].seq
         /\ floor[g] = g => relay[g].seq <= seq[g]
    /\ floor[g] = g => Newer(seq[g] + 1)
    /\ Notices(g) # {} =>
         floor[g] # g /\ up[g] = <<>> /\ relay[g] = NoBeat /\ \A m \in Members : Numbers(m) = {}

\* The types, by what they are about.
GateTypes ==
  /\ presenter \in Members /\ epoch \in 0 .. Grants
  /\ present \subseteq Guests /\ joins \in [Guests -> 0 .. Joins]
BeliefTypes ==
  /\ floor \in [Members -> Members] /\ seq \in [Members -> 0 .. Beats]
  /\ seen \in [Members -> [epoch : 0 .. Grants, seq : 0 .. Beats]]
  /\ player \in [Members -> {"loading", "loaded", "level"}]
LinkTypes ==
  /\ calls \in Seq(Line) /\ up \in [Guests -> Seq(1 .. Beats)]
  /\ relay \in [Guests -> Beat] /\ inbox \in [Members -> Seq(Line)]
FloorTypes == GateTypes /\ BeliefTypes /\ LinkTypes

FloorInv ==
  /\ FloorTypes /\ GrantInv /\ NoticeInv /\ RelayInv
  /\ OrderInv /\ HostInv /\ GuestInv

-----------------------------------------------------------------------------
(* Lines and sequences *)

LEMMA TypesOfLines ==
  /\ NoBeat \in Beat /\ NoBeat.epoch = 0 /\ NoBeat.from = Host
  /\ \A b \in Beat : b.from \in Members /\ b.epoch \in 0 .. Unstamped /\ b.seq \in 0 .. Beats
  /\ \A l \in Line : l.what \in {"beat", "presenter", "state"} /\ l.beat \in Beat
  /\ \A b \in Beat : BeatLine(b) \in Line /\ BeatLine(b).what = "beat" /\ BeatLine(b).beat = b
  /\ \A m \in Members :
       /\ GrantLine(m) \in Line /\ GrantLine(m).what = "presenter" /\ GrantLine(m).beat.from = m
       /\ StateLine(m) \in Line /\ StateLine(m).what = "state" /\ StateLine(m).beat.from = m
<1>1. 0 \in 0 .. Unstamped /\ 0 \in 0 .. Beats /\ Host \in Members
  BY FloorAssumption DEF Unstamped, Members
<1>2. NoBeat \in Beat /\ NoBeat.epoch = 0 /\ NoBeat.from = Host
  BY <1>1 DEF NoBeat, Beat
<1>3. ASSUME NEW m \in Members
      PROVE  [NoBeat EXCEPT !.from = m] \in Beat /\ [NoBeat EXCEPT !.from = m].from = m
  BY <1>2 DEF Beat, NoBeat
<1> QED BY <1>2, <1>3 DEF Beat, Line, BeatLine, GrantLine, StateLine

LEMMA Appended ==
  ASSUME NEW T, NEW q \in Seq(T), NEW e \in T
  PROVE  /\ Append(q, e) \in Seq(T) /\ Len(Append(q, e)) = Len(q) + 1
         /\ \A i \in DOMAIN Append(q, e) :
              \/ i \in DOMAIN q /\ Append(q, e)[i] = q[i]
              \/ i = Len(q) + 1 /\ i \notin DOMAIN q /\ Append(q, e)[i] = e /\ \A j \in DOMAIN q : j < i
         /\ \A i \in DOMAIN q : i \in DOMAIN Append(q, e) /\ Append(q, e)[i] = q[i]
         /\ Len(q) + 1 \in DOMAIN Append(q, e) /\ Append(q, e)[Len(q) + 1] = e
OBVIOUS

LEMMA Shifted ==
  ASSUME NEW T, NEW q \in Seq(T), q # <<>>
  PROVE  /\ 1 \in DOMAIN q /\ q[1] \in T /\ Head(q) = q[1] /\ Tail(q) \in Seq(T)
         /\ \A i \in DOMAIN Tail(q) : i \in Nat /\ i >= 1 /\ i + 1 \in DOMAIN q /\ Tail(q)[i] = q[i + 1]
         /\ \A i \in DOMAIN q : i = 1 \/ (i - 1 \in DOMAIN Tail(q) /\ Tail(q)[i - 1] = q[i])
         /\ Len(q) \in Nat /\ Len(Tail(q)) = Len(q) - 1
<1>1. 1 \in DOMAIN q /\ q[1] \in T /\ Head(q) = q[1] /\ Tail(q) \in Seq(T)
  OBVIOUS
<1>2. Len(q) \in Nat /\ Len(Tail(q)) = Len(q) - 1
  OBVIOUS
<1>3. \A i \in DOMAIN Tail(q) : i \in Nat /\ i >= 1 /\ i + 1 \in DOMAIN q /\ Tail(q)[i] = q[i + 1]
  OBVIOUS
<1>4. ASSUME NEW i \in DOMAIN q, i # 1 PROVE i - 1 \in DOMAIN Tail(q) /\ Tail(q)[i - 1] = q[i]
  <2>1. i \in Nat /\ i > 1 /\ i <= Len(q) /\ i - 1 \in Nat /\ i - 1 + 1 = i
    BY <1>4
  <2>2. i - 1 \in DOMAIN Tail(q)
    BY <1>1, <1>2, <2>1
  <2> QED BY <1>3, <2>1, <2>2
<1> QED BY <1>1, <1>2, <1>3, <1>4

\* A line that is told is the last of its link; the others stay as they are.
LEMMA TellAppends ==
  ASSUME LinkTypes, NEW S, NEW line \in Line, Tell(S, line), NEW m \in Members
  PROVE  /\ inbox'[m] \in Seq(Line) /\ (m \notin S => inbox'[m] = inbox[m])
         /\ \A i \in DOMAIN inbox'[m] :
              \/ i \in DOMAIN inbox[m] /\ inbox'[m][i] = inbox[m][i]
              \/ /\ m \in S /\ i = Len(inbox[m]) + 1 /\ i \notin DOMAIN inbox[m]
                 /\ inbox'[m][i] = line /\ \A j \in DOMAIN inbox[m] : j < i
         /\ \A i \in DOMAIN inbox[m] : i \in DOMAIN inbox'[m] /\ inbox'[m][i] = inbox[m][i]
         /\ m \in S => /\ Len(inbox[m]) + 1 \in DOMAIN inbox'[m]
                       /\ inbox'[m][Len(inbox[m]) + 1] = line
<1>1. inbox[m] \in Seq(Line)
  BY DEF LinkTypes
<1>2. CASE m \in S
  <2>1. inbox'[m] = Append(inbox[m], line)
    BY <1>2 DEF Tell
  <2> QED BY <1>1, <1>2, <2>1, Appended
<1>3. CASE m \notin S
  <2>1. inbox'[m] = inbox[m]
    BY <1>3 DEF Tell
  <2> QED BY <1>1, <1>3, <2>1
<1> QED BY <1>2, <1>3

LEMMA TellTypes ==
  ASSUME LinkTypes, NEW S, NEW line \in Line, Tell(S, line) PROVE inbox' \in [Members -> Seq(Line)]
<1>1. \A m \in Members : inbox'[m] \in Seq(Line)
  BY TellAppends
<1> QED BY <1>1 DEF Tell

LEMMA NoticesTold ==
  ASSUME LinkTypes, NEW S, NEW line \in Line, Tell(S, line), NEW m \in Members
  PROVE  /\ \A i \in Notices(m) : inbox'[m][i] = inbox[m][i]
         /\ line.what = "beat" => Notices(m)' = Notices(m)
         /\ line.what # "beat" =>
              /\ Notices(m)' = Notices(m) \union IF m \in S THEN {Len(inbox[m]) + 1} ELSE {}
              /\ m \in S => inbox'[m][Len(inbox[m]) + 1] = line
BY TellAppends DEF Notices

LEMMA InNumbers ==
  ASSUME NEW m
  PROVE  /\ \A i \in Current(m) : Number(m, i) \in Numbers(m)
         /\ seen[m].epoch = epoch => seen[m].seq \in Numbers(m)
         /\ \A k \in Numbers(m) :
              (\E i \in Current(m) : k = Number(m, i)) \/ (seen[m].epoch = epoch /\ k = seen[m].seq)
BY DEF Numbers

LEMMA NumbersAreNat ==
  ASSUME FloorTypes PROVE \A m \in Members : \A k \in Numbers(m) : k \in Nat
<1> SUFFICES ASSUME NEW m \in Members, NEW k \in Numbers(m) PROVE k \in Nat
  OBVIOUS
<1>1. ASSUME NEW i \in Current(m) PROVE Number(m, i) \in Nat
  <2>1. inbox[m] \in Seq(Line) /\ i \in DOMAIN inbox[m]
    BY <1>1 DEF FloorTypes, LinkTypes, Current
  <2>2. inbox[m][i] \in Line
    BY <2>1
  <2> QED BY <2>2, TypesOfLines, FloorAssumption DEF Number
<1>2. seen[m].seq \in Nat
  BY FloorAssumption DEF FloorTypes, BeliefTypes
<1> QED BY <1>1, <1>2, InNumbers

\* Only a beat of this epoch adds to the numbers, and only its own.
LEMMA NumbersTold ==
  ASSUME LinkTypes, NEW S, NEW line \in Line, Tell(S, line), NEW m \in Members, UNCHANGED <<epoch, seen>>
  PROVE  Numbers(m)' \subseteq Numbers(m) \union
           IF m \in S /\ line.what = "beat" /\ line.beat.epoch = epoch THEN {line.beat.seq} ELSE {}
<1> SUFFICES ASSUME NEW k \in Numbers(m)'
             PROVE  \/ k \in Numbers(m)
                    \/ m \in S /\ line.what = "beat" /\ line.beat.epoch = epoch /\ k = line.beat.seq
  OBVIOUS
<1>1. CASE seen[m].epoch = epoch /\ k = seen[m].seq
  BY <1>1, InNumbers
<1>2. CASE \E i \in Current(m)' : k = Number(m, i)'
  <2>1. PICK i \in Current(m)' : k = inbox'[m][i].beat.seq
    BY <1>2 DEF Number
  <2>2. i \in DOMAIN inbox'[m] /\ inbox'[m][i].what = "beat" /\ inbox'[m][i].beat.epoch = epoch
    BY <2>1 DEF Current
  <2>3. CASE i \in DOMAIN inbox[m] /\ inbox'[m][i] = inbox[m][i]
    <3>1. i \in Current(m) /\ k = Number(m, i)
      BY <2>1, <2>2, <2>3 DEF Number, Current
    <3> QED BY <3>1, InNumbers
  <2>4. CASE m \in S /\ inbox'[m][i] = line
    BY <2>1, <2>2, <2>4
  <2> QED BY <2>2, <2>3, <2>4, TellAppends
<1> QED BY <1>1, <1>2 DEF Numbers

LEMMA OrderTold ==
  ASSUME FloorTypes, OrderInv, NEW S \in SUBSET Members, NEW line \in Line, Tell(S, line), UNCHANGED <<epoch, seen>>,
         line.what = "beat" =>
           /\ line.beat.epoch <= epoch
           /\ line.beat.epoch = epoch => \A m \in S : \A k \in Numbers(m) : k < line.beat.seq
  PROVE  OrderInv'
<1> SUFFICES ASSUME NEW m \in Members
             PROVE  /\ seen[m].epoch <= epoch
                    /\ \A i \in DOMAIN inbox'[m] : inbox'[m][i].what = "beat" => inbox'[m][i].beat.epoch <= epoch
                    /\ seen[m].epoch = epoch => \A i \in Current(m)' : seen[m].seq < inbox'[m][i].beat.seq
                    /\ \A i, j \in Current(m)' : i < j => inbox'[m][i].beat.seq < inbox'[m][j].beat.seq
  BY DEF OrderInv, Number
<1>0. LinkTypes
  BY DEF FloorTypes
<1>1. \A i \in DOMAIN inbox'[m] :
        \/ i \in DOMAIN inbox[m] /\ inbox'[m][i] = inbox[m][i]
        \/ m \in S /\ inbox'[m][i] = line /\ i \notin DOMAIN inbox[m] /\ \A j \in DOMAIN inbox[m] : j < i
  BY <1>0, TellAppends
<1>2. \A i \in DOMAIN inbox'[m] : inbox'[m][i].what = "beat" => inbox'[m][i].beat.epoch <= epoch
  BY <1>1 DEF OrderInv
<1>3. \A i \in Current(m)' :
        \/ i \in Current(m) /\ inbox'[m][i] = inbox[m][i]
        \/ /\ m \in S /\ inbox'[m][i] = line /\ line.what = "beat" /\ line.beat.epoch = epoch
           /\ i \notin DOMAIN inbox[m] /\ \A j \in DOMAIN inbox[m] : j < i
  BY <1>1 DEF Current
<1>4. ASSUME NEW i \in Current(m)', seen[m].epoch = epoch PROVE seen[m].seq < inbox'[m][i].beat.seq
  <2>1. CASE i \in Current(m) /\ inbox'[m][i] = inbox[m][i]
    BY <1>4, <2>1 DEF OrderInv, Number
  <2>2. seen[m].seq \in Numbers(m)
    BY <1>4 DEF Numbers
  <2> QED BY <1>3, <1>4, <2>1, <2>2
<1>5. ASSUME NEW i \in Current(m)', NEW j \in Current(m)', i < j
      PROVE  inbox'[m][i].beat.seq < inbox'[m][j].beat.seq
  <2>0. i \in Nat /\ j \in Nat
    <3>1. inbox'[m] \in Seq(Line)
      BY <1>0, TellAppends
    <3> QED BY <3>1 DEF Current
  <2>1. CASE i \in Current(m) /\ inbox'[m][i] = inbox[m][i]
    <3>1. CASE j \in Current(m) /\ inbox'[m][j] = inbox[m][j]
      BY <1>5, <2>1, <3>1 DEF OrderInv, Number
    <3>2. inbox[m][i].beat.seq \in Numbers(m)
      BY <2>1 DEF Numbers, Number
    <3> QED BY <1>3, <2>1, <3>1, <3>2
  <2>2. CASE ~(i \in Current(m) /\ inbox'[m][i] = inbox[m][i])
    <3>1. \A l \in DOMAIN inbox[m] : l < i
      BY <1>3, <2>2
    <3>2. \A l \in DOMAIN inbox'[m] : l <= i
      <4>1. inbox[m] \in Seq(Line) /\ inbox'[m] \in Seq(Line)
        BY <1>0, TellAppends DEF LinkTypes
      <4>2. \A l \in DOMAIN inbox'[m] : l \in DOMAIN inbox[m] \/ l = Len(inbox[m]) + 1
        BY <1>0, TellAppends
      <4>3. i = Len(inbox[m]) + 1
        BY <1>0, <2>2, <3>1, TellAppends DEF Current
      <4> QED BY <2>0, <3>1, <4>1, <4>2, <4>3
    <3>3. j <= i
      BY <3>2 DEF Current
    <3> QED BY <1>5, <2>0, <3>3
  <2> QED BY <2>1, <2>2
<1> QED BY <1>2, <1>4, <1>5 DEF OrderInv

-----------------------------------------------------------------------------
(* What a page hears *)

LEMMA HearsTail ==
  ASSUME LinkTypes, NEW m \in Members, Hears(m)
  PROVE  /\ 1 \in DOMAIN inbox[m] /\ inbox[m][1] \in Line /\ Head(inbox[m]) = inbox[m][1]
         /\ inbox' \in [Members -> Seq(Line)]
         /\ \A x \in Members : x # m => inbox'[x] = inbox[x]
         /\ \A i \in DOMAIN inbox'[m] :
              i \in Nat /\ i >= 1 /\ i + 1 \in DOMAIN inbox[m] /\ inbox'[m][i] = inbox[m][i + 1]
         /\ \A i \in DOMAIN inbox[m] : i = 1 \/ (i - 1 \in DOMAIN inbox'[m] /\ inbox'[m][i - 1] = inbox[m][i])
<1>1. inbox[m] \in Seq(Line) /\ inbox[m] # <<>> /\ inbox' = [inbox EXCEPT ![m] = Tail(@)]
  BY DEF LinkTypes, Hears
<1>2. Tail(inbox[m]) \in Seq(Line) /\ inbox'[m] = Tail(inbox[m])
  BY <1>1, Shifted DEF LinkTypes
<1>3. inbox' \in [Members -> Seq(Line)] /\ \A x \in Members : x # m => inbox'[x] = inbox[x]
  BY <1>1, <1>2 DEF LinkTypes
<1> QED BY <1>1, <1>2, <1>3, Shifted

LEMMA NoticesHeard ==
  ASSUME LinkTypes, NEW m \in Members, Hears(m)
  PROVE  /\ \A x \in Members : x # m => Notices(x)' = Notices(x)
         /\ \A i \in Notices(m)' : i \in Nat /\ i >= 1 /\ i + 1 \in Notices(m) /\ inbox'[m][i] = inbox[m][i + 1]
         /\ inbox[m][1].what = "beat" => \A i \in Notices(m) : i - 1 \in Notices(m)'
<1>1. \A x \in Members : x # m => Notices(x)' = Notices(x)
  BY HearsTail DEF Notices
<1>2. \A i \in Notices(m)' : i \in Nat /\ i >= 1 /\ i + 1 \in Notices(m) /\ inbox'[m][i] = inbox[m][i + 1]
  BY HearsTail DEF Notices
<1>3. inbox[m][1].what = "beat" => \A i \in Notices(m) : i - 1 \in Notices(m)'
  BY HearsTail DEF Notices
<1> QED BY <1>1, <1>2, <1>3

LEMMA SeenAfter ==
  ASSUME FloorTypes, NEW m \in Members, Hears(m)
  PROVE  /\ seen' \in [Members -> [epoch : Nat, seq : 0 .. Beats]]
         /\ \A x \in Members : x # m => seen'[x] = seen[x]
         /\ \/ seen' = seen
            \/ /\ inbox[m][1].what = "beat" /\ seen[m].epoch <= inbox[m][1].beat.epoch
               /\ seen'[m].epoch = inbox[m][1].beat.epoch /\ seen'[m].seq = inbox[m][1].beat.seq
<1>1. LinkTypes /\ seen \in [Members -> [epoch : 0 .. Grants, seq : 0 .. Beats]]
  BY DEF FloorTypes, BeliefTypes
<1>2. Head(inbox[m]) = inbox[m][1] /\ inbox[m][1] \in Line
  BY <1>1, HearsTail
<1> DEFINE b == inbox[m][1].beat
<1>3. b.epoch \in Nat /\ b.seq \in 0 .. Beats
  BY <1>2, TypesOfLines, FloorAssumption DEF Unstamped
<1>4. seen[m].epoch \in Nat
  BY <1>1
<1>5. \/ seen' = seen
      \/ /\ inbox[m][1].what = "beat" /\ seen[m].epoch <= b.epoch
         /\ seen' = [seen EXCEPT ![m] = [epoch |-> b.epoch, seq |-> b.seq]]
  BY <1>2, <1>3, <1>4 DEF Hears, HearsBeat, Accepts
<1>6. seen \in [Members -> [epoch : Nat, seq : 0 .. Beats]]
  BY <1>1
<1> QED BY <1>3, <1>5, <1>6

LEMMA NumbersHeard ==
  ASSUME FloorTypes, NEW m \in Members, Hears(m), NEW x \in Members
  PROVE  Numbers(x)' \subseteq Numbers(x)
<1>1. LinkTypes /\ epoch' = epoch
  BY DEF FloorTypes, Hears
<1>2. CASE x # m
  <2>1. inbox'[x] = inbox[x] /\ seen'[x] = seen[x]
    BY <1>1, <1>2, HearsTail, SeenAfter
  <2> QED BY <1>1, <2>1 DEF Numbers, Current, Number
<1>3. CASE x = m
  <2> SUFFICES ASSUME NEW k \in Numbers(m)' PROVE k \in Numbers(m)
    BY <1>3
  <2>1. CASE \E i \in Current(m)' : k = Number(m, i)'
    <3>1. PICK i \in Current(m)' : k = inbox'[m][i].beat.seq
      BY <2>1 DEF Number
    <3>2. i + 1 \in DOMAIN inbox[m] /\ inbox'[m][i] = inbox[m][i + 1]
      BY <1>1, <3>1, HearsTail DEF Current
    <3>3. i + 1 \in Current(m) /\ k = Number(m, i + 1)
      BY <1>1, <3>1, <3>2 DEF Current, Number
    <3> QED BY <3>3, InNumbers
  <2>2. CASE seen'[m].epoch = epoch /\ k = seen'[m].seq
    <3>1. CASE seen' = seen
      BY <2>2, <3>1, InNumbers
    <3>2. CASE /\ inbox[m][1].what = "beat" /\ seen'[m].epoch = inbox[m][1].beat.epoch
               /\ seen'[m].seq = inbox[m][1].beat.seq
      <4>1. 1 \in Current(m) /\ k = Number(m, 1)
        BY <1>1, <2>2, <3>2, HearsTail DEF Current, Number
      <4> QED BY <4>1, InNumbers
    <3> QED BY <3>1, <3>2, SeenAfter
  <2> QED BY <1>1, <2>1, <2>2 DEF Numbers
<1> QED BY <1>2, <1>3

LEMMA OrderHeard ==
  ASSUME FloorTypes, OrderInv, NEW m \in Members, Hears(m) PROVE OrderInv'
<1>1. LinkTypes /\ epoch' = epoch
  BY DEF FloorTypes, Hears
<1> SUFFICES ASSUME NEW x \in Members
             PROVE  /\ seen'[x].epoch <= epoch
                    /\ \A i \in DOMAIN inbox'[x] : inbox'[x][i].what = "beat" => inbox'[x][i].beat.epoch <= epoch
                    /\ seen'[x].epoch = epoch => \A i \in Current(x)' : seen'[x].seq < inbox'[x][i].beat.seq
                    /\ \A i, j \in Current(x)' : i < j => inbox'[x][i].beat.seq < inbox'[x][j].beat.seq
  BY <1>1 DEF OrderInv, Number
<1>2. CASE x # m
  <2>1. inbox'[x] = inbox[x] /\ seen'[x] = seen[x]
    BY <1>1, <1>2, HearsTail, SeenAfter
  <2>2. Current(x)' = Current(x)
    BY <1>1, <2>1 DEF Current
  <2> QED BY <2>1, <2>2 DEF OrderInv, Number
<1>3. CASE x = m
  <2>1. \A i \in DOMAIN inbox'[m] :
          i \in Nat /\ i >= 1 /\ i + 1 \in DOMAIN inbox[m] /\ inbox'[m][i] = inbox[m][i + 1]
    BY <1>1, HearsTail
  <2>2. \A i \in Current(m)' : i \in Nat /\ i >= 1 /\ i + 1 \in Current(m) /\ inbox'[m][i] = inbox[m][i + 1]
    BY <1>1, <2>1 DEF Current
  <2>3. \A i, j \in Current(m)' : i < j => inbox'[m][i].beat.seq < inbox'[m][j].beat.seq
    BY <2>2 DEF OrderInv, Number
  <2>4. \A i \in DOMAIN inbox'[m] : inbox'[m][i].what = "beat" => inbox'[m][i].beat.epoch <= epoch
    BY <2>1 DEF OrderInv
  <2>5. CASE seen' = seen
    BY <1>3, <2>2, <2>3, <2>4, <2>5 DEF OrderInv, Number
  <2>6. CASE /\ inbox[m][1].what = "beat" /\ seen'[m].epoch = inbox[m][1].beat.epoch
             /\ seen'[m].seq = inbox[m][1].beat.seq
    <3>1. 1 \in DOMAIN inbox[m] /\ seen'[m].epoch <= epoch
      BY <1>1, <2>6, HearsTail DEF OrderInv
    <3>2. ASSUME seen'[m].epoch = epoch, NEW i \in Current(m)' PROVE seen'[m].seq < inbox'[m][i].beat.seq
      <4>1. 1 \in Current(m) /\ Number(m, 1) = seen'[m].seq
        BY <2>6, <3>1, <3>2 DEF Current, Number
      <4>2. i + 1 \in Current(m) /\ 1 < i + 1 /\ Number(m, i + 1) = inbox'[m][i].beat.seq
        BY <2>2, <3>2 DEF Number
      <4> QED BY <4>1, <4>2 DEF OrderInv
    <3> QED BY <1>3, <2>3, <2>4, <3>1, <3>2
  <2> QED BY <2>5, <2>6, SeenAfter
<1> QED BY <1>2, <1>3

-----------------------------------------------------------------------------
(* What most steps leave alone *)

LEMMA GrantQuiet ==
  ASSUME GrantInv, UNCHANGED <<presenter, epoch, calls>>, floor'[Host] = floor[Host],
         \/ GrantsUnderWay = {}
         \/ /\ \A m \in Members : Notices(m) = {} => Notices(m)' = {}
            /\ \A g \in Guests : up[g] = <<>> /\ relay[g] = NoBeat /\ (g \in present => floor[g] # g) =>
                 up'[g] = <<>> /\ relay'[g] = NoBeat /\ (g \in present' => floor'[g] # g)
  PROVE  GrantInv'
<1>1. GrantsUnderWay' = GrantsUnderWay
  BY DEF GrantsUnderWay
<1>2. CASE GrantsUnderWay = {}
  BY <1>1, <1>2 DEF GrantInv
<1>3. CASE GrantsUnderWay # {}
  BY <1>1, <1>3 DEF GrantInv
<1> QED BY <1>2, <1>3

LEMMA HostQuiet ==
  ASSUME HostInv, UNCHANGED <<presenter, calls>>, floor'[Host] = floor[Host], seq'[Host] = seq[Host],
         \A m \in Members : Numbers(m)' \subseteq Numbers(m)
  PROVE  HostInv'
<1>0. GrantsUnderWay' = GrantsUnderWay
  BY DEF GrantsUnderWay
<1>1. ASSUME NEW i \in DOMAIN calls \ GrantsUnderWay
      PROVE  \A m \in Members : \A k \in Numbers(m)' : k < calls[i].beat.seq
  BY <1>1 DEF HostInv, Newer
<1>2. presenter = Host /\ floor[Host] = Host =>
        \A m \in Members : \A k \in Numbers(m)' : k < seq[Host] + 1
  BY DEF HostInv, Newer
<1> QED BY <1>0, <1>1, <1>2 DEF HostInv, Newer

LEMMA GuestQuiet ==
  ASSUME GuestInv, presenter' = presenter, up'[presenter] \in {up[presenter], <<>>},
         relay'[presenter] = relay[presenter],
         floor'[presenter] = floor[presenter], seq'[presenter] = seq[presenter],
         \A m \in Members : Numbers(m)' \subseteq Numbers(m),
         Notices(presenter)' # {} => Notices(presenter) # {}
  PROVE  GuestInv'
<1> DEFINE g == presenter
<1>1. CASE presenter = Host
  BY <1>1 DEF GuestInv
<1>2. CASE presenter # Host
  <2>0. ASSUME NEW i \in DOMAIN up'[g] PROVE i \in DOMAIN up[g] /\ up'[g] = up[g]
    <3>1. DOMAIN <<>> = {}
      OBVIOUS
    <3> QED BY <2>0, <3>1
  <2>1. ASSUME NEW i \in DOMAIN up'[g] PROVE \A m \in Members : \A k \in Numbers(m)' : k < up[g][i]
    BY <1>2, <2>0 DEF GuestInv, Newer
  <2>2. relay[g] # NoBeat =>
         \A m \in Members : m # Host \/ relay[g].epoch = Unstamped =>
           \A k \in Numbers(m)' : k < relay[g].seq
    BY <1>2 DEF GuestInv
  <2>3. floor[g] = g => \A m \in Members : \A k \in Numbers(m)' : k < seq[g] + 1
    BY <1>2 DEF GuestInv, Newer
  <2>4. Notices(g)' # {} =>
         floor[g] # g /\ up[g] = <<>> /\ relay[g] = NoBeat /\ \A m \in Members : Numbers(m)' = {}
    BY <1>2 DEF GuestInv
  <2>5. ASSUME NEW i \in DOMAIN up'[g]
        PROVE  /\ \A j \in DOMAIN up'[g] : j < i => up'[g][j] < up'[g][i]
               /\ relay[g] # NoBeat => relay[g].seq < up'[g][i]
               /\ floor[g] = g => up'[g][i] <= seq[g]
    BY <1>2, <2>0 DEF GuestInv
  <2>6. up[g] = <<>> => up'[g] = <<>>
    OBVIOUS
  <2> QED BY <1>2, <2>0, <2>1, <2>2, <2>3, <2>4, <2>5, <2>6 DEF GuestInv, Newer
<1> QED BY <1>1, <1>2

\* The links and what was taken stand, and so does what is read off them.
LEMMA LinksStand ==
  ASSUME UNCHANGED <<epoch, seen, inbox>>
  PROVE  /\ \A m : Numbers(m)' = Numbers(m) /\ Notices(m)' = Notices(m)
         /\ OrderInv => OrderInv'
BY DEF Numbers, Current, Number, Notices, OrderInv

\* A grant under way is not the host's any more, nor about the presenter.
LEMMA HostBelief ==
  ASSUME FloorInv, floor[Host] = Host PROVE GrantsUnderWay = {} /\ presenter = Host
BY FloorAssumption DEF FloorInv, GrantInv

LEMMA HostIsNoGuest == Host \in Members /\ Host \notin Guests /\ Guests \subseteq Members
                        /\ \A m \in Members : m = Host \/ m \in Guests
BY FloorAssumption DEF Members

-----------------------------------------------------------------------------
(* The steps *)

LEMMA HostSends ==
  ASSUME FloorInv, SendsBeat(Host) PROVE FloorInv'
<1> DEFINE line == BeatLine([NoBeat EXCEPT !.seq = seq'[Host]])
<1>1. /\ floor[Host] = Host /\ seq[Host] < Beats /\ seq' = [seq EXCEPT ![Host] = @ + 1]
      /\ calls' = Append(calls, line)
      /\ UNCHANGED <<presenter, epoch, present, joins, floor, seen, player, up, relay, inbox>>
  BY DEF SendsBeat
<1>2. seq' \in [Members -> 0 .. Beats] /\ seq'[Host] = seq[Host] + 1 /\ seq[Host] \in 0 .. Beats
  BY <1>1, HostIsNoGuest, FloorAssumption DEF FloorInv, FloorTypes, BeliefTypes
<1>3. line \in Line /\ line.what = "beat" /\ line.beat.from = Host /\ line.beat.seq = seq[Host] + 1
  <2>1. [NoBeat EXCEPT !.seq = seq'[Host]] \in Beat
        /\ [NoBeat EXCEPT !.seq = seq'[Host]].seq = seq'[Host]
        /\ [NoBeat EXCEPT !.seq = seq'[Host]].from = Host
    BY <1>2, HostIsNoGuest, TypesOfLines DEF Beat, NoBeat
  <2> QED BY <1>2, <2>1, TypesOfLines
<1> HIDE DEF line
<1>4. presenter = Host /\ GrantsUnderWay = {}
  BY <1>1, HostBelief
<1>5. calls \in Seq(Line) /\ calls' \in Seq(Line) /\
      \A i \in DOMAIN calls' : \/ i \in DOMAIN calls /\ calls'[i] = calls[i]
                               \/ /\ i = Len(calls) + 1 /\ i \notin DOMAIN calls /\ calls'[i] = line
                                  /\ \A j \in DOMAIN calls : j < i
  BY <1>1, <1>3, Appended DEF FloorInv, FloorTypes, LinkTypes
<1>6. FloorTypes'
  BY <1>1, <1>2, <1>5 DEF FloorInv, FloorTypes, GateTypes, BeliefTypes, LinkTypes
<1>7. GrantInv'
  <2>1. GrantsUnderWay' = {}
    BY <1>3, <1>4, <1>5 DEF GrantsUnderWay
  <2> QED BY <1>1, <1>4, <2>1 DEF GrantInv, FloorInv
<1>8. NoticeInv' /\ RelayInv' /\ OrderInv'
  BY <1>1, LinksStand DEF FloorInv, NoticeInv, Notices, RelayInv
<1>9. HostInv'
  <2>1. \A m \in Members : Numbers(m)' = Numbers(m)
    BY <1>1, LinksStand
  <2>2. Newer(seq[Host] + 1)
    BY <1>1, <1>4 DEF FloorInv, HostInv
  <2>3. \A m \in Members : \A k \in Numbers(m) : k < seq[Host] + 1
    BY <2>2 DEF Newer
  <2>0. \A i \in DOMAIN calls : i \in DOMAIN calls \ GrantsUnderWay
    BY <1>4
  <2>4. ASSUME NEW i \in DOMAIN calls'
        PROVE  /\ \A m \in Members : \A k \in Numbers(m) : k < calls'[i].beat.seq
               /\ calls'[i].beat.seq <= seq[Host] + 1
    <3>1. CASE i \in DOMAIN calls /\ calls'[i] = calls[i]
      <4>1. calls[i].beat.seq \in Nat
        BY <1>5, <3>1, TypesOfLines, FloorAssumption
      <4> QED BY <1>1, <1>2, <2>0, <3>1, <4>1 DEF FloorInv, HostInv, Newer
    <3>2. CASE calls'[i] = line
      BY <1>2, <1>3, <1>4, <2>3, <3>2
    <3> QED BY <1>5, <3>1, <3>2
  <2>5. ASSUME NEW i \in DOMAIN calls', NEW j \in DOMAIN calls', j < i
        PROVE  calls'[j].beat.seq < calls'[i].beat.seq
    <3>0. j \in DOMAIN calls /\ calls'[j] = calls[j]
      BY <1>5, <2>5
    <3>1. CASE i \in DOMAIN calls /\ calls'[i] = calls[i]
      BY <2>0, <2>5, <3>0, <3>1 DEF FloorInv, HostInv
    <3>2. CASE calls'[i] = line
      <4>1. calls[j].beat.seq <= seq[Host] /\ calls[j].beat.seq \in Nat
        BY <1>1, <1>5, <2>0, <3>0, TypesOfLines, FloorAssumption DEF FloorInv, HostInv
      <4> QED BY <1>2, <1>3, <3>0, <3>2, <4>1
    <3> QED BY <1>5, <3>1, <3>2
  <2>6. \A m \in Members : \A k \in Numbers(m) : k < seq'[Host] + 1
    <3>1. \A m \in Members : \A k \in Numbers(m) : k \in Nat
      BY NumbersAreNat DEF FloorInv
    <3> QED BY <1>2, <2>3, <3>1
  <2> QED BY <1>1, <1>2, <1>4, <2>1, <2>4, <2>5, <2>6 DEF HostInv, Newer
<1>10. GuestInv'
  BY <1>1, <1>4 DEF GuestInv
<1> QED BY <1>6, <1>7, <1>8, <1>9, <1>10 DEF FloorInv

LEMMA GuestSends ==
  ASSUME FloorInv, NEW g \in Guests, SendsBeat(g) PROVE FloorInv'
<1>1. /\ floor[g] = g /\ g \in present /\ seq[g] < Beats /\ seq' = [seq EXCEPT ![g] = @ + 1]
      /\ up' = [up EXCEPT ![g] = Append(@, seq'[g])]
      /\ UNCHANGED <<presenter, epoch, present, joins, floor, seen, player, calls, relay, inbox>>
  BY HostIsNoGuest DEF SendsBeat, Speaks
<1>2. /\ seq' \in [Members -> 0 .. Beats] /\ seq'[g] = seq[g] + 1 /\ seq[g] \in 0 .. Beats
      /\ seq'[g] \in 1 .. Beats /\ seq'[Host] = seq[Host] /\ \A h \in Guests : h # g => seq'[h] = seq[h]
  BY <1>1, HostIsNoGuest, FloorAssumption DEF FloorInv, FloorTypes, BeliefTypes
<1>3. /\ up[g] \in Seq(1 .. Beats) /\ up'[g] = Append(up[g], seq[g] + 1)
      /\ \A h \in Guests : h # g => up'[h] = up[h]
  BY <1>1, <1>2 DEF FloorInv, FloorTypes, LinkTypes
<1>4. /\ up'[g] \in Seq(1 .. Beats)
      /\ \A i \in DOMAIN up'[g] : \/ i \in DOMAIN up[g] /\ up'[g][i] = up[g][i]
                                  \/ /\ i \notin DOMAIN up[g] /\ up'[g][i] = seq[g] + 1
                                     /\ i = Len(up[g]) + 1 /\ \A j \in DOMAIN up[g] : j < i
  BY <1>2, <1>3, Appended
<1>5. FloorTypes'
  <2>1. up' \in [Guests -> Seq(1 .. Beats)]
    BY <1>1, <1>3, <1>4 DEF FloorInv, FloorTypes, LinkTypes
  <2> QED BY <1>1, <1>2, <2>1 DEF FloorInv, FloorTypes, GateTypes, BeliefTypes, LinkTypes
<1>6. GrantInv'
  <2>1. \A h \in Guests : up[h] = <<>> /\ relay[h] = NoBeat /\ (h \in present => floor[h] # h) => up'[h] = <<>>
    BY <1>1, <1>3
  <2> QED BY <1>1, <2>1, GrantQuiet, LinksStand DEF FloorInv
<1>7. NoticeInv' /\ RelayInv' /\ OrderInv'
  <2>1. \A h \in Guests : h \notin present => up'[h] = up[h]
    BY <1>1, <1>3
  <2> QED BY <1>1, <2>1, LinksStand DEF FloorInv, NoticeInv, Notices, RelayInv
<1>8. HostInv'
  BY <1>1, <1>2, HostQuiet, LinksStand DEF FloorInv
<1>9. GuestInv'
  <2>1. CASE presenter # g /\ presenter # Host
    <3>1. presenter \in Guests
      BY <2>1, HostIsNoGuest DEF FloorInv, FloorTypes, GateTypes
    <3> QED BY <1>1, <1>2, <1>3, <2>1, <3>1, GuestQuiet, LinksStand DEF FloorInv
  <2>2. CASE presenter = Host
    BY <1>1, <2>2 DEF GuestInv
  <2>3. CASE presenter = g
    <3>1. \A m \in Members : Numbers(m)' = Numbers(m) /\ Notices(m)' = Notices(m)
      BY <1>1, LinksStand
    <3>2. g # Host /\ GuestInv
      BY HostIsNoGuest DEF FloorInv
    <3>3. \A m \in Members : \A k \in Numbers(m) : k < seq[g] + 1
      BY <1>1, <2>3, <3>2 DEF GuestInv, Newer
    <3>4. ASSUME NEW i \in DOMAIN up'[g]
          PROVE  /\ \A m \in Members : \A k \in Numbers(m) : k < up'[g][i]
                 /\ relay[g] # NoBeat => relay[g].seq < up'[g][i]
                 /\ up'[g][i] <= seq'[g]
      <4>1. CASE i \in DOMAIN up[g] /\ up'[g][i] = up[g][i]
        <5>1. up[g][i] <= seq[g] /\ up[g][i] \in Nat
          BY <1>1, <1>3, <2>3, <3>2, <4>1, FloorAssumption DEF GuestInv
        <5> QED BY <1>2, <2>3, <3>2, <4>1, <5>1 DEF GuestInv, Newer
      <4>2. CASE up'[g][i] = seq[g] + 1
        <5>1. relay[g] # NoBeat => relay[g].seq <= seq[g]
          BY <1>1, <2>3, <3>2 DEF GuestInv
        <5>2. relay[g].seq \in Nat
          BY TypesOfLines, FloorAssumption DEF FloorInv, FloorTypes, LinkTypes
        <5> QED BY <1>2, <3>3, <4>2, <5>1, <5>2
      <4> QED BY <1>4, <4>1, <4>2
    <3>5. ASSUME NEW i \in DOMAIN up'[g], NEW j \in DOMAIN up'[g], j < i PROVE up'[g][j] < up'[g][i]
      <4>0. j \in DOMAIN up[g] /\ up'[g][j] = up[g][j]
        BY <1>3, <1>4, <3>5
      <4>1. CASE i \in DOMAIN up[g] /\ up'[g][i] = up[g][i]
        BY <2>3, <3>2, <3>5, <4>0, <4>1 DEF GuestInv
      <4>2. CASE up'[g][i] = seq[g] + 1
        <5>1. up[g][j] <= seq[g] /\ up[g][j] \in Nat
          BY <1>1, <1>3, <2>3, <3>2, <4>0, FloorAssumption DEF GuestInv
        <5> QED BY <1>2, <4>0, <4>2, <5>1
      <4> QED BY <1>4, <4>1, <4>2
    <3>6. relay[g] # NoBeat =>
            /\ \A m \in Members : m # Host \/ relay[g].epoch = Unstamped =>
                 \A k \in Numbers(m) : k < relay[g].seq
            /\ relay[g].seq <= seq'[g]
      <4>1. relay[g] # NoBeat => relay[g].seq <= seq[g]
        BY <1>1, <2>3, <3>2 DEF GuestInv
      <4>2. relay[g].seq \in Nat
        BY TypesOfLines, FloorAssumption DEF FloorInv, FloorTypes, LinkTypes
      <4> QED BY <1>2, <2>3, <3>2, <4>1, <4>2 DEF GuestInv
    <3>7. \A m \in Members : \A k \in Numbers(m) : k < seq'[g] + 1
      <4>1. \A m \in Members : \A k \in Numbers(m) : k \in Nat
        BY NumbersAreNat DEF FloorInv
      <4> QED BY <1>2, <3>3, <4>1
    <3>8. Notices(g) = {}
      BY <1>1, <2>3, <3>2 DEF GuestInv
    <3>9. Notices(g)' = {} /\ presenter' = g /\ relay' = relay /\ floor' = floor
      BY <1>1, <2>3, <3>1, <3>8, HostIsNoGuest
    <3> QED BY <3>1, <3>4, <3>5, <3>6, <3>7, <3>9 DEF GuestInv, Newer
  <2> QED BY <2>1, <2>2, <2>3
<1> QED BY <1>5, <1>6, <1>7, <1>8, <1>9 DEF FloorInv

LEMMA HostGone ==
  ASSUME HostInv, presenter # Host, UNCHANGED <<presenter, calls>> PROVE HostInv'
BY DEF HostInv, GrantsUnderWay

LEMMA LoadingStep ==
  ASSUME FloorInv, NEW m \in Members, Loading(m) PROVE FloorInv'
<1>1. UNCHANGED <<presenter, epoch, present, joins, floor, seq, seen, calls, up, relay, inbox>>
  BY DEF Loading
<1>2. FloorTypes'
  BY <1>1 DEF Loading, FloorInv, FloorTypes, GateTypes, BeliefTypes, LinkTypes
<1>3. NoticeInv' /\ RelayInv' /\ OrderInv'
  BY <1>1, LinksStand DEF FloorInv, NoticeInv, Notices, RelayInv
<1>4. GrantInv' /\ HostInv' /\ GuestInv'
  BY <1>1, LinksStand, GrantQuiet, HostQuiet, GuestQuiet DEF FloorInv
<1> QED BY <1>2, <1>3, <1>4 DEF FloorInv

\* Absent guests have nothing to hear.
LEMMA HearersArePresent ==
  ASSUME FloorInv, NEW m \in Members, inbox[m] # <<>> PROVE m = Host \/ m \in present
BY HostIsNoGuest DEF FloorInv, NoticeInv

LEMMA HearsBeatStep ==
  ASSUME FloorInv, NEW m \in Members, Hears(m), inbox[m][1].what = "beat" PROVE FloorInv'
<1>0. LinkTypes /\ FloorTypes /\ NoticeInv /\ OrderInv
  BY DEF FloorInv, FloorTypes
<1>1. UNCHANGED <<presenter, epoch, present, joins, floor, seq, calls, up, relay>>
      /\ player' \in {player, [player EXCEPT ![m] = "level"]}
  BY <1>0, HearsTail DEF Hears, HearsBeat
<1>2. OrderInv'
  BY <1>0, OrderHeard
<1>3. FloorTypes'
  <2>1. \A x \in Members : seen'[x].epoch \in 0 .. Grants /\ seen'[x].epoch <= epoch
    <3>1. ASSUME NEW x \in Members PROVE seen'[x].epoch <= epoch
      BY <1>1, <1>2 DEF OrderInv
    <3>2. seen' \in [Members -> [epoch : Nat, seq : 0 .. Beats]]
      BY <1>0, SeenAfter
    <3>3. ASSUME NEW x \in Members PROVE seen'[x].epoch \in Nat
      BY <3>2
    <3>4. epoch \in 0 .. Grants /\ Grants \in Nat
      BY <1>0, FloorAssumption DEF FloorTypes, GateTypes
    <3> QED BY <3>1, <3>3, <3>4
  <2>2. seen' \in [Members -> [epoch : 0 .. Grants, seq : 0 .. Beats]]
    <3>1. seen' \in [Members -> [epoch : Nat, seq : 0 .. Beats]]
      BY <1>0, SeenAfter
    <3>2. \A x \in Members : seen'[x] \in [epoch : 0 .. Grants, seq : 0 .. Beats]
      BY <2>1, <3>1
    <3> QED BY <3>1, <3>2
  <2>3. inbox' \in [Members -> Seq(Line)]
    BY <1>0, HearsTail
  <2> QED BY <1>0, <1>1, <2>2, <2>3 DEF FloorTypes, GateTypes, BeliefTypes, LinkTypes
<1>4. /\ \A x \in Members : x # m => Notices(x)' = Notices(x)
      /\ \A i \in Notices(m)' : i \in Nat /\ i >= 1 /\ i + 1 \in Notices(m) /\ inbox'[m][i] = inbox[m][i + 1]
      /\ \A i \in Notices(m) : i - 1 \in Notices(m)'
  BY <1>0, NoticesHeard
<1>5. \A x \in Members : Notices(x)' = {} <=> Notices(x) = {}
  BY <1>4
<1>6. \A x \in Members : Numbers(x)' \subseteq Numbers(x)
  BY <1>0, NumbersHeard
<1>7. NoticeInv'
  <2>1. m = Host \/ m \in present
    BY HearersArePresent DEF Hears
  <2>2. \A x \in Members : x # m => inbox'[x] = inbox[x]
    BY <1>0, HearsTail
  <2>3. ASSUME NEW x \in Members, NEW i \in Notices(x)'
        PROVE  /\ inbox'[x][i].beat.from = presenter
               /\ inbox'[x][i].what = IF x = Host THEN "state" ELSE "presenter"
    BY <1>0, <1>4, <2>2, <2>3 DEF NoticeInv
  <2>4. ASSUME NEW g \in Guests, NEW i \in Notices(g)', NEW j \in Notices(g)' PROVE i = j
    <3>1. CASE g # m
      BY <1>0, <1>4, <2>4, <3>1, HostIsNoGuest DEF NoticeInv
    <3>2. CASE g = m
      <4>1. i + 1 = j + 1 /\ i \in Nat /\ j \in Nat
        BY <1>0, <1>4, <2>4, <3>2 DEF NoticeInv
      <4> QED BY <4>1
    <3> QED BY <3>1, <3>2
  <2>5. ASSUME NEW g \in Guests
        PROVE  /\ g \notin present' => inbox'[g] = <<>> /\ up'[g] = <<>>
               /\ g \in present' /\ floor'[g] = g /\ presenter' # g => Notices(g)' # {}
    BY <1>0, <1>1, <1>5, <2>1, <2>2, HostIsNoGuest DEF NoticeInv
  <2> QED BY <1>1, <2>3, <2>4, <2>5 DEF NoticeInv
<1>8. RelayInv'
  BY <1>1 DEF FloorInv, RelayInv
<1>9. GrantInv' /\ HostInv'
  BY <1>1, <1>5, <1>6, GrantQuiet, HostQuiet DEF FloorInv
<1>10. GuestInv'
  BY <1>0, <1>1, <1>5, <1>6, GuestQuiet DEF FloorInv, FloorTypes, GateTypes
<1> QED BY <1>2, <1>3, <1>7, <1>8, <1>9, <1>10 DEF FloorInv

\* The host's page learns nothing new from a state, a guest with a notice that
\* it presents finds nothing of this epoch sent.
LEMMA HearsNoticeStep ==
  ASSUME FloorInv, NEW m \in Members, Hears(m), inbox[m][1].what # "beat" PROVE FloorInv'
<1>0. LinkTypes /\ FloorTypes /\ NoticeInv /\ OrderInv /\ GuestInv /\ GrantInv
  BY DEF FloorInv, FloorTypes
<1>1. UNCHANGED <<presenter, epoch, present, joins, seen, player, calls, up, relay>>
      /\ 1 \in Notices(m) /\ inbox[m][1].beat.from = presenter
      /\ Believes(m, presenter)
  <2>1. 1 \in DOMAIN inbox[m] /\ Head(inbox[m]) = inbox[m][1]
    BY <1>0, HearsTail
  <2>2. 1 \in Notices(m)
    BY <2>1 DEF Notices
  <2>3. inbox[m][1].beat.from = presenter
    BY <1>0, <2>2 DEF NoticeInv
  <2> QED BY <2>1, <2>2, <2>3 DEF Hears
<1>2. GrantsUnderWay = {} /\ floor[Host] = presenter
  BY <1>0, <1>1 DEF GrantInv
<1>3. presenter \in Members /\ floor \in [Members -> Members] /\ seq \in [Members -> 0 .. Beats] /\ 0 \in 0 .. Beats
  BY <1>0, FloorAssumption DEF FloorTypes, GateTypes, BeliefTypes
<1>4. /\ floor' \in [Members -> Members] /\ seq' \in [Members -> 0 .. Beats]
      /\ floor'[m] = presenter /\ \A x \in Members : x # m => floor'[x] = floor[x] /\ seq'[x] = seq[x]
      /\ presenter # m \/ floor[m] = m => seq'[m] = seq[m]
      /\ presenter = m /\ floor[m] # m => seq'[m] = 0
  BY <1>1, <1>3 DEF Believes
<1>5. floor'[Host] = floor[Host] /\ seq'[Host] = seq[Host]
  BY <1>2, <1>4, HostIsNoGuest
<1>6. OrderInv' /\ inbox' \in [Members -> Seq(Line)] /\ \A x \in Members : x # m => inbox'[x] = inbox[x]
  BY <1>0, OrderHeard, HearsTail
<1>7. FloorTypes'
  BY <1>0, <1>1, <1>4, <1>6 DEF FloorTypes, GateTypes, BeliefTypes, LinkTypes
<1>8. /\ \A x \in Members : x # m => Notices(x)' = Notices(x)
      /\ \A i \in Notices(m)' : i \in Nat /\ i >= 1 /\ i + 1 \in Notices(m) /\ inbox'[m][i] = inbox[m][i + 1]
  BY <1>0, NoticesHeard
<1>9. m \in Guests => Notices(m)' = {}
  <2>1. ASSUME m \in Guests, NEW i \in Notices(m)' PROVE FALSE
    <3>1. i + 1 = 1 /\ i \in Nat /\ i >= 1
      BY <1>0, <1>1, <1>8, <2>1 DEF NoticeInv
    <3> QED BY <3>1
  <2> QED BY <2>1
<1>10. \A x \in Members : Numbers(x)' \subseteq Numbers(x)
  BY <1>0, NumbersHeard
<1>11. NoticeInv'
  <2>1. m = Host \/ m \in present
    BY HearersArePresent DEF Hears
  <2>2. ASSUME NEW x \in Members, NEW i \in Notices(x)'
        PROVE  /\ inbox'[x][i].beat.from = presenter
               /\ inbox'[x][i].what = IF x = Host THEN "state" ELSE "presenter"
    BY <1>0, <1>6, <1>8, <2>2 DEF NoticeInv
  <2>3. ASSUME NEW g \in Guests, g # m
        PROVE  /\ g \notin present => inbox'[g] = <<>> /\ up[g] = <<>>
               /\ \A i, j \in Notices(g)' : i = j
               /\ g \in present /\ floor'[g] = g /\ presenter # g => Notices(g)' # {}
    <3>1. g \in Members
      BY HostIsNoGuest
    <3>2. inbox'[g] = inbox[g] /\ Notices(g)' = Notices(g) /\ floor'[g] = floor[g]
      BY <1>4, <1>6, <1>8, <2>3, <3>1
    <3> QED BY <1>0, <3>2 DEF NoticeInv
  <2>4. ASSUME m \in Guests
        PROVE  m \in present /\ Notices(m)' = {} /\ (floor'[m] = m => presenter = m)
    BY <1>4, <1>9, <2>1, <2>4, HostIsNoGuest
  <2> QED BY <1>1, <2>2, <2>3, <2>4 DEF NoticeInv
<1>12. RelayInv'
  BY <1>1 DEF FloorInv, RelayInv
<1>13. GrantInv' /\ HostInv'
  BY <1>1, <1>2, <1>5, <1>10, GrantQuiet, HostQuiet DEF FloorInv
<1>14. GuestInv'
  <2>1. CASE presenter = Host
    BY <1>1, <2>1 DEF GuestInv
  <2>2. CASE presenter # m
    <3>1. Notices(presenter)' = Notices(presenter)
      BY <1>1, <1>3, <1>8, <2>2
    <3> QED BY <1>0, <1>1, <1>3, <1>4, <1>10, <2>2, <3>1, GuestQuiet
  <2>3. CASE presenter = m /\ m # Host
    <3>1. m \in Guests /\ Notices(m)' = {}
      BY <1>9, <2>3, HostIsNoGuest
    <3>2. floor[m] # m /\ up[m] = <<>> /\ relay[m] = NoBeat /\ \A x \in Members : Numbers(x) = {}
      BY <1>0, <1>1, <2>3 DEF GuestInv
    <3>3. \A x \in Members : Numbers(x)' = {}
      BY <1>10, <3>2
    <3>4. DOMAIN up'[m] = {} /\ relay'[m] = NoBeat
      BY <1>1, <3>2
    <3> QED BY <1>1, <2>3, <3>1, <3>3, <3>4 DEF GuestInv, Newer
  <2> QED BY <2>1, <2>2, <2>3
<1> QED BY <1>6, <1>7, <1>11, <1>12, <1>13, <1>14 DEF FloorInv

LEMMA GrantStep ==
  ASSUME Slips = {}, FloorInv, NEW g \in Guests, Grant(g) PROVE FloorInv'
<1>0. LinkTypes /\ FloorTypes /\ NoticeInv /\ OrderInv /\ GuestInv /\ GrantInv /\ HostInv /\ RelayInv
  BY DEF FloorInv, FloorTypes
<1>1. /\ epoch + Cardinality(GrantsUnderWay) < Grants
      /\ g \in present /\ floor[Host] # g /\ Heard /\ Lines(Host, "state") = {}
      /\ Believes(Host, g) /\ calls' = Append(calls, GrantLine(g))
      /\ UNCHANGED <<presenter, epoch, present, joins, seen, player, up, relay, inbox>>
  BY DEF Grant
<1>2. GrantsUnderWay = {} /\ floor[Host] = presenter /\ g # presenter /\ epoch < Grants
  BY <1>0, <1>1, FS_EmptySet DEF Heard, GrantInv, FloorTypes, GateTypes
<1>3. up[g] = <<>> /\ relay[g] = NoBeat
  BY <1>1, <1>2 DEF Heard
<1>4. ASSUME NEW m \in Members, NEW i \in Notices(m) PROVE FALSE
  <2>1. inbox[m] \in Seq(Line) /\ i \in DOMAIN inbox[m]
        /\ inbox[m][i].what = IF m = Host THEN "state" ELSE "presenter"
    BY <1>0, <1>4 DEF LinkTypes, NoticeInv, Notices
  <2>2. inbox[m][i] \in ToSet(inbox[m])
    BY <2>1 DEF ToSet
  <2>3. CASE m = Host
    BY <1>1, <2>1, <2>2, <2>3 DEF Lines
  <2>4. CASE m # Host
    <3>1. m \in present
      BY <2>1, <2>4, HearersArePresent
    <3> QED BY <1>1, <2>1, <2>2, <2>4, <3>1 DEF Lines, Heard
  <2> QED BY <2>3, <2>4
<1>5. floor[g] # g
  BY <1>0, <1>1, <1>2, <1>4, HostIsNoGuest DEF NoticeInv
<1>6. /\ floor' \in [Members -> Members] /\ floor'[Host] = g
      /\ \A x \in Members : x # Host => floor'[x] = floor[x]
      /\ seq' = seq
  BY <1>0, <1>1, HostIsNoGuest DEF Believes, FloorTypes, BeliefTypes
<1>7. GrantLine(g) \in Line /\ GrantLine(g).what = "presenter" /\ GrantLine(g).beat.from = g
  BY TypesOfLines, HostIsNoGuest
<1>8. /\ calls \in Seq(Line) /\ calls' \in Seq(Line) /\ Len(calls') = Len(calls) + 1
      /\ \A i \in DOMAIN calls' : \/ i \in DOMAIN calls /\ calls'[i] = calls[i]
                                  \/ i = Len(calls) + 1 /\ i \notin DOMAIN calls /\ calls'[i] = GrantLine(g)
      /\ Len(calls) + 1 \in DOMAIN calls' /\ calls'[Len(calls) + 1] = GrantLine(g)
  BY <1>0, <1>1, <1>7, Appended DEF LinkTypes
<1>9. GrantsUnderWay' = {Len(calls) + 1}
  BY <1>2, <1>7, <1>8 DEF GrantsUnderWay
<1>10. FloorTypes'
  BY <1>0, <1>1, <1>6, <1>8 DEF FloorTypes, GateTypes, BeliefTypes, LinkTypes
<1>11. GrantInv'
  <2>1. \A m \in Members : Notices(m)' = {}
    BY <1>1, <1>4, LinksStand
  <2>2. floor'[g] # g
    BY <1>5, <1>6, HostIsNoGuest
  <2> QED BY <1>0, <1>1, <1>2, <1>3, <1>6, <1>7, <1>8, <1>9, <2>1, <2>2 DEF GrantInv
<1>12. NoticeInv' /\ RelayInv' /\ OrderInv'
  <2>1. \A h \in Guests : floor'[h] = floor[h]
    BY <1>6, HostIsNoGuest
  <2> QED BY <1>0, <1>1, <2>1, LinksStand DEF NoticeInv, Notices, RelayInv
<1>13. HostInv'
  <2>1. \A m \in Members : Numbers(m)' = Numbers(m)
    BY <1>1, LinksStand
  <2>2. \A i \in (DOMAIN calls \ GrantsUnderWay)' : i \in DOMAIN calls \ GrantsUnderWay /\ calls'[i] = calls[i]
    BY <1>2, <1>8, <1>9
  <2>3. floor'[Host] # Host
    BY <1>6, HostIsNoGuest
  <2> QED BY <1>0, <1>1, <2>1, <2>2, <2>3 DEF HostInv, Newer
<1>14. GuestInv'
  <2>1. CASE presenter = Host
    BY <1>1, <2>1 DEF GuestInv
  <2>2. CASE presenter # Host
    <3>1. presenter \in Members
      BY <1>0 DEF FloorTypes, GateTypes
    <3> QED BY <1>0, <1>1, <1>6, <2>2, <3>1, LinksStand, GuestQuiet
  <2> QED BY <2>1, <2>2
<1> QED BY <1>10, <1>11, <1>12, <1>13, <1>14 DEF FloorInv

\* What is relayed to a page of the beats of an epoch leaves the rest of a link alone.
LEMMA LinkStands ==
  ASSUME NEW m, UNCHANGED epoch, seen'[m] = seen[m], inbox'[m] = inbox[m] \/ inbox'[m] = <<>>
  PROVE  Numbers(m)' \subseteq Numbers(m) /\ Current(m)' \subseteq Current(m)
         /\ \A i \in Current(m)' : inbox'[m][i] = inbox[m][i]
<1>1. Current(m)' \subseteq Current(m) /\ \A i \in Current(m)' : inbox'[m][i] = inbox[m][i]
  <2>1. DOMAIN <<>> = {}
    OBVIOUS
  <2> QED BY <2>1 DEF Current
<1>2. ASSUME NEW k \in Numbers(m)' PROVE k \in Numbers(m)
  <2>1. CASE \E i \in Current(m)' : k = Number(m, i)'
    <3>1. PICK i \in Current(m)' : k = Number(m, i)'
      BY <2>1
    <3>2. i \in Current(m) /\ k = Number(m, i)
      BY <1>1, <3>1 DEF Number
    <3> QED BY <3>2, InNumbers
  <2>2. CASE seen[m].epoch = epoch /\ k = seen[m].seq
    BY <2>2, InNumbers
  <2> QED BY <2>1, <2>2 DEF Numbers
<1> QED BY <1>1, <1>2

\* A state told to the host's page changes nothing but its notices.
LEMMA StateTold ==
  ASSUME FloorInv, inbox'[Host] = Append(inbox[Host], StateLine(presenter)), UNCHANGED <<epoch, presenter>>,
         seen'[Host] = seen[Host]
  PROVE  /\ inbox'[Host] \in Seq(Line) /\ Numbers(Host)' \subseteq Numbers(Host)
         /\ Current(Host)' \subseteq Current(Host) /\ \A i \in Current(Host)' : inbox'[Host][i] = inbox[Host][i]
         /\ \A i \in DOMAIN inbox'[Host] : inbox'[Host][i].what = "beat" =>
              i \in DOMAIN inbox[Host] /\ inbox'[Host][i] = inbox[Host][i]
         /\ \A i \in Notices(Host)' :
              inbox'[Host][i].what = "state" /\ inbox'[Host][i].beat.from = presenter
<1> DEFINE line == StateLine(presenter)
<1>0. LinkTypes /\ NoticeInv /\ presenter \in Members
  BY DEF FloorInv, FloorTypes, GateTypes
<1>1. line \in Line /\ line.what = "state" /\ line.beat.from = presenter
  BY <1>0, TypesOfLines
<1> HIDE DEF line
<1>2. inbox[Host] \in Seq(Line) /\ inbox'[Host] = Append(inbox[Host], line)
  BY <1>0, HostIsNoGuest DEF LinkTypes, line
<1>3. inbox'[Host] \in Seq(Line) /\
      \A i \in DOMAIN inbox'[Host] : \/ i \in DOMAIN inbox[Host] /\ inbox'[Host][i] = inbox[Host][i]
                                     \/ i \notin DOMAIN inbox[Host] /\ inbox'[Host][i] = line
  BY <1>1, <1>2, Appended
<1>4. Current(Host)' \subseteq Current(Host) /\ \A i \in Current(Host)' : inbox'[Host][i] = inbox[Host][i]
  BY <1>1, <1>3 DEF Current
<1>5. ASSUME NEW k \in Numbers(Host)' PROVE k \in Numbers(Host)
  <2>1. CASE \E i \in Current(Host)' : k = Number(Host, i)'
    <3>1. PICK i \in Current(Host)' : k = Number(Host, i)'
      BY <2>1
    <3>2. i \in Current(Host) /\ k = Number(Host, i)
      BY <1>4, <3>1 DEF Number
    <3> QED BY <3>2, InNumbers
  <2>2. CASE seen[Host].epoch = epoch /\ k = seen[Host].seq
    BY <2>2, InNumbers
  <2> QED BY <2>1, <2>2 DEF Numbers
<1>6. ASSUME NEW i \in Notices(Host)'
      PROVE  inbox'[Host][i].what = "state" /\ inbox'[Host][i].beat.from = presenter
  BY <1>0, <1>1, <1>3, <1>6, HostIsNoGuest DEF NoticeInv, Notices
<1>7. \A i \in DOMAIN inbox'[Host] : inbox'[Host][i].what = "beat" =>
        i \in DOMAIN inbox[Host] /\ inbox'[Host][i] = inbox[Host][i]
  BY <1>1, <1>3
<1> QED BY <1>3, <1>4, <1>5, <1>6, <1>7

\* A guest that comes in has taken and has to hear nothing.
LEMMA EnterStep ==
  ASSUME Slips = {}, FloorInv, NEW g \in Guests, Enter(g) PROVE FloorInv'
<1>0. LinkTypes /\ FloorTypes /\ NoticeInv /\ OrderInv /\ GuestInv /\ GrantInv /\ HostInv /\ RelayInv
  BY DEF FloorInv, FloorTypes
<1>1. /\ g \notin present /\ joins[g] < Joins /\ up[g] = <<>> /\ relay[g] = NoBeat
      /\ present' = present \union {g} /\ joins' = [joins EXCEPT ![g] = @ + 1]
      /\ floor' = [floor EXCEPT ![g] = Host] /\ seq' = [seq EXCEPT ![g] = 0]
      /\ seen' = [seen EXCEPT ![g] = [epoch |-> 0, seq |-> 0]]
      /\ player' = [player EXCEPT ![g] = "loading"]
      /\ GrantsUnderWay = {} /\ Tell({Host}, StateLine(presenter))
      /\ UNCHANGED <<presenter, epoch, calls, up, relay>>
  BY DEF Enter
<1>2. g \in Members /\ g # Host /\ presenter \in Members /\ inbox[g] = <<>>
  BY <1>0, <1>1, HostIsNoGuest DEF FloorTypes, GateTypes, NoticeInv
<1>3. StateLine(presenter) \in Line
  BY <1>2, TypesOfLines
<1>4. /\ inbox'[Host] = Append(inbox[Host], StateLine(presenter))
      /\ \A x \in Members : x # Host => inbox'[x] = inbox[x]
  BY <1>1, HostIsNoGuest DEF Tell
<1>5. /\ seen'[g].epoch = 0 /\ seen'[g].seq = 0 /\ \A x \in Members : x # g => seen'[x] = seen[x]
      /\ floor'[g] = Host /\ \A x \in Members : x # g => floor'[x] = floor[x] /\ seq'[x] = seq[x]
  BY <1>0, <1>1, <1>2 DEF FloorTypes, BeliefTypes
<1>6. FloorTypes'
  <2>1. inbox' \in [Members -> Seq(Line)]
    BY <1>0, <1>1, <1>3, TellTypes
  <2>2. GateTypes'
    BY <1>0, <1>1, FloorAssumption DEF FloorTypes, GateTypes
  <2>3. 0 \in 0 .. Grants /\ 0 \in 0 .. Beats
    BY FloorAssumption
  <2>4. BeliefTypes'
    BY <1>0, <1>1, <2>3, HostIsNoGuest DEF FloorTypes, BeliefTypes
  <2> QED BY <1>0, <1>1, <2>1, <2>2, <2>4 DEF FloorTypes, LinkTypes
<1>7. seen'[Host] = seen[Host] /\ floor'[Host] = floor[Host] /\ seq'[Host] = seq[Host]
  BY <1>2, <1>5, HostIsNoGuest
<1>8. GrantInv'
  BY <1>0, <1>1, <1>7, GrantQuiet
<1>9. /\ \A i \in DOMAIN inbox'[Host] : inbox'[Host][i].what = "beat" =>
           i \in DOMAIN inbox[Host] /\ inbox'[Host][i] = inbox[Host][i]
      /\ \A i \in Notices(Host)' : inbox'[Host][i].what = "state" /\ inbox'[Host][i].beat.from = presenter
  BY <1>1, <1>4, <1>7, StateTold
<1>10. NoticeInv'
  <2>1. \A x \in Guests : inbox'[x] = inbox[x] /\ Notices(x)' = Notices(x)
    BY <1>4, HostIsNoGuest DEF Notices
  <2>2. ASSUME NEW x \in Members, NEW i \in Notices(x)'
        PROVE  /\ inbox'[x][i].beat.from = presenter
               /\ inbox'[x][i].what = IF x = Host THEN "state" ELSE "presenter"
    <3>1. CASE x = Host
      BY <1>9, <2>2, <3>1
    <3>2. CASE x # Host
      BY <1>0, <2>1, <2>2, <3>2, HostIsNoGuest DEF NoticeInv
    <3> QED BY <3>1, <3>2
  <2>3. \A x \in Guests : x # g => floor'[x] = floor[x] /\ (x \in present' <=> x \in present)
    BY <1>1, <1>5, HostIsNoGuest
  <2> QED BY <1>0, <1>1, <1>2, <1>5, <2>1, <2>2, <2>3 DEF NoticeInv
<1>11. RelayInv'
  BY <1>0, <1>1 DEF RelayInv
<1>12. \A x \in Members : x # g =>
         /\ Numbers(x)' \subseteq Numbers(x) /\ Current(x)' \subseteq Current(x)
         /\ \A i \in Current(x)' : inbox'[x][i] = inbox[x][i]
  BY <1>1, <1>4, <1>5, <1>7, LinkStands, StateTold
<1>13. Current(g)' = {} /\ Numbers(g)' = IF epoch = 0 THEN {0} ELSE {}
  <2>1. DOMAIN inbox'[g] = {}
    BY <1>2, <1>4
  <2>2. Current(g)' = {}
    BY <2>1 DEF Current
  <2> QED BY <1>1, <1>5, <2>2 DEF Numbers
<1>14. OrderInv'
  <2>1. epoch \in Nat
    BY <1>0, FloorAssumption DEF FloorTypes, GateTypes
  <2>2. ASSUME NEW x \in Members, x # g
        PROVE  /\ seen'[x].epoch <= epoch
               /\ \A i \in DOMAIN inbox'[x] : inbox'[x][i].what = "beat" => inbox'[x][i].beat.epoch <= epoch
               /\ seen'[x].epoch = epoch => \A i \in Current(x)' : seen'[x].seq < inbox'[x][i].beat.seq
               /\ \A i, j \in Current(x)' : i < j => inbox'[x][i].beat.seq < inbox'[x][j].beat.seq
    <3>1. seen'[x] = seen[x] /\ seen[x].epoch <= epoch
      BY <1>0, <1>5, <2>2 DEF OrderInv
    <3>2. \A i \in DOMAIN inbox'[x] : inbox'[x][i].what = "beat" =>
            i \in DOMAIN inbox[x] /\ inbox'[x][i] = inbox[x][i]
      <4>1. CASE x = Host
        BY <1>9, <4>1
      <4>2. CASE x # Host
        BY <1>4, <4>2
      <4> QED BY <4>1, <4>2
    <3>3. \A i \in DOMAIN inbox'[x] : inbox'[x][i].what = "beat" => inbox'[x][i].beat.epoch <= epoch
      BY <1>0, <3>2 DEF OrderInv
    <3>4. Current(x)' \subseteq Current(x) /\ \A i \in Current(x)' : inbox'[x][i] = inbox[x][i]
      BY <1>12, <2>2
    <3>5. seen[x].epoch = epoch => \A i \in Current(x)' : seen[x].seq < inbox'[x][i].beat.seq
      BY <1>0, <3>4 DEF OrderInv, Number
    <3>6. \A i, j \in Current(x)' : i < j => inbox'[x][i].beat.seq < inbox'[x][j].beat.seq
      BY <1>0, <3>4 DEF OrderInv, Number
    <3> QED BY <3>1, <3>3, <3>5, <3>6
  <2>3. /\ seen'[g].epoch <= epoch /\ DOMAIN inbox'[g] = {}
    BY <1>2, <1>4, <1>5, <2>1
  <2> QED BY <1>1, <1>13, <2>2, <2>3 DEF OrderInv, Number
<1>15. CASE presenter = Host
  <2>1. epoch = 0 /\ seen[g].epoch = epoch /\ seen[g].seq \in Numbers(g) /\ seen[g].seq \in Nat
    <3>1. epoch = 0
      BY <1>0, <1>15 DEF GrantInv
    <3>2. seen[g].epoch \in Nat /\ seen[g].seq \in Nat /\ seen[g].epoch <= 0
      BY <1>0, <1>2, <3>1, FloorAssumption DEF FloorTypes, BeliefTypes, OrderInv
    <3>3. seen[g].epoch = epoch
      BY <3>1, <3>2
    <3> QED BY <3>1, <3>2, <3>3, InNumbers
  <2>2. GrantsUnderWay' = GrantsUnderWay
    BY <1>1 DEF GrantsUnderWay
  <2>3. ASSUME NEW n \in Nat, \A m \in Members : \A k \in Numbers(m) : k < n
        PROVE  \A m \in Members : \A k \in Numbers(m)' : k < n
    <3>1. 0 < n
      BY <1>2, <2>1, <2>3
    <3> QED BY <1>12, <1>13, <2>1, <2>3, <3>1
  <2>4. \A i \in DOMAIN calls : calls[i].beat.seq \in Nat
    BY <1>0, TypesOfLines, FloorAssumption DEF LinkTypes
  <2>5. seq[Host] + 1 \in Nat
    BY <1>0, HostIsNoGuest, FloorAssumption DEF FloorTypes, BeliefTypes
  <2>6. ASSUME NEW i \in DOMAIN calls \ GrantsUnderWay
        PROVE  \A m \in Members : \A k \in Numbers(m)' : k < calls[i].beat.seq
    BY <1>0, <2>3, <2>4, <2>6 DEF HostInv, Newer
  <2>7. floor[Host] = Host => \A m \in Members : \A k \in Numbers(m)' : k < seq[Host] + 1
    BY <1>0, <1>15, <2>3, <2>5 DEF HostInv, Newer
  <2>8. HostInv'
    BY <1>0, <1>1, <1>7, <2>2, <2>6, <2>7 DEF HostInv, Newer
  <2>9. GuestInv'
    BY <1>1, <1>15 DEF GuestInv
  <2> QED BY <1>6, <1>8, <1>10, <1>11, <1>14, <2>8, <2>9 DEF FloorInv
<1>16. CASE presenter # Host
  <2>1. epoch # 0
    BY <1>0, <1>16 DEF GrantInv
  <2>2. \A x \in Members : Numbers(x)' \subseteq Numbers(x)
    BY <1>12, <1>13, <2>1
  <2>3. HostInv'
    BY <1>0, <1>1, <1>16, HostGone
  <2>4. GuestInv'
    <3>1. CASE presenter # g
      <4>1. Notices(presenter)' = Notices(presenter)
        BY <1>1, <1>2, <1>4, <1>16 DEF Notices
      <4> QED BY <1>0, <1>1, <1>2, <1>5, <2>2, <3>1, <4>1, GuestQuiet
    <3>2. CASE presenter = g
      <4>1. DOMAIN up'[g] = {} /\ relay'[g] = NoBeat /\ floor'[g] # g
        BY <1>1, <1>2, <1>5
      <4>2. Notices(g)' = {}
        <5>1. DOMAIN inbox'[g] = {}
          BY <1>2, <1>4
        <5> QED BY <5>1 DEF Notices
      <4> QED BY <1>1, <3>2, <4>1, <4>2 DEF GuestInv
    <3> QED BY <3>1, <3>2
  <2> QED BY <1>6, <1>8, <1>10, <1>11, <1>14, <2>3, <2>4 DEF FloorInv
<1> QED BY <1>15, <1>16

LEMMA LeaveStep ==
  ASSUME Slips = {}, FloorInv, NEW g \in Guests, Leave(g) PROVE FloorInv'
<1>0. LinkTypes /\ FloorTypes /\ NoticeInv /\ OrderInv /\ GuestInv /\ GrantInv /\ HostInv /\ RelayInv
  BY DEF FloorInv, FloorTypes
<1>1. /\ present' = present \ {g} /\ up' = [up EXCEPT ![g] = <<>>] /\ GrantsUnderWay = {}
      /\ inbox' = [inbox EXCEPT ![g] = <<>>, ![Host] = Append(@, StateLine(presenter))]
      /\ UNCHANGED <<presenter, epoch, joins, floor, seq, seen, player, calls, relay>>
  BY DEF Leave, believedVars
<1>2. g \in Members /\ g # Host /\ presenter \in Members
  BY <1>0, HostIsNoGuest DEF FloorTypes, GateTypes
<1>3. /\ inbox'[Host] = Append(inbox[Host], StateLine(presenter)) /\ inbox'[g] = <<>>
      /\ \A x \in Members : x # Host /\ x # g => inbox'[x] = inbox[x]
      /\ up'[g] = <<>> /\ \A x \in Guests : x # g => up'[x] = up[x]
  BY <1>0, <1>1, <1>2, HostIsNoGuest DEF LinkTypes
<1>4. /\ inbox'[Host] \in Seq(Line)
      /\ \A i \in DOMAIN inbox'[Host] : inbox'[Host][i].what = "beat" =>
           i \in DOMAIN inbox[Host] /\ inbox'[Host][i] = inbox[Host][i]
      /\ \A i \in Notices(Host)' : inbox'[Host][i].what = "state" /\ inbox'[Host][i].beat.from = presenter
  BY <1>1, <1>3, StateTold
<1>5. FloorTypes'
  <2>1. inbox' \in [Members -> Seq(Line)]
    <3>1. ASSUME NEW x \in Members PROVE inbox'[x] \in Seq(Line)
      <4>1. CASE x = Host
        BY <1>4, <4>1
      <4>2. CASE x = g
        <5>1. <<>> \in Seq(Line)
          OBVIOUS
        <5> QED BY <1>3, <4>2, <5>1
      <4>3. CASE x # Host /\ x # g
        BY <1>0, <1>3, <4>3 DEF LinkTypes
      <4> QED BY <4>1, <4>2, <4>3
    <3> QED BY <1>0, <1>1, <3>1 DEF LinkTypes
  <2>2. up' \in [Guests -> Seq(1 .. Beats)]
    BY <1>0, <1>1 DEF LinkTypes
  <2> QED BY <1>0, <1>1, <2>1, <2>2 DEF FloorTypes, GateTypes, BeliefTypes, LinkTypes
<1>6. GrantInv' /\ RelayInv'
  BY <1>0, <1>1, GrantQuiet DEF RelayInv
<1>7. Notices(g)' = {} /\ DOMAIN inbox'[g] = {} /\ \A x \in Guests : x # g => Notices(x)' = Notices(x)
  <2>1. DOMAIN inbox'[g] = {}
    BY <1>3
  <2> QED BY <1>3, <2>1, HostIsNoGuest DEF Notices
<1>8. NoticeInv'
  <2>1. ASSUME NEW x \in Members, NEW i \in Notices(x)'
        PROVE  /\ inbox'[x][i].beat.from = presenter
               /\ inbox'[x][i].what = IF x = Host THEN "state" ELSE "presenter"
    <3>1. CASE x = Host
      BY <1>4, <2>1, <3>1
    <3>2. CASE x # Host
      <4>1. x \in Guests /\ x # g
        BY <1>7, <2>1, <3>2, HostIsNoGuest
      <4>2. inbox'[x] = inbox[x] /\ i \in Notices(x)
        BY <1>3, <1>7, <2>1, <3>2, <4>1
      <4> QED BY <1>0, <3>2, <4>2 DEF NoticeInv
    <3> QED BY <3>1, <3>2
  <2>2. ASSUME NEW x \in Guests, x # g
        PROVE  /\ x \notin present' => inbox'[x] = <<>> /\ up'[x] = <<>>
               /\ \A i, j \in Notices(x)' : i = j
               /\ x \in present' /\ floor[x] = x /\ presenter # x => Notices(x)' # {}
    <3>1. x # Host /\ x \in Members
      BY HostIsNoGuest
    <3>2. inbox'[x] = inbox[x] /\ up'[x] = up[x] /\ Notices(x)' = Notices(x)
      BY <1>3, <1>7, <2>2, <3>1
    <3>3. x \in present' <=> x \in present
      BY <1>1, <2>2
    <3> QED BY <1>0, <3>2, <3>3 DEF NoticeInv
  <2>3. g \notin present'
    BY <1>1
  <2> QED BY <1>1, <1>3, <1>7, <2>1, <2>2, <2>3 DEF NoticeInv
<1>9. \A x \in Members :
         /\ Numbers(x)' \subseteq Numbers(x) /\ Current(x)' \subseteq Current(x)
         /\ \A i \in Current(x)' : inbox'[x][i] = inbox[x][i]
  <2> TAKE x \in Members
  <2>1. CASE x = Host
    BY <1>1, <1>3, <2>1, StateTold
  <2>2. CASE x # Host
    <3>1. inbox'[x] = inbox[x] \/ inbox'[x] = <<>>
      BY <1>3, <2>2
    <3>2. seen'[x] = seen[x]
      BY <1>1
    <3> QED BY <1>1, <3>1, <3>2, LinkStands
  <2> QED BY <2>1, <2>2
<1>10. OrderInv'
  <2>1. ASSUME NEW x \in Members, NEW i \in DOMAIN inbox'[x], inbox'[x][i].what = "beat"
        PROVE  inbox'[x][i].beat.epoch <= epoch
    <3>1. x # g
      BY <1>7, <2>1
    <3> QED BY <1>0, <1>3, <1>4, <2>1, <3>1 DEF OrderInv
  <2>2. ASSUME NEW x \in Members
        PROVE  /\ seen[x].epoch <= epoch
               /\ seen[x].epoch = epoch => \A i \in Current(x)' : seen[x].seq < inbox'[x][i].beat.seq
               /\ \A i, j \in Current(x)' : i < j => inbox'[x][i].beat.seq < inbox'[x][j].beat.seq
    BY <1>0, <1>9 DEF OrderInv, Number
  <2> QED BY <1>1, <2>1, <2>2 DEF OrderInv, Number
<1>11. HostInv'
  BY <1>0, <1>1, <1>9, HostQuiet
<1>12. GuestInv'
  <2>1. CASE presenter = Host
    BY <1>1, <2>1 DEF GuestInv
  <2>2. CASE presenter # Host
    <3>1. presenter \in Guests
      BY <1>2, <2>2, HostIsNoGuest
    <3>2. up'[presenter] \in {up[presenter], <<>>} /\ (Notices(presenter)' # {} => Notices(presenter) # {})
      BY <1>1, <1>3, <1>7, <3>1
    <3> QED BY <1>0, <1>1, <1>9, <3>2, GuestQuiet
  <2> QED BY <2>1, <2>2
<1> QED BY <1>5, <1>6, <1>8, <1>10, <1>11, <1>12 DEF FloorInv

\* What the host carries out is the first of its page's commands.
LEMMA FirstRemoved ==
  ASSUME NEW T, NEW q \in Seq(T), q # <<>> PROVE RemoveAt(q, 1) = Tail(q)
<1>1. Len(q) \in Nat /\ Len(q) > 0
  OBVIOUS
<1>2. SubSeq(q, 1, 1 - 1) = <<>>
  BY <1>1
<1>3. SubSeq(q, 1 + 1, Len(q)) \in Seq(T) /\ SubSeq(q, 1 + 1, Len(q)) = Tail(q)
  BY <1>1
<1>4. Tail(q) \in Seq(T)
  OBVIOUS
<1>5. <<>> \o Tail(q) = Tail(q)
  BY <1>4
<1> QED BY <1>2, <1>3, <1>5 DEF RemoveAt

LEMMA FirstCarried ==
  ASSUME Slips = {}, FloorInv, NEW i \in 1 .. Len(calls), CarriesOut(i)
  PROVE  /\ i = 1 /\ 1 \in DOMAIN calls /\ calls[1] \in Line /\ calls' \in Seq(Line)
         /\ Len(calls) \in Nat /\ Len(calls') = Len(calls) - 1
         /\ \A j \in DOMAIN calls' : j \in Nat /\ j >= 1 /\ j + 1 \in DOMAIN calls /\ calls'[j] = calls[j + 1]
         /\ \A j \in DOMAIN calls : j = 1 \/ (j - 1 \in DOMAIN calls' /\ calls'[j - 1] = calls[j])
         /\ UNCHANGED <<present, joins, floor, seq, seen, player, up, relay>>
         /\ calls[1].what = "presenter" => GrantGoesOut(calls[1].beat.from)
                                           /\ \A g \in Guests : relay[g].epoch # Unstamped
         /\ calls[1].what # "presenter" =>
              Tell(present, BeatLine([calls[1].beat EXCEPT !.epoch = epoch])) /\ UNCHANGED <<presenter, epoch>>
<1>1. calls \in Seq(Line) /\ calls # <<>>
  BY DEF FloorInv, FloorTypes, LinkTypes
<1>2. i = 1 /\ calls' = RemoveAt(calls, 1)
  BY DEF CarriesOut
<1>3. calls' = Tail(calls)
  BY <1>1, <1>2, FirstRemoved
<1>4. /\ UNCHANGED <<present, joins, floor, seq, seen, player, up, relay>>
      /\ calls[1].what = "presenter" => GrantGoesOut(calls[1].beat.from)
                                        /\ \A g \in Guests : relay[g].epoch # Unstamped
      /\ calls[1].what # "presenter" =>
           Tell(present, BeatLine([calls[1].beat EXCEPT !.epoch = epoch])) /\ UNCHANGED <<presenter, epoch>>
  BY <1>2 DEF CarriesOut, believedVars
<1> QED BY <1>1, <1>2, <1>3, <1>4, Shifted

LEMMA CarriesBeat ==
  ASSUME Slips = {}, FloorInv, NEW i \in 1 .. Len(calls), CarriesOut(i), calls[1].what # "presenter"
  PROVE  FloorInv'
<1> DEFINE first == calls[1].beat
           line == BeatLine([first EXCEPT !.epoch = epoch])
<1>0. LinkTypes /\ FloorTypes /\ NoticeInv /\ OrderInv /\ GrantInv /\ HostInv /\ RelayInv
  BY DEF FloorInv, FloorTypes
<1>1. /\ 1 \in DOMAIN calls /\ calls[1] \in Line /\ calls' \in Seq(Line)
      /\ Len(calls) \in Nat /\ Len(calls') = Len(calls) - 1
      /\ \A j \in DOMAIN calls' : j \in Nat /\ j >= 1 /\ j + 1 \in DOMAIN calls /\ calls'[j] = calls[j + 1]
      /\ \A j \in DOMAIN calls : j = 1 \/ (j - 1 \in DOMAIN calls' /\ calls'[j - 1] = calls[j])
      /\ UNCHANGED <<present, joins, floor, seq, seen, player, up, relay, presenter, epoch>>
      /\ Tell(present, line)
  BY FirstCarried
<1>2. first \in Beat /\ first.seq \in Nat
  BY <1>1, TypesOfLines, FloorAssumption
<1>3. line \in Line /\ line.what = "beat" /\ line.beat.epoch = epoch /\ line.beat.seq = first.seq
  <2>1. epoch \in 0 .. Unstamped
    BY <1>0, FloorAssumption DEF FloorTypes, GateTypes, Unstamped
  <2>2. [first EXCEPT !.epoch = epoch] \in Beat /\ [first EXCEPT !.epoch = epoch].epoch = epoch
        /\ [first EXCEPT !.epoch = epoch].seq = first.seq
    BY <1>2, <2>1 DEF Beat
  <2> QED BY <2>2, TypesOfLines
<1> HIDE DEF line
<1>4. 1 \in DOMAIN calls \ GrantsUnderWay
  BY <1>1 DEF GrantsUnderWay
<1>5. presenter = Host /\ \A m \in Members : \A k \in Numbers(m) : k < first.seq
  BY <1>0, <1>4 DEF HostInv, Newer
<1>6. present \in SUBSET Members /\ epoch \in Nat
  BY <1>0, HostIsNoGuest, FloorAssumption DEF FloorTypes, GateTypes
<1>7. OrderInv'
  BY <1>0, <1>1, <1>3, <1>5, <1>6, OrderTold
<1>8. FloorTypes'
  BY <1>0, <1>1, <1>3, TellTypes DEF FloorTypes, GateTypes, BeliefTypes, LinkTypes
<1>9. \A m \in Members : Notices(m)' = Notices(m) /\ \A j \in Notices(m) : inbox'[m][j] = inbox[m][j]
  BY <1>0, <1>1, <1>3, NoticesTold
<1>10. /\ \A j \in GrantsUnderWay' : j \in Nat /\ j + 1 \in GrantsUnderWay /\ calls'[j] = calls[j + 1]
       /\ \A j \in GrantsUnderWay : j - 1 \in GrantsUnderWay'
  BY <1>1 DEF GrantsUnderWay
<1>11. GrantInv'
  <2>1. GrantsUnderWay' = {} => floor[Host] = presenter
    BY <1>0, <1>10 DEF GrantInv
  <2>2. ASSUME NEW j \in GrantsUnderWay'
        PROVE  LET g == calls'[j].beat.from IN
                 /\ j = Len(calls') /\ epoch < Grants
                 /\ g \in Guests /\ g = floor[Host] /\ g # presenter
                 /\ up[g] = <<>> /\ relay[g] = NoBeat /\ (g \in present => floor[g] # g)
                 /\ \A m \in Members : Notices(m)' = {}
    <3>1. j \in Nat /\ j + 1 = Len(calls)
      BY <1>0, <1>10, <2>2 DEF GrantInv
    <3>2. j = Len(calls')
      BY <1>1, <3>1
    <3>3. ASSUME NEW g, g = calls[j + 1].beat.from
          PROVE  /\ epoch < Grants /\ g \in Guests /\ g = floor[Host] /\ g # presenter
                 /\ up[g] = <<>> /\ relay[g] = NoBeat /\ (g \in present => floor[g] # g)
                 /\ \A m \in Members : Notices(m) = {}
      BY <1>0, <1>10, <2>2, <3>3 DEF GrantInv
    <3> QED BY <1>9, <1>10, <2>2, <3>2, <3>3
  <2> QED BY <1>0, <1>1, <2>1, <2>2 DEF GrantInv
<1>12. NoticeInv'
  <2>1. \A g \in Guests : g \notin present => inbox'[g] = inbox[g]
    BY <1>0, <1>1, <1>3, TellAppends, HostIsNoGuest
  <2>2. \A g \in Guests : g \in Members
    BY HostIsNoGuest
  <2>3. ASSUME NEW m \in Members, NEW j \in Notices(m)'
        PROVE  /\ inbox'[m][j].beat.from = presenter
               /\ inbox'[m][j].what = IF m = Host THEN "state" ELSE "presenter"
    <3>1. j \in Notices(m) /\ inbox'[m][j] = inbox[m][j]
      BY <1>9, <2>3
    <3> QED BY <1>0, <3>1 DEF NoticeInv
  <2>4. ASSUME NEW g \in Guests
        PROVE  /\ g \notin present => inbox'[g] = <<>> /\ up[g] = <<>>
               /\ \A j, l \in Notices(g)' : j = l
               /\ g \in present /\ floor[g] = g /\ presenter # g => Notices(g)' # {}
    BY <1>0, <1>9, <2>1, <2>2 DEF NoticeInv
  <2> QED BY <1>1, <2>3, <2>4 DEF NoticeInv
<1>13. RelayInv'
  BY <1>0, <1>1 DEF RelayInv
<1>14. HostInv'
  <2>1. ASSUME NEW m \in Members, NEW k \in Numbers(m)' PROVE k \in Numbers(m) \/ k = first.seq
    BY <1>0, <1>1, <1>3, <2>1, NumbersTold
  <2>2. \A j \in DOMAIN calls' \ GrantsUnderWay' :
          j \in Nat /\ 1 < j + 1 /\ j + 1 \in DOMAIN calls \ GrantsUnderWay /\ calls'[j] = calls[j + 1]
    BY <1>1 DEF GrantsUnderWay
  <2>3. ASSUME NEW j \in DOMAIN calls' \ GrantsUnderWay'
        PROVE  \A m \in Members : \A k \in Numbers(m)' : k < calls'[j].beat.seq
    <3>1. first.seq < calls'[j].beat.seq /\ \A m \in Members : \A k \in Numbers(m) : k < calls'[j].beat.seq
      BY <1>0, <1>4, <2>2, <2>3 DEF HostInv, Newer
    <3> QED BY <2>1, <3>1
  <2>4. ASSUME NEW j \in DOMAIN calls' \ GrantsUnderWay', NEW l \in DOMAIN calls' \ GrantsUnderWay', l < j
        PROVE  calls'[l].beat.seq < calls'[j].beat.seq
    <3>1. l + 1 < j + 1
      BY <2>2, <2>4
    <3> QED BY <1>0, <2>2, <2>4, <3>1 DEF HostInv
  <2>5. ASSUME floor[Host] = Host, NEW j \in DOMAIN calls' \ GrantsUnderWay'
        PROVE  calls'[j].beat.seq <= seq[Host]
    BY <1>0, <2>2, <2>5 DEF HostInv
  <2>6. ASSUME floor[Host] = Host PROVE \A m \in Members : \A k \in Numbers(m)' : k < seq[Host] + 1
    <3>1. first.seq <= seq[Host] /\ \A m \in Members : \A k \in Numbers(m) : k < seq[Host] + 1
      BY <1>0, <1>4, <1>5, <2>6 DEF HostInv, Newer
    <3>2. seq[Host] \in Nat
      BY <1>0, HostIsNoGuest, FloorAssumption DEF FloorTypes, BeliefTypes
    <3> QED BY <1>2, <2>1, <3>1, <3>2
  <2> QED BY <1>1, <1>5, <2>3, <2>4, <2>5, <2>6 DEF HostInv, Newer
<1>15. GuestInv'
  BY <1>1, <1>5 DEF GuestInv
<1> QED BY <1>7, <1>8, <1>11, <1>12, <1>13, <1>14, <1>15 DEF FloorInv

LEMMA CarriesGrant ==
  ASSUME Slips = {}, FloorInv, NEW i \in 1 .. Len(calls), CarriesOut(i), calls[1].what = "presenter"
  PROVE  FloorInv'
<1> PICK g : g = calls[1].beat.from
  OBVIOUS
<1> DEFINE line == GrantLine(g)
<1>0. LinkTypes /\ FloorTypes /\ NoticeInv /\ OrderInv /\ GrantInv /\ RelayInv
  BY DEF FloorInv, FloorTypes
<1>1. /\ 1 \in DOMAIN calls /\ calls' \in Seq(Line)
      /\ Len(calls) \in Nat /\ Len(calls') = Len(calls) - 1
      /\ UNCHANGED <<present, joins, floor, seq, seen, player, up, relay>>
      /\ presenter' = g /\ epoch' = epoch + 1 /\ Tell(present, line)
      /\ \A h \in Guests : relay[h].epoch # Unstamped
  BY FirstCarried DEF GrantGoesOut
<1>2. /\ 1 = Len(calls) /\ epoch < Grants
      /\ g \in Guests /\ g = floor[Host] /\ g # presenter
      /\ up[g] = <<>> /\ relay[g] = NoBeat /\ (g \in present => floor[g] # g)
      /\ \A m \in Members : Notices(m) = {}
  <2>1. 1 \in GrantsUnderWay
    BY <1>1 DEF GrantsUnderWay
  <2> QED BY <1>0, <2>1 DEF GrantInv
<1>3. g \in Members /\ g # Host /\ line \in Line /\ line.what = "presenter" /\ line.beat.from = g
  BY <1>2, HostIsNoGuest, TypesOfLines
<1> HIDE DEF line
<1>4. epoch \in Nat /\ epoch' \in 0 .. Grants /\ epoch' # 0 /\ present \subseteq Guests
  BY <1>0, <1>1, <1>2, FloorAssumption DEF FloorTypes, GateTypes
<1>5. calls' = <<>> /\ DOMAIN calls' = {}
  <2>1. Len(calls') = Len(calls) - 1 /\ Len(calls) = 1
    BY <1>1, <1>2
  <2>2. Len(calls') = 0
    BY <2>1
  <2>3. calls' \in Seq(Line)
    BY <1>1
  <2> QED BY <2>2, <2>3
<1>6. FloorTypes'
  BY <1>0, <1>1, <1>3, <1>4, TellTypes DEF FloorTypes, GateTypes, BeliefTypes, LinkTypes
<1>7. GrantsUnderWay' = {} /\ floor'[Host] = g
  BY <1>1, <1>2, <1>5 DEF GrantsUnderWay
<1>8. GrantInv'
  BY <1>1, <1>3, <1>4, <1>7 DEF GrantInv
<1>9. \A m \in Members :
        /\ Notices(m)' = IF m \in present THEN {Len(inbox[m]) + 1} ELSE {}
        /\ m \in present => inbox'[m][Len(inbox[m]) + 1] = line
  BY <1>0, <1>1, <1>2, <1>3, NoticesTold
<1>10. NoticeInv'
  <2>1. ASSUME NEW m \in Members, NEW j \in Notices(m)'
        PROVE  /\ inbox'[m][j].beat.from = g
               /\ inbox'[m][j].what = IF m = Host THEN "state" ELSE "presenter"
    <3>1. m \in present /\ j = Len(inbox[m]) + 1 /\ m # Host
      BY <1>4, <1>9, <2>1, HostIsNoGuest
    <3> QED BY <1>3, <1>9, <3>1
  <2>2. ASSUME NEW h \in Guests
        PROVE  /\ h \notin present => inbox'[h] = <<>> /\ up[h] = <<>>
               /\ \A j, l \in Notices(h)' : j = l
               /\ h \in present => Notices(h)' # {}
    <3>1. h \in Members
      BY HostIsNoGuest
    <3>2. h \notin present => inbox'[h] = inbox[h]
      BY <1>0, <1>1, <1>3, <3>1, TellAppends
    <3> QED BY <1>0, <1>9, <3>1, <3>2 DEF NoticeInv
  <2> QED BY <1>1, <2>1, <2>2 DEF NoticeInv
<1>11. RelayInv'
  <2>1. ASSUME NEW h \in Guests, relay[h] # NoBeat PROVE h # g /\ relay[h].epoch < epoch + 1
    <3>1. CASE h # presenter
      <4>1. relay[h].epoch \in Nat /\ relay[h].epoch < epoch
        BY <1>0, <2>1, <3>1, TypesOfLines, FloorAssumption DEF RelayInv, LinkTypes, Unstamped
      <4> QED BY <1>2, <1>4, <2>1, <4>1
    <3>2. CASE h = presenter
      BY <1>0, <1>1, <1>2, <1>4, <2>1, <3>2 DEF RelayInv
    <3> QED BY <3>1, <3>2
  <2> QED BY <1>1, <2>1 DEF RelayInv
<1>12. ASSUME NEW m \in Members
       PROVE  /\ Current(m)' = {} /\ seen'[m].epoch < epoch'
              /\ \A j \in DOMAIN inbox'[m] : inbox'[m][j].what = "beat" => inbox'[m][j].beat.epoch < epoch'
  <2>1. \A j \in DOMAIN inbox[m] : inbox[m][j].what = "beat" => inbox[m][j].beat.epoch < epoch + 1
    <3>1. ASSUME NEW j \in DOMAIN inbox[m], inbox[m][j].what = "beat" PROVE inbox[m][j].beat.epoch < epoch + 1
      <4>1. inbox[m] \in Seq(Line)
        BY <1>0 DEF LinkTypes
      <4>2. inbox[m][j].beat.epoch \in Nat
        BY <3>1, <4>1, TypesOfLines, FloorAssumption DEF Unstamped
      <4>3. inbox[m][j].beat.epoch <= epoch
        BY <1>0, <3>1 DEF OrderInv
      <4> QED BY <1>4, <4>2, <4>3
    <3> QED BY <3>1
  <2>2. \A j \in DOMAIN inbox'[m] : (j \in DOMAIN inbox[m] /\ inbox'[m][j] = inbox[m][j]) \/ inbox'[m][j] = line
    BY <1>0, <1>1, <1>3, TellAppends
  <2>3. \A j \in DOMAIN inbox'[m] : inbox'[m][j].what = "beat" => inbox'[m][j].beat.epoch < epoch + 1
    BY <1>3, <2>1, <2>2
  <2>4. seen[m].epoch <= epoch /\ seen[m].epoch \in Nat
    BY <1>0, FloorAssumption DEF OrderInv, FloorTypes, BeliefTypes
  <2>5. ASSUME NEW j \in Current(m)' PROVE FALSE
    <3>1. j \in DOMAIN inbox'[m] /\ inbox'[m][j].what = "beat" /\ inbox'[m][j].beat.epoch = epoch + 1
      BY <1>1, <2>5 DEF Current
    <3> QED BY <1>4, <2>3, <3>1
  <2> QED BY <1>1, <1>4, <2>3, <2>4, <2>5
<1>13. OrderInv'
  <2>1. ASSUME NEW m \in Members
        PROVE  /\ seen'[m].epoch <= epoch' /\ seen'[m].epoch # epoch'
               /\ \A j \in DOMAIN inbox'[m] : inbox'[m][j].what = "beat" => inbox'[m][j].beat.epoch <= epoch'
    <3>1. seen'[m].epoch \in Nat /\ epoch' \in Nat
      BY <1>0, <1>1, <1>4, FloorAssumption DEF FloorTypes, BeliefTypes
    <3>2. inbox'[m] \in Seq(Line)
      BY <1>6 DEF FloorTypes, LinkTypes
    <3>3. ASSUME NEW j \in DOMAIN inbox'[m] PROVE inbox'[m][j].beat.epoch \in Nat
      BY <3>2, <3>3, TypesOfLines, FloorAssumption DEF Unstamped
    <3>4. \A j \in DOMAIN inbox'[m] : inbox'[m][j].what = "beat" => inbox'[m][j].beat.epoch <= epoch'
      BY <1>12, <3>1, <3>3
    <3> QED BY <1>12, <3>1, <3>4
  <2>2. \A m \in Members : Current(m)' = {}
    BY <1>12
  <2> QED BY <2>1, <2>2 DEF OrderInv
<1>14. \A m \in Members : Numbers(m)' = {}
  <2> TAKE m \in Members
  <2>1. Current(m)' = {} /\ seen'[m].epoch # epoch'
    <3>1. seen'[m].epoch \in Nat /\ epoch' \in Nat
      BY <1>0, <1>1, <1>4, FloorAssumption DEF FloorTypes, BeliefTypes
    <3> QED BY <1>12, <3>1
  <2> QED BY <2>1 DEF Numbers
<1>15. HostInv'
  BY <1>1, <1>3, <1>5 DEF HostInv
<1>16. GuestInv'
  <2>1. DOMAIN up'[g] = {} /\ relay'[g] = NoBeat /\ up'[g] = <<>>
    BY <1>1, <1>2
  <2>2. Notices(g)' # {} => floor'[g] # g
    BY <1>1, <1>2, <1>3, <1>9
  <2> QED BY <1>1, <1>14, <2>1, <2>2 DEF GuestInv, Newer
<1> QED BY <1>6, <1>8, <1>10, <1>11, <1>13, <1>15, <1>16 DEF FloorInv

LEMMA ChecksStep ==
  ASSUME Slips = {}, FloorInv, NEW g \in Guests, RelayChecks(g) PROVE FloorInv'
<1>0. LinkTypes /\ FloorTypes /\ NoticeInv /\ OrderInv /\ GrantInv /\ RelayInv /\ HostInv /\ GuestInv
  BY DEF FloorInv, FloorTypes
<1> DEFINE first == up[g][1]
           new == [from |-> g, epoch |-> Unstamped, seq |-> first]
<1>1. /\ relay[g] = NoBeat /\ up[g] # <<>>
      /\ UNCHANGED <<presenter, epoch, present, joins, floor, seq, seen, player, calls, inbox>>
      /\ up' = [up EXCEPT ![g] = Tail(@)]
      /\ relay' = IF presenter = g THEN [relay EXCEPT ![g] = new] ELSE relay
  <2>1. up[g] \in Seq(1 .. Beats)
    BY <1>0 DEF LinkTypes
  <2> QED BY <2>1 DEF RelayChecks, CanDrive, believedVars
<1>2. /\ first \in 1 .. Beats /\ 1 \in DOMAIN up[g] /\ up'[g] \in Seq(1 .. Beats)
      /\ \A i \in DOMAIN up'[g] : i \in Nat /\ i >= 1 /\ i + 1 \in DOMAIN up[g] /\ up'[g][i] = up[g][i + 1]
      /\ \A h \in Guests : h # g => up'[h] = up[h] /\ relay'[h] = relay[h]
  <2>1. up[g] \in Seq(1 .. Beats) /\ up'[g] = Tail(up[g])
    BY <1>0, <1>1 DEF LinkTypes
  <2>2. \A h \in Guests : h # g => up'[h] = up[h] /\ relay'[h] = relay[h]
    BY <1>0, <1>1 DEF LinkTypes
  <2>3. /\ 1 \in DOMAIN up[g] /\ first \in 1 .. Beats /\ Tail(up[g]) \in Seq(1 .. Beats)
        /\ \A i \in DOMAIN Tail(up[g]) :
             i \in Nat /\ i >= 1 /\ i + 1 \in DOMAIN up[g] /\ Tail(up[g])[i] = up[g][i + 1]
    BY <1>1, <2>1, Shifted
  <2> QED BY <2>1, <2>2, <2>3
<1>3. new \in Beat /\ g # Host /\ g \in Members /\ new # NoBeat
  <2>1. Unstamped \in 0 .. Unstamped /\ Unstamped # 0 /\ first \in 0 .. Beats
    BY <1>2, FloorAssumption DEF Unstamped
  <2> QED BY <2>1, HostIsNoGuest DEF Beat, NoBeat
<1>4. new.epoch = Unstamped /\ new.seq = first
  OBVIOUS
<1> HIDE DEF new
<1>5. FloorTypes'
  <2>1. up' \in [Guests -> Seq(1 .. Beats)]
    BY <1>0, <1>1, <1>2 DEF LinkTypes
  <2>2. relay' \in [Guests -> Beat]
    BY <1>0, <1>1, <1>3 DEF LinkTypes
  <2> QED BY <1>0, <1>1, <2>1, <2>2 DEF FloorTypes, GateTypes, BeliefTypes, LinkTypes
<1>6. g \in present
  BY <1>0, <1>1 DEF NoticeInv
<1>7. GrantInv'
  <2>1. \A h \in Guests : up[h] = <<>> => up'[h] = <<>> /\ relay'[h] = relay[h]
    BY <1>1, <1>2
  <2> QED BY <1>0, <1>1, <2>1, GrantQuiet, LinksStand
<1>8. NoticeInv' /\ OrderInv'
  <2>1. \A h \in Guests : h \notin present => up'[h] = up[h]
    BY <1>2, <1>6
  <2> QED BY <1>0, <1>1, <2>1, LinksStand DEF NoticeInv, Notices
<1>9. RelayInv'
  <2>1. CASE presenter = g
    <3>1. relay'[g].epoch = Unstamped
      BY <1>0, <1>1, <1>4, <2>1 DEF LinkTypes
    <3> QED BY <1>0, <1>1, <1>2, <2>1, <3>1 DEF RelayInv
  <2>2. CASE presenter # g
    BY <1>0, <1>1, <2>2 DEF RelayInv
  <2> QED BY <2>1, <2>2
<1>10. HostInv'
  BY <1>0, <1>1, HostQuiet, LinksStand
<1>11. GuestInv'
  <2>1. CASE presenter = Host
    BY <1>1, <2>1 DEF GuestInv
  <2>2. CASE presenter # g /\ presenter # Host
    <3>1. presenter \in Guests
      BY <1>0, <2>2, HostIsNoGuest DEF FloorTypes, GateTypes
    <3> QED BY <1>0, <1>1, <1>2, <2>2, <3>1, GuestQuiet, LinksStand
  <2>3. CASE presenter = g
    <3>1. \A m \in Members : Numbers(m)' = Numbers(m) /\ Notices(m)' = Notices(m)
      BY <1>1, LinksStand
    <3>2. relay'[g].epoch = Unstamped /\ relay'[g].seq = first
      BY <1>0, <1>1, <1>4, <2>3 DEF LinkTypes
    <3>3. /\ \A m \in Members : \A k \in Numbers(m) : k < first
          /\ floor[g] = g => first <= seq[g] /\ Newer(seq[g] + 1)
      BY <1>0, <1>2, <1>3, <2>3 DEF GuestInv, Newer
    <3>4. \A m \in Members : \A k \in Numbers(m)' : k < first
      BY <3>1, <3>3
    <3>5. floor[g] = g => Newer(seq[g] + 1)'
      BY <1>1, <3>1, <3>3 DEF Newer
    <3>6. ASSUME NEW i \in DOMAIN up'[g]
          PROVE  /\ \A m \in Members : \A k \in Numbers(m)' : k < up'[g][i]
                 /\ \A j \in DOMAIN up'[g] : j < i => up'[g][j] < up'[g][i]
                 /\ first < up'[g][i]
                 /\ floor[g] = g => up'[g][i] <= seq[g]
      <4>1. i + 1 \in DOMAIN up[g] /\ up'[g][i] = up[g][i + 1] /\ 1 < i + 1
        BY <1>2, <3>6
      <4>2. \A m \in Members : \A k \in Numbers(m)' : k < up[g][i + 1]
        BY <1>0, <1>3, <2>3, <3>1, <4>1 DEF GuestInv, Newer
      <4>3. \A j \in DOMAIN up[g] : j < i + 1 => up[g][j] < up[g][i + 1]
        BY <1>0, <1>3, <2>3, <4>1 DEF GuestInv
      <4>4. floor[g] = g => up[g][i + 1] <= seq[g]
        BY <1>0, <1>3, <2>3, <4>1 DEF GuestInv
      <4>5. ASSUME NEW j \in DOMAIN up'[g], j < i PROVE up'[g][j] < up'[g][i]
        <5>1. j + 1 \in DOMAIN up[g] /\ up'[g][j] = up[g][j + 1] /\ j \in Nat /\ i \in Nat
          BY <1>2, <3>6, <4>5
        <5>2. j + 1 < i + 1
          BY <4>5, <5>1
        <5> QED BY <4>1, <4>3, <5>1, <5>2
      <4>6. first < up'[g][i]
        BY <1>2, <4>1, <4>3
      <4> QED BY <4>1, <4>2, <4>4, <4>5, <4>6
    <3>7. Notices(g)' = {}
      BY <1>0, <1>1, <1>3, <2>3, <3>1 DEF GuestInv
    <3> QED BY <1>1, <1>3, <2>3, <3>2, <3>3, <3>4, <3>5, <3>6, <3>7 DEF GuestInv, Newer
  <2> QED BY <2>1, <2>2, <2>3
<1> QED BY <1>5, <1>7, <1>8, <1>9, <1>10, <1>11 DEF FloorInv

\* A beat that is told touches no notice, and the rest of the links stands.
LEMMA BeatTold ==
  ASSUME FloorInv, NEW S \in SUBSET Members, S \subseteq present \union {Host}, NEW line \in Line, line.what = "beat", Tell(S, line),
         UNCHANGED <<presenter, epoch, present, joins, floor, seq, seen, player, calls, up>>,
         relay' \in [Guests -> Beat], \A g \in Guests : relay[g] = NoBeat => relay'[g] = NoBeat
  PROVE  FloorTypes' /\ GrantInv' /\ NoticeInv' /\ \A m \in Members : Notices(m)' = Notices(m)
<1>0. LinkTypes /\ FloorTypes /\ NoticeInv /\ GrantInv
  BY DEF FloorInv, FloorTypes
<1>1. \A m \in Members : Notices(m)' = Notices(m) /\ \A j \in Notices(m) : inbox'[m][j] = inbox[m][j]
  BY <1>0, NoticesTold
<1>2. FloorTypes'
  BY <1>0, TellTypes DEF FloorTypes, GateTypes, BeliefTypes, LinkTypes
<1>3. GrantInv'
  BY <1>0, <1>1, GrantQuiet
<1>4. NoticeInv'
  <2>1. ASSUME NEW m \in Members, NEW j \in Notices(m)'
        PROVE  /\ inbox'[m][j].beat.from = presenter
               /\ inbox'[m][j].what = IF m = Host THEN "state" ELSE "presenter"
    <3>1. j \in Notices(m) /\ inbox'[m][j] = inbox[m][j]
      BY <1>1, <2>1
    <3> QED BY <1>0, <3>1 DEF NoticeInv
  <2>2. ASSUME NEW g \in Guests
        PROVE  /\ g \notin present => inbox'[g] = <<>> /\ up[g] = <<>>
               /\ \A j, l \in Notices(g)' : j = l
               /\ g \in present /\ floor[g] = g /\ presenter # g => Notices(g)' # {}
    <3>1. g \in Members /\ g # Host
      BY HostIsNoGuest
    <3>2. g \notin present => inbox'[g] = inbox[g]
      BY <1>0, <3>1, TellAppends
    <3> QED BY <1>0, <1>1, <3>1, <3>2 DEF NoticeInv
  <2> QED BY <2>1, <2>2 DEF NoticeInv
<1> QED BY <1>1, <1>2, <1>3, <1>4

\* What is relayed is a beat of the presenter, or of an earlier epoch.
LEMMA Relayed ==
  ASSUME FloorInv, NEW g \in Guests, relay[g] # NoBeat
  PROVE  /\ relay[g] \in Beat /\ relay[g].seq \in Nat /\ relay[g].epoch \in Nat /\ epoch \in 0 .. Grants
         /\ BeatLine(relay[g]) \in Line /\ BeatLine(relay[g]).what = "beat" /\ BeatLine(relay[g]).beat = relay[g]
         /\ IF g = presenter THEN relay[g].epoch \in {epoch, Unstamped} ELSE relay[g].epoch < epoch
         /\ g = presenter => presenter # Host /\ Notices(g) = {}
         /\ g \in Members /\ g # Host
<1>1. relay[g] \in Beat /\ epoch \in 0 .. Grants /\ GuestInv /\ RelayInv
  BY DEF FloorInv, FloorTypes, LinkTypes, GateTypes
<1>2. g \in Members /\ g # Host
  BY HostIsNoGuest
<1>3. g = presenter => Notices(g) = {}
  BY <1>1, <1>2 DEF GuestInv
<1>4. relay[g].seq \in Nat /\ relay[g].epoch \in Nat
  BY <1>1, TypesOfLines, FloorAssumption DEF Unstamped
<1>5. IF g = presenter THEN relay[g].epoch \in {epoch, Unstamped} ELSE relay[g].epoch < epoch
  BY <1>1 DEF RelayInv
<1> QED BY <1>1, <1>2, <1>3, <1>4, <1>5, TypesOfLines

LEMMA StampsStep ==
  ASSUME Slips = {}, FloorInv, NEW g \in Guests, RelayStamps(g) PROVE FloorInv'
<1>0. LinkTypes /\ FloorTypes /\ NoticeInv /\ OrderInv /\ GrantInv /\ RelayInv /\ HostInv /\ GuestInv
  BY DEF FloorInv, FloorTypes
<1> DEFINE line == BeatLine([relay[g] EXCEPT !.epoch = epoch])
<1>1. /\ relay[g].epoch = Unstamped /\ relay' = [relay EXCEPT ![g].epoch = epoch]
      /\ relay'[g] = [relay[g] EXCEPT !.epoch = epoch] /\ Tell({Host}, line)
      /\ UNCHANGED <<presenter, epoch, present, joins, floor, seq, seen, player, calls, up>>
  BY <1>0 DEF RelayStamps, believedVars, LinkTypes
<1>2. relay[g] # NoBeat
  BY <1>1, TypesOfLines, FloorAssumption DEF Unstamped
<1>3. g = presenter /\ g # Host /\ g \in Members /\ epoch \in 0 .. Grants /\ relay[g].seq \in Nat
      /\ Notices(g) = {} /\ relay[g] \in Beat
  BY <1>1, <1>2, Relayed, FloorAssumption DEF Unstamped
<1>4. /\ relay'[g] \in Beat /\ relay'[g].epoch = epoch /\ relay'[g].seq = relay[g].seq /\ epoch # Unstamped
      /\ line \in Line /\ line.what = "beat" /\ line.beat.epoch = epoch /\ line.beat.seq = relay[g].seq
  <2>1. epoch \in 0 .. Unstamped /\ epoch # Unstamped /\ epoch <= epoch
    BY <1>3, FloorAssumption DEF Unstamped
  <2>2. [relay[g] EXCEPT !.epoch = epoch] \in Beat
    BY <1>3, <2>1 DEF Beat
  <2>3. [relay[g] EXCEPT !.epoch = epoch].epoch = epoch /\ [relay[g] EXCEPT !.epoch = epoch].seq = relay[g].seq
    BY <1>3 DEF Beat
  <2> QED BY <1>1, <2>1, <2>2, <2>3, TypesOfLines
<1> HIDE DEF line
<1>5. /\ \A m \in Members : \A k \in Numbers(m) : k < relay[g].seq
      /\ floor[g] = g => relay[g].seq <= seq[g] /\ Newer(seq[g] + 1)
      /\ \A i \in DOMAIN up[g] :
           /\ Newer(up[g][i]) /\ relay[g].seq < up[g][i] /\ (floor[g] = g => up[g][i] <= seq[g])
           /\ \A j \in DOMAIN up[g] : j < i => up[g][j] < up[g][i]
  BY <1>0, <1>1, <1>2, <1>3 DEF GuestInv
<1>6. relay' \in [Guests -> Beat] /\ \A h \in Guests : h # g => relay'[h] = relay[h]
  BY <1>0, <1>1, <1>4 DEF LinkTypes
<1>7. FloorTypes' /\ GrantInv' /\ NoticeInv' /\ \A m \in Members : Notices(m)' = Notices(m)
  <2>1. \A h \in Guests : relay[h] = NoBeat => relay'[h] = NoBeat
    BY <1>2, <1>6
  <2>2. {Host} \in SUBSET Members /\ {Host} \subseteq present \union {Host}
    BY HostIsNoGuest
  <2> QED BY <1>1, <1>4, <1>6, <2>1, <2>2, BeatTold
<1>8. OrderInv'
  <2>1. {Host} \in SUBSET Members /\ epoch <= epoch
    BY <1>3, HostIsNoGuest
  <2> QED BY <1>0, <1>1, <1>4, <1>5, <2>1, OrderTold
<1>9. RelayInv'
  BY <1>0, <1>1, <1>3, <1>4, <1>6 DEF RelayInv
<1>10. HostInv'
  BY <1>0, <1>1, <1>3, HostGone
<1>11. \A m \in Members : Numbers(m)' \subseteq Numbers(m) \union (IF m = Host THEN {relay[g].seq} ELSE {})
  <2> TAKE m \in Members
  <2>1. m \in {Host} <=> m = Host
    OBVIOUS
  <2> QED BY <1>0, <1>1, <1>4, <2>1, NumbersTold
<1>12. GuestInv'
  <2>1. ASSUME NEW i \in DOMAIN up[g] PROVE \A m \in Members : \A k \in Numbers(m)' : k < up[g][i]
    BY <1>5, <1>11, <2>1 DEF Newer
  <2>2. floor[g] = g => \A m \in Members : \A k \in Numbers(m)' : k < seq[g] + 1
    <3>1. seq[g] \in Nat
      BY <1>0, <1>3, FloorAssumption DEF FloorTypes, BeliefTypes
    <3> QED BY <1>3, <1>5, <1>11, <3>1 DEF Newer
  <2>3. \A m \in Members : m # Host => \A k \in Numbers(m)' : k < relay'[g].seq
    BY <1>4, <1>5, <1>11
  <2>4. Notices(g)' = {} /\ presenter' = g /\ up' = up /\ floor' = floor /\ seq' = seq
    BY <1>1, <1>3, <1>7
  <2> QED BY <1>3, <1>4, <1>5, <2>1, <2>2, <2>3, <2>4 DEF GuestInv, Newer
<1> QED BY <1>7, <1>8, <1>9, <1>10, <1>12 DEF FloorInv

LEMMA GivesStep ==
  ASSUME Slips = {}, FloorInv, NEW g \in Guests, RelayGives(g) PROVE FloorInv'
<1>0. LinkTypes /\ FloorTypes /\ NoticeInv /\ OrderInv /\ GrantInv /\ RelayInv /\ HostInv /\ GuestInv
  BY DEF FloorInv, FloorTypes
<1> DEFINE line == BeatLine(relay[g])
<1>1. /\ relay[g] # NoBeat /\ relay[g].epoch # Unstamped /\ relay' = [relay EXCEPT ![g] = NoBeat]
      /\ Tell(present \ {g}, line)
      /\ UNCHANGED <<presenter, epoch, present, joins, floor, seq, seen, player, calls, up>>
  BY DEF RelayGives, believedVars
<1>2. /\ relay[g].seq \in Nat /\ relay[g].epoch \in Nat /\ epoch \in Nat /\ g # Host /\ g \in Members
      /\ line \in Line /\ line.what = "beat" /\ line.beat = relay[g]
      /\ IF g = presenter THEN relay[g].epoch = epoch ELSE relay[g].epoch < epoch
      /\ g = presenter => Notices(g) = {}
  BY <1>1, Relayed
<1> HIDE DEF line
<1>3. /\ relay' \in [Guests -> Beat] /\ relay'[g] = NoBeat /\ \A h \in Guests : h # g => relay'[h] = relay[h]
      /\ present \ {g} \in SUBSET Members /\ present \ {g} \subseteq present \union {Host} /\ Host \notin present
  BY <1>0, <1>1, TypesOfLines, HostIsNoGuest DEF FloorTypes, GateTypes, LinkTypes
<1>4. FloorTypes' /\ GrantInv' /\ NoticeInv' /\ \A m \in Members : Notices(m)' = Notices(m)
  <2>1. \A h \in Guests : relay[h] = NoBeat => relay'[h] = NoBeat
    BY <1>3
  <2> QED BY <1>1, <1>2, <1>3, <2>1, BeatTold
<1>5. RelayInv'
  BY <1>0, <1>1, <1>3 DEF RelayInv
<1>6. CASE g = presenter
  <2>1. /\ \A m \in Members : m # Host => \A k \in Numbers(m) : k < relay[g].seq
        /\ floor[g] = g => relay[g].seq <= seq[g] /\ Newer(seq[g] + 1)
        /\ \A i \in DOMAIN up[g] :
             /\ Newer(up[g][i]) /\ relay[g].seq < up[g][i] /\ (floor[g] = g => up[g][i] <= seq[g])
             /\ \A j \in DOMAIN up[g] : j < i => up[g][j] < up[g][i]
    BY <1>0, <1>1, <1>2, <1>6 DEF GuestInv
  <2>2. OrderInv'
    <3>1. \A m \in present \ {g} : m \in Members /\ m # Host
      BY <1>3
    <3>2. line.beat.epoch <= epoch /\ \A m \in present \ {g} : \A k \in Numbers(m) : k < line.beat.seq
      BY <1>2, <1>6, <2>1, <3>1
    <3> QED BY <1>0, <1>1, <1>2, <1>3, <3>2, OrderTold
  <2>3. HostInv'
    BY <1>0, <1>1, <1>2, <1>6, HostGone
  <2>4. \A m \in Members : Numbers(m)' \subseteq Numbers(m) \union {relay[g].seq}
    BY <1>0, <1>1, <1>2, NumbersTold
  <2>5. GuestInv'
    <3>1. ASSUME NEW i \in DOMAIN up[g] PROVE \A m \in Members : \A k \in Numbers(m)' : k < up[g][i]
      BY <2>1, <2>4, <3>1 DEF Newer
    <3>2. floor[g] = g => \A m \in Members : \A k \in Numbers(m)' : k < seq[g] + 1
      <4>1. seq[g] \in Nat
        BY <1>0, <1>2, FloorAssumption DEF FloorTypes, BeliefTypes
      <4> QED BY <1>2, <2>1, <2>4, <4>1 DEF Newer
    <3>3. Notices(g)' = {} /\ presenter' = g /\ up' = up /\ floor' = floor /\ seq' = seq
      BY <1>1, <1>2, <1>4, <1>6
    <3> QED BY <1>3, <2>1, <3>1, <3>2, <3>3 DEF GuestInv, Newer
  <2> QED BY <1>4, <1>5, <2>2, <2>3, <2>5 DEF FloorInv
<1>7. CASE g # presenter
  <2>1. line.beat.epoch <= epoch /\ line.beat.epoch # epoch
    BY <1>2, <1>7
  <2>2. OrderInv'
    BY <1>0, <1>1, <1>2, <1>3, <2>1, OrderTold
  <2>3. \A m \in Members : Numbers(m)' \subseteq Numbers(m)
    <3> TAKE m \in Members
    <3>1. Numbers(m)' \subseteq Numbers(m) \union
            IF m \in present \ {g} /\ line.what = "beat" /\ line.beat.epoch = epoch THEN {line.beat.seq} ELSE {}
      BY <1>0, <1>1, <1>2, NumbersTold
    <3> QED BY <2>1, <3>1
  <2>4. HostInv'
    BY <1>0, <1>1, <2>3, HostQuiet
  <2>5. GuestInv'
    <3>1. CASE presenter = Host
      BY <1>1, <3>1 DEF GuestInv
    <3>2. CASE presenter # Host
      <4>1. presenter \in Members /\ presenter \in Guests
        BY <1>0, <3>2, HostIsNoGuest DEF FloorTypes, GateTypes
      <4>2. relay'[presenter] = relay[presenter] /\ Notices(presenter)' = Notices(presenter)
        BY <1>1, <1>3, <1>4, <1>7, <4>1
      <4> QED BY <1>0, <1>1, <2>3, <4>2, GuestQuiet
    <3> QED BY <3>1, <3>2
  <2> QED BY <1>4, <1>5, <2>2, <2>4, <2>5 DEF FloorInv
<1> QED BY <1>6, <1>7

-----------------------------------------------------------------------------
(* Theorems *)

LEMMA FloorStarts == FloorInit => FloorInv
<1> SUFFICES ASSUME FloorInit PROVE FloorInv
  OBVIOUS
<1>0. DOMAIN <<>> = {} /\ <<>> \in Seq(Line) /\ <<>> \in Seq(1 .. Beats)
  OBVIOUS
<1>1. 0 \in 0 .. Grants /\ 0 \in 0 .. Beats /\ 0 \in 0 .. Joins /\ Host \in Members /\ NoBeat \in Beat
  BY FloorAssumption, HostIsNoGuest, TypesOfLines
<1>2. FloorTypes
  <2>1. GateTypes
    BY <1>1 DEF FloorInit, GateTypes
  <2>2. BeliefTypes
    BY <1>1 DEF FloorInit, BeliefTypes
  <2>3. LinkTypes
    BY <1>0, <1>1 DEF FloorInit, LinkTypes
  <2> QED BY <2>1, <2>2, <2>3 DEF FloorTypes
<1>3. GrantsUnderWay = {} /\ DOMAIN calls = {} /\ floor[Host] = Host /\ seq[Host] = 0
  BY <1>0, <1>1 DEF FloorInit, GrantsUnderWay
<1>4. \A m \in Members : /\ DOMAIN inbox[m] = {} /\ seen[m].epoch = 0 /\ seen[m].seq = 0
                         /\ Notices(m) = {} /\ Current(m) = {}
  <2>1. \A m \in Members : DOMAIN inbox[m] = {} /\ seen[m].epoch = 0 /\ seen[m].seq = 0
    BY <1>0 DEF FloorInit
  <2> QED BY <2>1 DEF Notices, Current
<1>5. GrantInv
  BY <1>3 DEF FloorInit, GrantInv
<1>6. NoticeInv
  <2>1. \A g \in Guests : inbox[g] = <<>> /\ up[g] = <<>> /\ floor[g] = Host /\ g \in Members /\ g # Host
    BY HostIsNoGuest DEF FloorInit
  <2> QED BY <1>4, <2>1 DEF FloorInit, NoticeInv
<1>7. RelayInv
  BY DEF FloorInit, RelayInv
<1>8. OrderInv
  BY <1>4 DEF FloorInit, OrderInv
<1>9. HostInv
  <2>1. \A m \in Members : \A k \in Numbers(m) : k < 0 + 1
    <3> SUFFICES ASSUME NEW m \in Members, NEW k \in Numbers(m) PROVE k = 0
      OBVIOUS
    <3> QED BY <1>4, InNumbers
  <2> QED BY <1>3, <2>1 DEF FloorInit, HostInv, Newer
<1>10. GuestInv
  BY DEF FloorInit, GuestInv
<1> QED BY <1>2, <1>5, <1>6, <1>7, <1>8, <1>9, <1>10 DEF FloorInv

LEMMA FloorSteps ==
  ASSUME Slips = {}, FloorInv, [FloorNext]_floorVars PROVE FloorInv'
<1>1. CASE UNCHANGED floorVars
  <2>1. UNCHANGED <<presenter, epoch, present, joins, floor, seq, seen, player, calls, up, relay, inbox>>
    BY <1>1 DEF floorVars, believedVars
  <2>2. FloorTypes' /\ NoticeInv' /\ RelayInv' /\ OrderInv'
    BY <2>1, LinksStand
       DEF FloorInv, FloorTypes, GateTypes, BeliefTypes, LinkTypes, NoticeInv, Notices, RelayInv
  <2>3. GrantInv' /\ HostInv' /\ GuestInv'
    BY <2>1, LinksStand, GrantQuiet, HostQuiet, GuestQuiet DEF FloorInv
  <2> QED BY <2>2, <2>3 DEF FloorInv
<1>2. ASSUME NEW m \in Members, SendsBeat(m) PROVE FloorInv'
  BY <1>2, HostIsNoGuest, HostSends, GuestSends
<1>3. ASSUME NEW m \in Members, Hears(m) PROVE FloorInv'
  BY <1>3, HearsBeatStep, HearsNoticeStep
<1>4. ASSUME NEW m \in Members, Loading(m) PROVE FloorInv'
  BY <1>4, LoadingStep
<1>5. ASSUME NEW g \in Guests, Grant(g) \/ Enter(g) \/ Leave(g) PROVE FloorInv'
  BY <1>5, GrantStep, EnterStep, LeaveStep
<1>6. ASSUME NEW i \in 1 .. Len(calls), CarriesOut(i) PROVE FloorInv'
  BY <1>6, CarriesBeat, CarriesGrant
<1>7. ASSUME NEW g \in Guests, RelayChecks(g) \/ RelayStamps(g) \/ RelayGives(g) PROVE FloorInv'
  BY <1>7, ChecksStep, StampsStep, GivesStep
<1> QED BY <1>1, <1>2, <1>3, <1>4, <1>5, <1>6, <1>7 DEF FloorNext

\* While none of the slips happens the gate, the pages and their links keep to
\* their types (use-co-review.ts, session.rs).
THEOREM FloorTypeCorrect ==
  ASSUME Slips = {} PROVE FloorSpec => []FloorTypeOK
<1>1. FloorInv => FloorTypeOK
  BY DEF FloorInv, FloorTypes, GateTypes, BeliefTypes, LinkTypes, FloorTypeOK
<1>2. FloorInit => FloorInv
  BY FloorStarts
<1>3. FloorInv /\ [FloorNext]_floorVars => FloorInv'
  BY FloorSteps
<1> QED BY <1>1, <1>2, <1>3, PTL DEF FloorSpec

\* Whoever has the floor is heard: while none of the slips happens, a beat of the
\* holder under the present epoch is taken by every member whose player is ready,
\* however often the floor changed hands and whoever came and went (acceptTransport).
THEOREM TheHolderIsHeard ==
  ASSUME Slips = {} PROVE FloorSpec => HolderIsHeard
<1> DEFINE Heeded == \A m \in Members :
       Hears(m) /\ FromTheHolder(Head(inbox[m])) /\ player[m] # "loading" =>
         seen'[m] = [epoch |-> epoch, seq |-> Head(inbox[m]).beat.seq]
<1>1. FloorInv /\ [FloorNext]_floorVars => [Heeded]_floorVars
  <2> SUFFICES ASSUME FloorInv, NEW m \in Members, Hears(m), FromTheHolder(Head(inbox[m])), player[m] # "loading"
               PROVE  seen'[m] = [epoch |-> epoch, seq |-> Head(inbox[m]).beat.seq]
    OBVIOUS
  <2>0. LinkTypes /\ FloorTypes /\ OrderInv
    BY DEF FloorInv, FloorTypes
  <2>1. 1 \in DOMAIN inbox[m] /\ Head(inbox[m]) = inbox[m][1] /\ inbox[m][1] \in Line
    BY <2>0, HearsTail
  <2> DEFINE beat == inbox[m][1].beat
  <2>2. inbox[m][1].what = "beat" /\ beat.epoch = epoch /\ HearsBeat(m, beat)
    BY <2>1 DEF FromTheHolder, Hears
  <2>3. seen[m].epoch \in Nat /\ epoch \in Nat /\ seen \in [Members -> [epoch : 0 .. Grants, seq : 0 .. Beats]]
    BY <2>0, FloorAssumption DEF FloorTypes, GateTypes, BeliefTypes
  <2>4. seen[m].epoch <= epoch /\ (seen[m].epoch = epoch => beat.seq > seen[m].seq)
    <3>1. 1 \in Current(m) /\ Number(m, 1) = beat.seq
      BY <2>1, <2>2 DEF Current, Number
    <3>2. beat.seq \in Nat /\ seen[m].seq \in Nat
      BY <2>1, <2>3, TypesOfLines, FloorAssumption
    <3> QED BY <2>0, <3>1, <3>2 DEF OrderInv
  <2>5. Accepts(seen[m], beat, player[m] = "loaded")
    BY <2>2, <2>3, <2>4 DEF Accepts
  <2> QED BY <2>1, <2>2, <2>3, <2>5 DEF HearsBeat
<1>2. FloorInit => FloorInv
  BY FloorStarts
<1>3. FloorInv /\ [FloorNext]_floorVars => FloorInv'
  BY FloorSteps
<1> QED BY <1>1, <1>2, <1>3, PTL DEF FloorSpec, HolderIsHeard

-----------------------------------------------------------------------------
(* No receiver runs on for a room that has ended, for any number of receivers,
   operations and events, whatever the user's haste and the order of answers. *)

Lease == [id : Nat, gen : Nat, epoch : Nat, revision : Nat]
Candidate == [id : Nat, room : Nat, retired : BOOLEAN]
Seen == [gen : Nat, epoch : Nat, presents : BOOLEAN]
Starting == {"startRoom", "insert"}
Awaited == {"idle", "stop", "replaced", "cancelled", "failed", "start", "started", "status",
            "commit", "committed", "withdraw", "withdrawn"} \cup Starting
Operation ==
  [op : {"none", "preview", "publish", "cancel", "unpublish"}, turn : Nat, at : Awaited,
   then : {"idle", "replaced", "cancelled", "failed"}, source : Source \cup {NoSource},
   id : Nat, lease : Lease, room : Seen, generation : Nat, in : Nat]
Page ==
  [candidate : Candidate, published : Candidate, lease : Lease, room : Seen,
   busy : {"none", "starting", "publishing", "stopping"}, intent : Nat]
Snapshot ==
  [stage : {"none", "asked"}] \cup [stage : {"room"}, lease : Lease, room : Seen]
  \cup [stage : {"answered"}, lease : Lease, room : Seen, programs : SUBSET Program,
        bound : [Program -> Nat]]

RoomTypes ==
  /\ room \in [gen : Nat, hosts : BOOLEAN, presents : BOOLEAN, epoch : Nat]
  /\ announced \in Seq(BOOLEAN) /\ happened \in Nat
NativeTypes ==
  /\ registry \in [started : Nat, entries : SUBSET Program, stopped : SUBSET Program,
                   generation : Nat, source : [Program -> Source \cup {NoSource}], revision : Nat]
  /\ bound \in [Program -> Nat] /\ publication \in Lease
PageTypes ==
  /\ page \in Page /\ turns \in Seq(Operation) /\ doing \in Operation
ProgramTypes == RoomTypes /\ NativeTypes /\ PageTypes /\ sync \in Snapshot

\* A start under way was asked for in the registry's past; if nothing has ended
\* since, the room it has read is the one that is open.
StartInTime ==
  /\ doing.at \in Starting => doing.generation <= registry.generation
  /\ doing.at = "insert" /\ doing.generation = registry.generation /\ doing.in # NoRoom
       => room.hosts /\ doing.in = room.gen

ProgramInv == ProgramTypes /\ StartInTime /\ ReceiversEndWithTheirRoom

USE ProgramAssumption DEF NoRoom, Nothing

LEMMA ProgramStarts == NdiInit => ProgramInv
BY DEF NdiInit, ProgramInv, ProgramTypes, RoomTypes, NativeTypes, PageTypes, Lease, Candidate, Seen, Awaited,
       Starting, Operation, Page, Snapshot, StartInTime, ReceiversEndWithTheirRoom, Running, NoLease,
       NoCandidate, Off, NotDoing, NoSync

\* What most steps have in common: the room and its bindings stand, receivers may
\* end, and no start goes further.
LEMMA QuietStep ==
  ASSUME ProgramInv, ProgramTypes', UNCHANGED <<room, bound>>,
         registry'.generation = registry.generation,
         registry'.entries \subseteq registry.entries, registry.stopped \subseteq registry'.stopped,
         doing' = doing \/ doing'.at \notin Starting
  PROVE  ProgramInv'
<1>1. StartInTime'
  BY DEF ProgramInv, StartInTime, Starting
<1>2. ReceiversEndWithTheirRoom'
  BY DEF ProgramInv, ReceiversEndWithTheirRoom, Running
<1> QED BY <1>1, <1>2 DEF ProgramInv

(* The room *)

LEMMA EndOfARoom ==
  ASSUME ProgramInv, StopRoom(room.gen), publication' = NoLease,
         UNCHANGED <<bound, page, turns, doing, sync>>
  PROVE  /\ NativeTypes' /\ PageTypes' /\ sync' \in Snapshot
         /\ StartInTime'
         /\ \A p \in Running' : bound'[p] = NoRoom
<1>1. /\ registry'.generation = registry.generation + 1
      /\ registry'.entries = {p \in registry.entries : bound[p] # room.gen}
      /\ registry'.stopped = registry.stopped
  BY DEF StopRoom, ProgramInv, ProgramTypes, NativeTypes
<1>2. NativeTypes'
  <2>1. registry' \in [started : Nat, entries : SUBSET Program, stopped : SUBSET Program,
                       generation : Nat, source : [Program -> Source \cup {NoSource}],
                       revision : Nat]
    <3> DEFINE entries == {p \in registry.entries : bound[p] # room.gen}
               r == [registry EXCEPT !.generation = registry.generation + 1]
    <3>1. registry' = [r EXCEPT !.entries = entries]
      BY DEF StopRoom
    <3>2. /\ entries \in SUBSET Program
          /\ r \in [started : Nat, entries : SUBSET Program, stopped : SUBSET Program,
                    generation : Nat, source : [Program -> Source \cup {NoSource}],
                    revision : Nat]
      BY DEF ProgramInv, ProgramTypes, NativeTypes
    <3> HIDE DEF entries, r
    <3> QED BY <3>1, <3>2
  <2>2. publication' \in Lease
    BY DEF NoLease, Lease
  <2> QED BY <2>1, <2>2 DEF ProgramInv, ProgramTypes, NativeTypes
<1>3. PageTypes' /\ sync' \in Snapshot
  BY DEF ProgramInv, ProgramTypes, PageTypes
<1>4. StartInTime'
  <2>1. registry.generation \in Nat /\ doing.generation \in Nat
    BY DEF ProgramInv, ProgramTypes, NativeTypes, PageTypes, Operation
  <2> QED BY <1>1, <2>1 DEF ProgramInv, StartInTime, Starting
<1>5. \A p \in Running' : bound'[p] = NoRoom
  BY <1>1 DEF ProgramInv, ReceiversEndWithTheirRoom, Running
<1> QED BY <1>2, <1>3, <1>4, <1>5

LEMMA RoomStep ==
  ASSUME ProgramInv,
         HostRoom \/ LeaveRoom \/ NamePresenter \/ ShowFile \/ RoomAnnounced
           \/ \E p \in Program : ProgramDies(p)
  PROVE  ProgramInv'
<1>1. CASE HostRoom
  <2>1. /\ ~room.hosts /\ room'.gen = room.gen + 1 /\ room'.hosts
        /\ room' \in [gen : Nat, hosts : BOOLEAN, presents : BOOLEAN, epoch : Nat]
    BY <1>1 DEF HostRoom, ProgramInv, ProgramTypes, RoomTypes
  <2>2. RoomTypes'
    BY <1>1, <2>1 DEF HostRoom, Announce, ProgramInv, ProgramTypes, RoomTypes
  <2>3. UNCHANGED <<nativeVars, page, turns, doing, sync>>
    BY <1>1 DEF HostRoom, PageRests
  <2>4. ProgramTypes'
    BY <2>2, <2>3 DEF nativeVars, ProgramInv, ProgramTypes, NativeTypes, PageTypes
  <2>5. StartInTime'
    BY <2>1, <2>3 DEF nativeVars, ProgramInv, StartInTime, Starting
  <2>6. ReceiversEndWithTheirRoom'
    BY <2>1, <2>3 DEF nativeVars, ProgramInv, ReceiversEndWithTheirRoom, Running
  <2> QED BY <2>4, <2>5, <2>6 DEF ProgramInv
<1>2. CASE LeaveRoom
  <2>1. /\ room' \in [gen : Nat, hosts : BOOLEAN, presents : BOOLEAN, epoch : Nat]
        /\ announced' \in Seq(BOOLEAN) /\ happened' \in Nat
    BY <1>2 DEF LeaveRoom, Announce, ProgramInv, ProgramTypes, RoomTypes
  <2>2. StopRoom(room.gen) /\ publication' = NoLease
        /\ UNCHANGED <<bound, page, turns, doing, sync>>
    BY <1>2 DEF LeaveRoom, PageRests
  <2> QED BY <2>1, <2>2, EndOfARoom DEF ProgramInv, ProgramTypes, RoomTypes, ReceiversEndWithTheirRoom
<1>3. CASE NamePresenter
  <2>1. /\ room' \in [gen : Nat, hosts : BOOLEAN, presents : BOOLEAN, epoch : Nat]
        /\ announced' \in Seq(BOOLEAN) /\ happened' \in Nat
    <3>1. /\ room' = [[room EXCEPT !.presents = FALSE] EXCEPT !.epoch = room.epoch + 1]
          /\ happened' = happened + 1 /\ announced' = announced
      BY <1>3 DEF NamePresenter
    <3>2. room = [gen |-> room.gen, hosts |-> room.hosts, presents |-> room.presents,
                  epoch |-> room.epoch]
      BY DEF ProgramInv, ProgramTypes, RoomTypes
    <3>3. room' = [gen |-> room.gen, hosts |-> room.hosts, presents |-> FALSE,
                   epoch |-> room.epoch + 1]
      BY <3>1, <3>2
    <3>4. room.gen \in Nat /\ room.hosts \in BOOLEAN /\ room.epoch + 1 \in Nat
      BY DEF ProgramInv, ProgramTypes, RoomTypes
    <3>5. announced' \in Seq(BOOLEAN) /\ happened' \in Nat
      BY <3>1 DEF ProgramInv, ProgramTypes, RoomTypes
    <3>6. room' \in [gen : Nat, hosts : BOOLEAN, presents : BOOLEAN, epoch : Nat]
      BY <3>3, <3>4
    <3> QED BY <3>5, <3>6
  <2>2. StopRoom(room.gen) /\ publication' = NoLease
        /\ UNCHANGED <<bound, page, turns, doing, sync>>
    BY <1>3 DEF NamePresenter, PageRests
  <2> QED BY <2>1, <2>2, EndOfARoom DEF ProgramInv, ProgramTypes, RoomTypes, ReceiversEndWithTheirRoom
<1>4. CASE ShowFile
  <2>1. ProgramTypes'
    BY <1>4 DEF ShowFile, PageRests, ProgramInv, ProgramTypes, RoomTypes, NativeTypes, PageTypes, NoLease, Lease
  <2> QED BY <1>4, <2>1, QuietStep DEF ShowFile, PageRests
<1>5. CASE RoomAnnounced
  <2>1. announced' \in Seq(BOOLEAN) /\ happened' \in Nat
    BY <1>5 DEF RoomAnnounced, Announce, ProgramInv, ProgramTypes, RoomTypes
  <2>2. ProgramTypes'
    BY <1>5, <2>1 DEF RoomAnnounced, nativeVars, PageRests, ProgramInv, ProgramTypes, RoomTypes, NativeTypes,
      PageTypes
  <2> QED BY <1>5, <2>2, QuietStep DEF RoomAnnounced, nativeVars, PageRests
<1>6. ASSUME NEW p \in Program, ProgramDies(p) PROVE ProgramInv'
  <2>1. NativeTypes'
    BY <1>6 DEF ProgramDies, ProgramInv, ProgramTypes, NativeTypes
  <2>2. ProgramTypes'
    BY <1>6, <2>1 DEF ProgramDies, PageRests, ProgramInv, ProgramTypes, RoomTypes, PageTypes
  <2>3. /\ registry'.generation = registry.generation /\ registry'.entries = registry.entries
        /\ registry'.stopped = registry.stopped \cup {p}
    BY <1>6 DEF ProgramDies, ProgramInv, ProgramTypes, NativeTypes
  <2> QED BY <1>6, <2>2, <2>3, QuietStep DEF ProgramDies, PageRests
<1> QED BY <1>1, <1>2, <1>3, <1>4, <1>5, <1>6

(* Native commands *)

\* A command that is answered: only the await and what it is given change.
LEMMA AnswerType ==
  ASSUME ProgramInv, NEW at \in Awaited
  PROVE  /\ [doing EXCEPT !.at = at] \in Operation
         /\ [doing EXCEPT !.at = at].at = at
BY DEF ProgramInv, ProgramTypes, PageTypes, Operation

LEMMA NativeStep ==
  ASSUME ProgramInv, RunStop \/ ReadGeneration \/ ReadRoomGeneration \/ StartRefused
                \/ CommitRefused \/ Withdraw \/ SourceStopped
  PROVE  ProgramInv'
<1>1. CASE RunStop
  <2>1. /\ doing.then \in Awaited \ Starting /\ "failed" \in Awaited \ Starting
    BY DEF ProgramInv, ProgramTypes, PageTypes, Operation, Awaited, Starting
  <2>2. doing' \in Operation /\ doing'.at \notin Starting
    BY <1>1, <2>1, AnswerType DEF RunStop, Answers
  <2>3. /\ NativeTypes' /\ registry'.generation = registry.generation
        /\ registry'.entries \subseteq registry.entries /\ registry'.stopped = registry.stopped
    BY <1>1 DEF RunStop, ProgramInv, ProgramTypes, NativeTypes
  <2>4. UNCHANGED <<room, announced, happened, bound, page, turns, sync>>
    BY <1>1 DEF RunStop, Native, hostVars
  <2>5. ProgramTypes'
    BY <2>2, <2>3, <2>4 DEF ProgramInv, ProgramTypes, RoomTypes, PageTypes
  <2> QED BY <2>2, <2>3, <2>4, <2>5, QuietStep
<1>2. CASE ReadGeneration
  <2>1. /\ doing' \in Operation /\ doing'.at = "startRoom"
        /\ doing'.generation = registry.generation
    BY <1>2 DEF ReadGeneration, ProgramInv, ProgramTypes, NativeTypes, PageTypes, Operation, Awaited, Starting
  <2>2. UNCHANGED <<room, announced, happened, registry, bound, publication, page, turns, sync>>
    BY <1>2 DEF ReadGeneration, Native, hostVars, nativeVars
  <2>3. ProgramTypes'
    BY <2>1, <2>2 DEF ProgramInv, ProgramTypes, RoomTypes, NativeTypes, PageTypes
  <2>4. StartInTime'
    BY <2>1, <2>2 DEF ProgramInv, ProgramTypes, NativeTypes, StartInTime
  <2> QED BY <2>2, <2>3, <2>4 DEF ProgramInv, ReceiversEndWithTheirRoom, Running
<1>3. CASE ReadRoomGeneration
  <2>1. /\ doing' \in Operation /\ doing'.generation = doing.generation /\ doing.at = "startRoom"
        /\ doing'.in = IF room.hosts THEN room.gen ELSE NoRoom
    BY <1>3 DEF ReadRoomGeneration, ProgramInv, ProgramTypes, RoomTypes, PageTypes, Operation, Awaited, Starting
  <2>2. UNCHANGED <<room, announced, happened, registry, bound, publication, page, turns, sync>>
    BY <1>3 DEF ReadRoomGeneration, Native, hostVars, nativeVars
  <2>3. ProgramTypes'
    BY <2>1, <2>2 DEF ProgramInv, ProgramTypes, RoomTypes, NativeTypes, PageTypes
  <2>4. StartInTime'
    BY <2>1, <2>2 DEF ProgramInv, StartInTime, Starting
  <2> QED BY <2>2, <2>3, <2>4 DEF ProgramInv, ReceiversEndWithTheirRoom, Running
<1>4. CASE StartRefused \/ CommitRefused
  <2>1. "failed" \in Awaited \ Starting
    BY DEF Awaited, Starting
  <2>2. doing' \in Operation /\ doing'.at \notin Starting
    BY <1>4, <2>1, AnswerType DEF StartRefused, CommitRefused, Answers
  <2>3. UNCHANGED <<room, announced, happened, registry, bound, publication, page, turns, sync>>
    BY <1>4 DEF StartRefused, CommitRefused, Native, hostVars, nativeVars
  <2>4. ProgramTypes'
    BY <2>2, <2>3 DEF ProgramInv, ProgramTypes, RoomTypes, NativeTypes, PageTypes
  <2> QED BY <2>2, <2>3, <2>4, QuietStep
<1>5. CASE Withdraw
  <2>1. "withdrawn" \in Awaited \ Starting
    BY DEF Awaited, Starting
  <2>2. doing' \in Operation /\ doing'.at \notin Starting
    BY <1>5, <2>1, AnswerType DEF Withdraw, Answers
  <2>3. UNCHANGED <<room, announced, happened, registry, bound, page, turns>>
    BY <1>5 DEF Withdraw, hostVars
  <2>4. publication' \in Lease /\ sync' \in Snapshot
    BY <1>5 DEF Withdraw, ProgramInv, ProgramTypes, NativeTypes, NoLease, Lease, Snapshot
  <2>5. ProgramTypes'
    BY <2>2, <2>3, <2>4 DEF ProgramInv, ProgramTypes, RoomTypes, NativeTypes, PageTypes
  <2> QED BY <2>2, <2>3, <2>5, QuietStep
<1>6. CASE SourceStopped
  <2>1. UNCHANGED <<room, announced, happened, registry, bound, page, turns, doing>>
    BY <1>6 DEF SourceStopped, hostVars
  <2>2. publication' \in Lease /\ sync' \in Snapshot
    BY <1>6 DEF SourceStopped, NoLease, Lease, Snapshot
  <2>3. ProgramTypes'
    BY <2>1, <2>2 DEF ProgramInv, ProgramTypes, RoomTypes, NativeTypes, PageTypes
  <2> QED BY <2>1, <2>3, QuietStep
<1> QED BY <1>1, <1>2, <1>3, <1>4, <1>5, <1>6

LEMMA InsertStep == ASSUME ProgramInv, Insert PROVE ProgramInv'
<1> DEFINE p == registry.started + 1
<1>1. /\ doing.at = "insert" /\ p \in Program /\ registry.generation = doing.generation
      /\ doing' = [doing EXCEPT !.at = "started", !.id = p]
      /\ registry' = [registry EXCEPT !.started = p, !.entries = Running \cup {p},
                                      !.source[p] = doing.source]
      /\ bound' = [bound EXCEPT ![p] = doing.in]
      /\ UNCHANGED <<publication, room, announced, happened, page, turns, sync>>
  BY DEF Insert, Inserts, Native, hostVars
<1>2. NativeTypes'
  <2>1. /\ doing.source \in Source \cup {NoSource} /\ doing.in \in Nat /\ p \in Nat
        /\ Running \cup {p} \in SUBSET Program
    BY <1>1 DEF ProgramInv, ProgramTypes, NativeTypes, PageTypes, Operation, Running
  <2> HIDE DEF p
  <2>2. registry' \in [started : Nat, entries : SUBSET Program, stopped : SUBSET Program,
                       generation : Nat, source : [Program -> Source \cup {NoSource}],
                       revision : Nat]
    BY <1>1, <2>1 DEF ProgramInv, ProgramTypes, NativeTypes
  <2> QED BY <1>1, <2>1, <2>2 DEF ProgramInv, ProgramTypes, NativeTypes
<1>3. PageTypes' /\ RoomTypes' /\ sync' \in Snapshot
  <2>1. p \in Nat
    BY DEF ProgramInv, ProgramTypes, NativeTypes
  <2> HIDE DEF p
  <2>2. doing' \in Operation
    BY <1>1, <2>1 DEF ProgramInv, ProgramTypes, PageTypes, Operation, Awaited
  <2> QED BY <1>1, <2>2 DEF ProgramInv, ProgramTypes, PageTypes, RoomTypes
<1>4. StartInTime'
  BY <1>1 DEF ProgramInv, ProgramTypes, PageTypes, Operation, StartInTime, Starting
<1>5. registry'.entries = Running \cup {p} /\ registry'.stopped = registry.stopped
  BY <1>1 DEF ProgramInv, ProgramTypes, NativeTypes
<1>6. ReceiversEndWithTheirRoom'
  <2> SUFFICES ASSUME NEW q \in Running', bound'[q] # NoRoom
               PROVE  room'.hosts /\ bound'[q] = room'.gen
    BY DEF ReceiversEndWithTheirRoom
  <2>1. CASE q = p
    BY <1>1, <2>1 DEF ProgramInv, ProgramTypes, NativeTypes, StartInTime
  <2>2. CASE q # p
    BY <1>1, <1>5, <2>2 DEF ProgramInv, ProgramTypes, NativeTypes, ReceiversEndWithTheirRoom, Running
  <2> QED BY <2>1, <2>2
<1> QED BY <1>2, <1>3, <1>4, <1>6 DEF ProgramInv, ProgramTypes

LEMMA CommitStep == ASSUME ProgramInv, Commit PROVE ProgramInv'
<1>1. /\ doing.at = "commit" /\ room.hosts /\ doing.id \in Running
      /\ UNCHANGED <<room, announced, happened, page, turns, sync>>
      /\ doing' = [doing EXCEPT !.at = "committed", !.lease = publication']
  BY DEF Commit, Permitted, Native, hostVars
<1>2. CASE IsPublished(doing.id)
  <2>1. UNCHANGED <<registry, bound, publication>>
    BY <1>2 DEF Commit
  <2>2. doing' \in Operation /\ doing'.at \notin Starting
    BY <1>1, <2>1 DEF ProgramInv, ProgramTypes, NativeTypes, PageTypes, Operation, Awaited, Starting
  <2>3. ProgramTypes'
    BY <1>1, <2>1, <2>2 DEF ProgramInv, ProgramTypes, RoomTypes, NativeTypes, PageTypes
  <2> QED BY <1>1, <2>1, <2>2, <2>3, QuietStep
<1>3. CASE ~IsPublished(doing.id)
  <2>1. /\ registry' = [registry EXCEPT !.revision = @ + 1]
        /\ bound' = [bound EXCEPT ![doing.id] = room.gen]
        /\ publication' = [id |-> doing.id, gen |-> room.gen, epoch |-> room.epoch,
                           revision |-> registry'.revision]
    BY <1>3 DEF Commit
  <2>2. NativeTypes'
    <3>1. room.gen \in Nat /\ room.epoch \in Nat /\ doing.id \in Nat
          /\ registry'.revision \in Nat
      BY <2>1 DEF ProgramInv, ProgramTypes, RoomTypes, NativeTypes, PageTypes, Operation
    <3>2. publication' \in Lease
      BY <2>1, <3>1 DEF Lease
    <3>3. registry' \in [started : Nat, entries : SUBSET Program, stopped : SUBSET Program,
                         generation : Nat, source : [Program -> Source \cup {NoSource}],
                         revision : Nat]
      BY <2>1 DEF ProgramInv, ProgramTypes, NativeTypes
    <3>4. bound' \in [Program -> Nat]
      BY <2>1, <3>1 DEF ProgramInv, ProgramTypes, NativeTypes
    <3> QED BY <3>2, <3>3, <3>4 DEF NativeTypes
  <2>3. PageTypes' /\ RoomTypes' /\ sync' \in Snapshot /\ StartInTime'
    BY <1>1, <2>2 DEF ProgramInv, ProgramTypes, NativeTypes, PageTypes, RoomTypes, Operation, Awaited,
      StartInTime, Starting
  <2>4. ReceiversEndWithTheirRoom'
    <3>1. /\ registry'.entries = registry.entries /\ registry'.stopped = registry.stopped
          /\ bound \in [Program -> Nat]
      BY <2>1 DEF ProgramInv, ProgramTypes, NativeTypes
    <3> QED BY <1>1, <2>1, <3>1 DEF ProgramInv, ReceiversEndWithTheirRoom, Running
  <2> QED BY <2>2, <2>3, <2>4 DEF ProgramInv, ProgramTypes
<1> QED BY <1>2, <1>3

(* The page *)

LEMMA HeadAndTail ==
  ASSUME NEW S, NEW s \in Seq(S), s # <<>>
  PROVE  Head(s) \in S /\ Tail(s) \in Seq(S)
OBVIOUS

LEMMA PageTurn ==
  ASSUME ProgramInv, UNCHANGED <<room, registry, bound, publication, happened>>,
         announced' \in Seq(BOOLEAN), page' \in Page, turns' \in Seq(Operation),
         doing' \in Operation, sync' \in Snapshot, doing' = doing \/ doing'.at \notin Starting
  PROVE  ProgramInv'
<1>1. ProgramTypes'
  BY DEF ProgramInv, ProgramTypes, RoomTypes, NativeTypes, PageTypes
<1>2. registry' = registry /\ room' = room /\ bound' = bound
  OBVIOUS
<1>3. /\ registry'.generation = registry.generation
      /\ registry'.entries \subseteq registry.entries /\ registry.stopped \subseteq registry'.stopped
  BY <1>2
<1> QED BY <1>1, <1>2, <1>3, QuietStep

LEMMA EnteredType ==
  ASSUME NEW pg \in Page, NEW shown \in Seen
  PROVE  Entered(pg, shown) \in Page
<1> DEFINE candidate == IF pg.candidate.room = NoRoom \/ (pg.candidate.room = shown.gen /\ shown.presents)
                          THEN pg.candidate ELSE NoCandidate
<1>1. candidate \in Candidate /\ NoCandidate \in Candidate /\ NoLease \in Lease /\ pg.intent + 1 \in Nat
  BY DEF Page, Candidate, NoCandidate, NoLease, Lease
<1>2. Entered(pg, shown) = IF shown = pg.room THEN pg
        ELSE [pg EXCEPT !.intent = pg.intent + 1, !.room = shown, !.busy = "none",
                        !.published = NoCandidate, !.lease = NoLease, !.candidate = candidate]
  BY DEF Entered
<1> HIDE DEF candidate
<1> QED BY <1>1, <1>2 DEF Page

LEMMA RestoredType ==
  ASSUME NEW pg \in Page, NEW snap \in Snapshot, snap.stage = "answered"
  PROVE  Restored(pg, snap) \in Page
<1> DEFINE now == Entered(pg, snap.room)
           others == snap.programs \ {snap.lease.id}
           kept == {now.candidate.id} \cap others
           chosen == IF kept # {} THEN kept ELSE IF Cardinality(others) = 1 THEN others ELSE {}
           Local(p) == [id |-> p, room |-> snap.bound[p], retired |-> FALSE]
           published == IF snap.lease.id \in snap.programs THEN Local(snap.lease.id) ELSE NoCandidate
           lease == IF snap.lease.id \in snap.programs THEN snap.lease ELSE NoLease
           candidate == IF chosen = {} THEN NoCandidate ELSE Local(CHOOSE p \in chosen : TRUE)
<1>1. /\ snap.lease \in Lease /\ snap.room \in Seen /\ snap.programs \in SUBSET Program
      /\ snap.bound \in [Program -> Nat]
  BY DEF Snapshot
<1>2. now \in Page
  BY <1>1, EnteredType
<1>3. NoCandidate \in Candidate /\ NoLease \in Lease
  BY DEF NoCandidate, Candidate, NoLease, Lease
<1>4. \A p \in Program : Local(p) \in Candidate
  BY <1>1 DEF Candidate, Program
<1>5. chosen # {} => (CHOOSE p \in chosen : TRUE) \in Program
  BY <1>1
<1>6. published \in Candidate /\ lease \in Lease /\ candidate \in Candidate
  BY <1>1, <1>3, <1>4, <1>5
<1>7. Restored(pg, snap) = IF now.busy # "none" THEN now
        ELSE [now EXCEPT !.published = published, !.lease = lease, !.candidate = candidate]
  BY DEF Restored
<1> HIDE DEF now, published, lease, candidate
<1> QED BY <1>2, <1>6, <1>7 DEF Page

LEMMA EndsType ==
  ASSUME NEW turn, NEW pg \in Page, Ends(turn, pg)
  PROVE  page' \in Page /\ doing' \in Operation /\ doing'.at \notin Starting
<1>1. page' \in Page
  BY DEF Ends, Page
<1>2. doing' \in Operation /\ doing'.at \notin Starting
  BY DEF Ends, NotDoing, Operation, Awaited, Starting, NoLease, Lease, Off, Seen
<1> QED BY <1>1, <1>2

LEMMA AwaitsType ==
  ASSUME NEW pg \in Page, NEW op \in Operation, NEW at \in Awaited \ Starting,
         Awaits(pg, [op EXCEPT !.at = at])
  PROVE  page' \in Page /\ doing' \in Operation /\ doing'.at \notin Starting
BY DEF Awaits, Operation

LEMMA StopsType ==
  ASSUME NEW pg \in Page, NEW op \in Operation, NEW p \in Nat,
         NEW then \in {"idle", "replaced", "cancelled", "failed"}, Stops(op, pg, p, then)
  PROVE  page' \in Page /\ doing' \in Operation /\ doing'.at \notin Starting
BY DEF Stops, Awaits, Operation, Awaited, Starting

LEMMA OpensSourceType ==
  ASSUME NEW pg \in Page, NEW op \in Operation, OpensSource(op, pg)
  PROVE  page' \in Page /\ doing' \in Operation /\ doing'.at \notin Starting
<1>1. CASE pg.published.id # Nothing /\ registry.source[pg.published.id] = op.source
  <2>1. [pg EXCEPT !.candidate = NoCandidate] \in Page
    BY DEF Page, NoCandidate, Candidate
  <2> QED BY <1>1, <2>1, EndsType DEF OpensSource
<1>2. CASE ~(pg.published.id # Nothing /\ registry.source[pg.published.id] = op.source)
  <2>1. page' = pg /\ doing' = [op EXCEPT !.at = "start", !.room = pg.room]
    BY <1>2 DEF OpensSource, Awaits
  <2>2. pg.room \in Seen
    BY DEF Page
  <2> QED BY <2>1, <2>2 DEF Operation, Awaited, Starting
<1> QED BY <1>1, <1>2

LEMMA HookStep ==
  ASSUME ProgramInv, HearState \/ ReadRoom \/ ReadPrograms \/ Restore
  PROVE  ProgramInv'
<1>0. /\ page \in Page /\ turns \in Seq(Operation) /\ doing \in Operation /\ sync \in Snapshot
      /\ announced \in Seq(BOOLEAN)
  BY DEF ProgramInv, ProgramTypes, PageTypes, RoomTypes
<1>1. CASE HearState
  <2>1. Off \in Seen /\ [stage |-> "asked"] \in Snapshot
    BY DEF Off, Seen, Snapshot
  <2>2. announced' \in Seq(BOOLEAN)
    BY <1>0, <1>1, HeadAndTail DEF HearState
  <2>3. page' \in Page
    BY <1>0, <1>1, <2>1, EnteredType DEF HearState
  <2> QED BY <1>0, <1>1, <2>1, <2>2, <2>3, PageTurn DEF HearState, nativeVars
<1>2. CASE ReadRoom
  <2>1. sync' \in Snapshot
    <3>1. (IF room.hosts THEN [gen |-> room.gen, epoch |-> room.epoch, presents |-> room.presents]
           ELSE Off) \in Seen
      BY DEF ProgramInv, ProgramTypes, RoomTypes, Off, Seen
    <3>2. publication \in Lease
      BY DEF ProgramInv, ProgramTypes, NativeTypes
    <3> QED BY <1>2, <3>1, <3>2 DEF ReadRoom, Snapshot
  <2> QED BY <1>0, <1>2, <2>1, PageTurn DEF ReadRoom, hostVars, nativeVars
<1>3. CASE ReadPrograms
  <2>1. sync.lease \in Lease /\ sync.room \in Seen
    BY <1>0, <1>3 DEF ReadPrograms, Snapshot
  <2>2. registry.entries \in SUBSET Program /\ bound \in [Program -> Nat]
    BY DEF ProgramInv, ProgramTypes, NativeTypes
  <2>3. sync' \in Snapshot
    BY <1>3, <2>1, <2>2 DEF ReadPrograms, Snapshot
  <2> QED BY <1>0, <1>3, <2>3, PageTurn DEF ReadPrograms, hostVars, nativeVars
<1>4. CASE Restore
  <2>1. page' \in Page
    BY <1>0, <1>4, RestoredType DEF Restore
  <2>2. sync' \in Snapshot
    BY <1>4 DEF Restore, NoSync, Snapshot
  <2> QED BY <1>0, <1>4, <2>1, <2>2, PageTurn DEF Restore, hostVars, nativeVars
<1> QED BY <1>1, <1>2, <1>3, <1>4

LEMMA AsksStep ==
  ASSUME ProgramInv, NEW request \in Operation, NEW busy \in {"starting", "publishing", "stopping"},
         Asks(request, busy)
  PROVE  ProgramInv'
<1>0. page \in Page /\ turns \in Seq(Operation) /\ doing \in Operation /\ announced \in Seq(BOOLEAN)
  BY DEF ProgramInv, ProgramTypes, PageTypes, RoomTypes
<1>1. page' \in Page
  <2>1. page.intent + 1 \in Nat
    BY <1>0 DEF Page
  <2>2. page' = [page EXCEPT !.intent = page.intent + 1, !.busy = busy]
    BY DEF Asks
  <2> QED BY <1>0, <2>1, <2>2 DEF Page
<1>2. [request EXCEPT !.turn = page.intent + 1] \in Operation
  <2>1. page.intent + 1 \in Nat
    BY <1>0 DEF Page
  <2> QED BY <2>1 DEF Operation
<1>3. turns' \in Seq(Operation)
  BY <1>0, <1>2 DEF Asks
<1>4. sync' \in Snapshot
  BY DEF Asks, NoSync, Snapshot
<1> QED BY <1>0, <1>1, <1>3, <1>4, PageTurn DEF Asks, hostVars, nativeVars

LEMMA AskStep ==
  ASSUME ProgramInv, AskPreview \/ AskPublish \/ AskCancel \/ AskStopSharing
  PROVE  ProgramInv'
<1>0. NotDoing \in Operation
  BY DEF NotDoing, Operation, Awaited, Starting, NoLease, Lease, Off, Seen
<1>1. CASE AskPreview
  <2>1. PICK s \in Source : Asks([NotDoing EXCEPT !.op = "preview", !.source = s], "starting")
    BY <1>1 DEF AskPreview
  <2>2. [NotDoing EXCEPT !.op = "preview", !.source = s] \in Operation
    BY <1>0 DEF Operation
  <2> QED BY <2>1, <2>2, AsksStep
<1>2. CASE AskPublish
  <2>1. page.candidate.id \in Nat /\ page.room \in Seen
    BY DEF ProgramInv, ProgramTypes, PageTypes, Page, Candidate
  <2>2. [NotDoing EXCEPT !.op = "publish", !.id = page.candidate.id, !.room = page.room] \in Operation
    BY <1>0, <2>1 DEF Operation
  <2> QED BY <1>2, <2>2, AsksStep DEF AskPublish
<1>3. CASE AskCancel
  <2>1. [NotDoing EXCEPT !.op = "cancel"] \in Operation
    BY <1>0 DEF Operation
  <2> QED BY <1>3, <2>1, AsksStep DEF AskCancel
<1>4. CASE AskStopSharing
  <2>1. page.lease \in Lease
    BY DEF ProgramInv, ProgramTypes, PageTypes, Page
  <2>2. [NotDoing EXCEPT !.op = "unpublish", !.lease = page.lease] \in Operation
    BY <1>0, <2>1 DEF Operation
  <2> QED BY <1>4, <2>2, AsksStep DEF AskStopSharing
<1> QED BY <1>1, <1>2, <1>3, <1>4

LEMMA BeginStep == ASSUME ProgramInv, Begin PROVE ProgramInv'
<1> DEFINE op == Head(turns)
           old == page.candidate
<1>0. /\ page \in Page /\ turns \in Seq(Operation) /\ doing \in Operation /\ sync \in Snapshot
      /\ announced \in Seq(BOOLEAN)
  BY DEF ProgramInv, ProgramTypes, PageTypes, RoomTypes
<1>1. /\ turns # <<>> /\ turns' = Tail(turns) /\ UNCHANGED <<hostVars, nativeVars, sync>>
  BY DEF Begin, PageStep
<1>2. op \in Operation /\ turns' \in Seq(Operation)
  BY <1>0, <1>1, HeadAndTail
<1>3. old.id \in Nat
  BY <1>0 DEF Page, Candidate
<1>4. \/ page' = page /\ doing' = doing
      \/ Ends(op.turn, page)
      \/ Stops(op, page, old.id, "replaced")
      \/ OpensSource(op, page)
      \/ Awaits(page, [op EXCEPT !.at = "commit"])
      \/ Ends(op.turn, [page EXCEPT !.candidate = NoCandidate])
      \/ Stops(op, page, old.id, "cancelled")
      \/ Awaits(page, [op EXCEPT !.at = "withdraw"])
  BY DEF Begin
<1>5. [page EXCEPT !.candidate = NoCandidate] \in Page
  BY <1>0 DEF Page, NoCandidate, Candidate
<1>6. "commit" \in Awaited \ Starting /\ "withdraw" \in Awaited \ Starting
  BY DEF Awaited, Starting
<1> HIDE DEF op, old
<1>7. page' \in Page /\ doing' \in Operation /\ (doing' = doing \/ doing'.at \notin Starting)
  <2>1. CASE page' = page /\ doing' = doing
    BY <1>0, <2>1
  <2>2. CASE Ends(op.turn, page) \/ Ends(op.turn, [page EXCEPT !.candidate = NoCandidate])
    BY <1>0, <1>5, <2>2, EndsType
  <2>3. CASE Stops(op, page, old.id, "replaced") \/ Stops(op, page, old.id, "cancelled")
    BY <1>0, <1>2, <1>3, <2>3, StopsType
  <2>4. CASE OpensSource(op, page)
    BY <1>0, <1>2, <2>4, OpensSourceType
  <2>5. CASE Awaits(page, [op EXCEPT !.at = "commit"]) \/ Awaits(page, [op EXCEPT !.at = "withdraw"])
    BY <1>0, <1>2, <1>6, <2>5, AwaitsType
  <2> QED BY <1>4, <2>1, <2>2, <2>3, <2>4, <2>5
<1> QED BY <1>0, <1>1, <1>2, <1>7, PageTurn DEF hostVars, nativeVars

\* An operation that goes on: what is left to show is what it makes of the page.
LEMMA ResumeTurn ==
  ASSUME ProgramInv, NEW at, Resumes(at), page' \in Page, doing' \in Operation, doing'.at \notin Starting
  PROVE  ProgramInv'
<1>1. turns \in Seq(Operation) /\ sync \in Snapshot /\ announced \in Seq(BOOLEAN)
  BY DEF ProgramInv, ProgramTypes, PageTypes, RoomTypes
<1>2. UNCHANGED <<room, announced, happened, registry, bound, publication, turns, sync>>
  BY DEF Resumes, PageStep, hostVars, nativeVars
<1> QED BY <1>1, <1>2, PageTurn

LEMMA ResumeStep ==
  ASSUME ProgramInv, Fails \/ Replaced \/ Cancelled \/ Started \/ Status \/ Committed \/ Withdrawn
  PROVE  ProgramInv'
<1>0. /\ page \in Page /\ doing \in Operation /\ NoCandidate \in Candidate /\ NoLease \in Lease
      /\ "failed" \in {"idle", "replaced", "cancelled", "failed"}
      /\ "status" \in Awaited \ Starting /\ "withdraw" \in Awaited \ Starting
  BY DEF ProgramInv, ProgramTypes, PageTypes, NoCandidate, Candidate, NoLease, Lease, Awaited, Starting
<1>1. /\ page.candidate \in Candidate /\ page.published \in Candidate
      /\ doing.id \in Nat /\ doing.room \in Seen /\ doing.lease \in Lease
  BY <1>0 DEF Page, Operation
<1>2. CASE Fails
  BY <1>0, <1>2, EndsType, ResumeTurn DEF Fails
<1>3. CASE Replaced
  <2>1. [page EXCEPT !.candidate.retired = TRUE] \in Page
    BY <1>0 DEF Page, Candidate
  <2>2. Ends(doing.turn, page) \/ OpensSource(doing, [page EXCEPT !.candidate.retired = TRUE])
    BY <1>3 DEF Replaced
  <2> QED BY <1>0, <1>3, <2>1, <2>2, EndsType, OpensSourceType, ResumeTurn DEF Replaced
<1>4. CASE Cancelled
  <2>1. (IF Valid(doing.turn) THEN [page EXCEPT !.candidate = NoCandidate] ELSE page) \in Page
    BY <1>0 DEF Page
  <2> QED BY <1>0, <1>4, <2>1, EndsType, ResumeTurn DEF Cancelled
<1>5. CASE Started
  <2>1. [id |-> doing.id, room |-> doing.room.gen, retired |-> FALSE] \in Candidate
    BY <1>1 DEF Candidate, Seen
  <2> DEFINE pg == [page EXCEPT !.candidate = [id |-> doing.id, room |-> doing.room.gen,
                                               retired |-> FALSE]]
  <2>2. pg \in Page
    BY <1>0, <2>1 DEF Page
  <2>3. Stops(doing, page, doing.id, "failed") \/ Awaits(pg, [doing EXCEPT !.at = "status"])
    BY <1>5 DEF Started
  <2> HIDE DEF pg
  <2> QED BY <1>0, <1>1, <1>5, <2>2, <2>3, StopsType, AwaitsType, ResumeTurn DEF Started
<1>6. CASE Status
  <2> DEFINE pg == IF doing.id \in registry.entries /\ page.candidate.id = doing.id
                     THEN [page EXCEPT !.candidate.room = bound[doing.id]] ELSE page
  <2>1. pg \in Page
    <3>1. doing.id \in registry.entries => bound[doing.id] \in Nat
      BY DEF ProgramInv, ProgramTypes, NativeTypes
    <3> QED BY <1>0, <3>1 DEF Page, Candidate
  <2>2. Ends(doing.turn, pg)
    BY <1>6 DEF Status
  <2> HIDE DEF pg
  <2> QED BY <1>6, <2>1, <2>2, EndsType, ResumeTurn DEF Status
<1>7. CASE Committed
  <2> DEFINE pg == [page EXCEPT !.candidate = NoCandidate, !.lease = doing.lease,
                      !.published = [id |-> doing.id, room |-> doing.room.gen, retired |-> FALSE]]
  <2>1. [id |-> doing.id, room |-> doing.room.gen, retired |-> FALSE] \in Candidate
    BY <1>1 DEF Candidate, Seen
  <2>2. pg \in Page
    BY <1>0, <1>1, <2>1 DEF Page
  <2>3. \/ Awaits(page, [doing EXCEPT !.at = "withdraw"])
        \/ Ends(doing.turn, pg)
        \/ Stops(doing, pg, page.published.id, "failed")
    BY <1>7 DEF Committed
  <2>4. page.published.id \in Nat
    BY <1>1 DEF Candidate
  <2> HIDE DEF pg
  <2>5. page' \in Page /\ doing' \in Operation /\ doing'.at \notin Starting
    BY <1>0, <2>2, <2>3, <2>4, AwaitsType, EndsType, StopsType
  <2> QED BY <1>7, <2>5, ResumeTurn DEF Committed
<1>8. CASE Withdrawn
  <2> DEFINE own == IF page.candidate.id # Nothing THEN page.candidate ELSE page.published
             pg == [page EXCEPT !.candidate = own, !.published = NoCandidate, !.lease = NoLease]
  <2>1. own \in Candidate
    BY <1>1
  <2>2. pg \in Page
    BY <1>0, <2>1 DEF Page
  <2>3. \/ Ends(doing.turn, page)
        \/ Ends(doing.turn, pg)
        \/ Stops(doing, pg, page.published.id, "failed")
    BY <1>8 DEF Withdrawn
  <2>4. page.published.id \in Nat
    BY <1>1 DEF Candidate
  <2> HIDE DEF pg
  <2>5. page' \in Page /\ doing' \in Operation /\ doing'.at \notin Starting
    BY <1>0, <2>2, <2>3, <2>4, EndsType, StopsType
  <2> QED BY <1>8, <2>5, ResumeTurn DEF Withdrawn
<1> QED BY <1>2, <1>3, <1>4, <1>5, <1>6, <1>7, <1>8

LEMMA ProgramSteps == ProgramInv /\ [NdiNext]_ndiVars => ProgramInv'
<1> SUFFICES ASSUME ProgramInv, [NdiNext]_ndiVars PROVE ProgramInv'
  OBVIOUS
<1>1. CASE UNCHANGED ndiVars
  BY <1>1 DEF ndiVars, hostVars, nativeVars, ProgramInv, ProgramTypes, RoomTypes, NativeTypes, PageTypes,
    StartInTime, ReceiversEndWithTheirRoom, Running
<1>2. CASE NdiNext
  BY <1>2, RoomStep, NativeStep, InsertStep, CommitStep, HookStep, AskStep, BeginStep, ResumeStep
    DEF NdiNext
<1> QED BY <1>1, <1>2

(* No receiver runs on for a room that has ended, whenever its start was asked for:
   a start compares the registry's generation with the one it read before the room
   (ndi.rs, start and stop_room). *)
THEOREM ReceiversAreOfTheRoom == NdiSpec => []ReceiversEndWithTheirRoom
<1>1. ProgramInv => ReceiversEndWithTheirRoom
  BY DEF ProgramInv
<1> QED BY ProgramStarts, ProgramSteps, <1>1, PTL DEF NdiSpec

-----------------------------------------------------------------------------
(* What the page shows as shared is what the room can fetch, for any number of
   receivers, operations and events.  A lease passes from the registry to the page
   by two ways, the answer of a command and a snapshot; the invariant says of each
   lease on its way that it is the publication or the past, and of each operation
   under way what it knows of the page as long as it is the last one. *)

\* The room as the page would be told of it, and the operations that wait.
Now == IF room.hosts THEN [gen |-> room.gen, epoch |-> room.epoch, presents |-> room.presents] ELSE Off
HostPresents == room.hosts /\ room.presents
Those(ops) == {ops[i] : i \in DOMAIN ops}
Waiting == Those(turns)
Pending == sync.stage \in {"room", "answered"}

\* Turns are taken in the order in which they were asked for.
InOrder(ops) == \A i, j \in DOMAIN ops : i < j => ops[i].turn < ops[j].turn
TurnInv ==
  /\ doing.turn <= page.intent
  /\ \A op \in Waiting : doing.turn < op.turn /\ op.turn <= page.intent
  /\ InOrder(turns)

\* Nobody knows of a room that has yet to be opened.
PastInv ==
  /\ room.hosts => room.gen # NoRoom
  /\ page.room.gen <= room.gen /\ doing.room.gen <= room.gen
  /\ \A op \in Waiting : op.room.gen <= room.gen
  /\ Pending => sync.room.gen <= room.gen

\* A lease is of a receiver that was started and was bound when it was published,
\* and older than any to come; what is published is of the room there is.
Known(lease) ==
  \/ lease = NoLease
  \/ /\ lease.id \in Program /\ lease.id <= registry.started /\ bound[lease.id] # NoRoom
     /\ lease.revision \in 0 .. registry.revision
LeaseInv ==
  /\ \A p \in registry.entries : p <= registry.started
  /\ Known(publication) /\ Known(page.lease) /\ Known(doing.lease) /\ (Pending => Known(sync.lease))
  /\ \A op \in Waiting : Known(op.lease) /\ (op.op = "unpublish" => op.lease # NoLease)
  /\ doing.at \in {"committed", "withdraw"} => doing.lease # NoLease
  /\ publication # NoLease => HostPresents /\ bound[publication.id] = room.gen

\* The page is in the room r, and is about to hear of no other.
AtHome(r) ==
  /\ page.room = r
  /\ \A i \in DOMAIN announced : announced[i]
  /\ Pending => sync.room = r

\* Nothing has been asked for since, and no other room was seen.
Latest(op, busy) == op.turn = page.intent /\ page.busy = busy

\* So it is of a publication of the room there is, made or asked for.
HomeInv ==
  /\ publication # NoLease => AtHome(Now)
  /\ \A op \in Waiting : op.op = "publish" /\ HostPresents /\ op.room = Now =>
       AtHome(Now) /\ Latest(op, "publishing")
  /\ doing.at \in {"commit", "committed"} /\ HostPresents /\ doing.room = Now =>
       AtHome(Now) /\ Latest(doing, "publishing")

\* And of the end of what is published.  As long as nothing else has been asked
\* for, what is to end is what the page shows, until it has ended.
StopInv ==
  /\ \A op \in Waiting : op.op = "unpublish" =>
       /\ op.lease = publication => Latest(op, "stopping")
       /\ op.turn = page.intent => page.lease = op.lease /\ page.busy = "stopping"
  /\ doing.at = "withdraw" =>
       /\ doing.lease = publication => Latest(doing, "stopping")
       /\ doing.turn = page.intent => page.lease = doing.lease /\ page.busy = "stopping"
  /\ doing.at = "withdrawn" /\ doing.turn = page.intent =>
       publication.id \notin Running /\ page.busy = "stopping"

\* A lease that is on its way to the page is the publication, or its receiver
\* has ended and nothing is published.
Holds(lease) == publication = lease \/ (publication = NoLease /\ lease.id \notin Running)
AnswerInv ==
  /\ doing.at = "committed" => Holds(doing.lease) /\ (publication = doing.lease => doing.room = Now)
  /\ Pending => Holds(sync.lease)
  /\ sync.stage = "answered" /\ publication.id \in Running /\ sync.lease = publication =>
       publication.id \in sync.programs

\* Of receivers that run, the page and the room know the same publication,
\* except between the answer of a command and the page's turn to take it.
Mismatch == \E lease \in {page.lease, publication} : lease.id \in Running /\ page.lease # publication
ShownInv ==
  Mismatch => \/ doing.at = "committed" /\ HostPresents /\ doing.room = Now
              \/ doing.at = "withdrawn" /\ publication = NoLease /\ Latest(doing, "stopping")

SharedInv ==
  TurnInv /\ PastInv /\ LeaseInv /\ HomeInv /\ StopInv /\ AnswerInv /\ ShownInv

PublishedInv == ProgramInv /\ SharedInv

LEMMA SharedStarts == NdiInit => SharedInv
<1> SUFFICES ASSUME NdiInit PROVE SharedInv
  OBVIOUS
<1>1. /\ turns = <<>> /\ doing = NotDoing /\ sync = NoSync /\ publication = NoLease
      /\ page.intent = 0 /\ page.room = Off /\ page.lease = NoLease
      /\ ~room.hosts /\ room.gen = 0 /\ registry.entries = {}
  BY DEF NdiInit
<1>2. Waiting = {} /\ ~Pending /\ ~HostPresents /\ DOMAIN turns = {}
  <2>1. DOMAIN turns = {}
    BY <1>1
  <2> QED BY <1>1, <2>1 DEF Waiting, Those, Pending, NoSync, HostPresents
<1>3. /\ doing.turn = 0 /\ doing.at = "idle" /\ doing.lease = NoLease /\ doing.room.gen = 0
      /\ Off.gen = 0
  BY <1>1 DEF NotDoing, Off
<1>4. TurnInv /\ PastInv
  BY <1>1, <1>2, <1>3 DEF TurnInv, InOrder, PastInv
<1>5. LeaseInv
  BY <1>1, <1>2, <1>3 DEF LeaseInv, Known
<1>6. HomeInv /\ StopInv /\ AnswerInv
  BY <1>1, <1>2, <1>3 DEF HomeInv, StopInv, AnswerInv, Pending, Running
<1>7. ShownInv
  BY <1>1 DEF ShownInv, Mismatch
<1> QED BY <1>4, <1>5, <1>6, <1>7 DEF SharedInv

LEMMA SharedTypes ==
  ASSUME ProgramInv
  PROVE  /\ page.intent \in Nat /\ page.room.gen \in Nat
         /\ doing.turn \in Nat /\ doing.room.gen \in Nat
         /\ \A op \in Waiting : op.turn \in Nat /\ op.room.gen \in Nat
         /\ room.gen \in Nat /\ room.hosts \in BOOLEAN /\ room.presents \in BOOLEAN
         /\ registry.started \in Nat /\ registry.revision \in Nat
         /\ Running \subseteq Program /\ NoLease.id \notin Program
<1>1. page.intent \in Nat /\ page.room.gen \in Nat
  BY DEF ProgramInv, ProgramTypes, PageTypes, Page, Seen
<1>2. doing.turn \in Nat /\ doing.room.gen \in Nat
  BY DEF ProgramInv, ProgramTypes, PageTypes, Operation, Seen
<1>3. \A op \in Waiting : op.turn \in Nat /\ op.room.gen \in Nat
  <2>1. Waiting \subseteq Operation
    BY DEF ProgramInv, ProgramTypes, PageTypes, Waiting, Those
  <2> QED BY <2>1 DEF Operation, Seen
<1>4. room.gen \in Nat /\ room.hosts \in BOOLEAN /\ room.presents \in BOOLEAN
  BY DEF ProgramInv, ProgramTypes, RoomTypes
<1>5. registry.started \in Nat /\ registry.revision \in Nat /\ Running \subseteq Program
  BY DEF ProgramInv, ProgramTypes, NativeTypes, Running
<1>6. NoLease.id \notin Program
  BY DEF NoLease, Program
<1> QED BY <1>1, <1>2, <1>3, <1>4, <1>5, <1>6

(* The turns *)

LEMMA TurnAdded ==
  ASSUME NEW S, NEW ops \in Seq(S), NEW op,
         InOrder(ops), \A i \in DOMAIN ops : ops[i].turn < op.turn
  PROVE  /\ InOrder(Append(ops, op))
         /\ Those(Append(ops, op)) = Those(ops) \cup {op}
<1>1. /\ Len(ops) \in Nat /\ DOMAIN ops = 1 .. Len(ops)
      /\ DOMAIN Append(ops, op) = 1 .. Len(ops) + 1
      /\ \A i \in DOMAIN ops : Append(ops, op)[i] = ops[i]
      /\ Append(ops, op)[Len(ops) + 1] = op
  OBVIOUS
<1>2. InOrder(Append(ops, op))
  BY <1>1 DEF InOrder
<1>3. \A i \in DOMAIN Append(ops, op) : i \in DOMAIN ops \/ i = Len(ops) + 1
  BY <1>1
<1>4. Len(ops) + 1 \in DOMAIN Append(ops, op) /\ DOMAIN ops \subseteq DOMAIN Append(ops, op)
  BY <1>1
<1> QED BY <1>1, <1>2, <1>3, <1>4 DEF Those

LEMMA TurnTaken ==
  ASSUME NEW S, NEW ops \in Seq(S), ops # <<>>, InOrder(ops)
  PROVE  /\ InOrder(Tail(ops))
         /\ Head(ops) \in Those(ops)
         /\ Those(Tail(ops)) \subseteq Those(ops)
         /\ \A op \in Those(Tail(ops)) : Head(ops).turn < op.turn
<1>1. /\ Len(ops) \in Nat /\ Len(ops) >= 1 /\ DOMAIN ops = 1 .. Len(ops)
      /\ DOMAIN Tail(ops) = 1 .. Len(ops) - 1
      /\ \A i \in DOMAIN Tail(ops) : Tail(ops)[i] = ops[i + 1]
      /\ Head(ops) = ops[1]
  OBVIOUS
<1>2. /\ 1 \in DOMAIN ops
      /\ \A i \in DOMAIN Tail(ops) : i \in Nat /\ i + 1 \in DOMAIN ops /\ 1 < i + 1
  BY <1>1
<1>3. InOrder(Tail(ops))
  <2> SUFFICES ASSUME NEW i \in DOMAIN Tail(ops), NEW j \in DOMAIN Tail(ops), i < j
               PROVE  Tail(ops)[i].turn < Tail(ops)[j].turn
    BY DEF InOrder
  <2>1. i + 1 \in DOMAIN ops /\ j + 1 \in DOMAIN ops /\ i + 1 < j + 1
    BY <1>2
  <2> QED BY <1>1, <2>1 DEF InOrder
<1>4. \A i \in DOMAIN Tail(ops) : Tail(ops)[i] = ops[i + 1] /\ ops[1].turn < ops[i + 1].turn
  BY <1>1, <1>2 DEF InOrder
<1> QED BY <1>1, <1>2, <1>3, <1>4 DEF Those

(* Steps of the native side *)

\* Receivers start, run and end, the page is not told yet: nothing that is known
\* of a lease becomes false.
LEMMA ReceiversMove ==
  ASSUME PublishedInv, UNCHANGED <<room, announced, publication, page, turns, sync>>,
         registry'.revision = registry.revision, registry'.started \in Nat,
         registry.started <= registry'.started,
         \A p \in Program : p <= registry.started => bound'[p] = bound[p],
         \A p \in registry'.entries : p <= registry'.started,
         Running' \subseteq Running \cup {p \in Program : p > registry.started},
         doing'.turn = doing.turn, doing'.lease = doing.lease, doing'.room = doing.room,
         \/ doing'.at = doing.at
         \/ /\ doing'.at \notin {"commit", "committed", "withdraw", "withdrawn"}
            /\ doing.at \notin {"committed", "withdrawn"}
  PROVE  SharedInv'
<1>0. /\ TurnInv /\ PastInv /\ LeaseInv /\ HomeInv /\ StopInv /\ AnswerInv /\ ShownInv
      /\ Waiting' = Waiting /\ Now' = Now /\ HostPresents' = HostPresents /\ Pending' = Pending
      /\ AtHome(Now)' = AtHome(Now)
  BY DEF PublishedInv, SharedInv, Waiting, Now, HostPresents, Pending, AtHome
<1>1. /\ registry.started \in Nat /\ Program \subseteq Nat /\ Running \subseteq Program
      /\ NoLease.id \notin Program
  BY SharedTypes DEF PublishedInv, Program
<1>2. \A lease : Known(lease) =>
        /\ \/ lease = NoLease
           \/ /\ lease.id \in Program /\ lease.id <= registry'.started /\ bound'[lease.id] # NoRoom
              /\ lease.revision \in 0 .. registry'.revision
        /\ lease.id \in Running' => lease.id \in Running
  <2> SUFFICES ASSUME NEW lease, Known(lease), lease # NoLease
               PROVE  /\ lease.id \in Program /\ lease.id <= registry'.started /\ bound'[lease.id] # NoRoom
                      /\ lease.revision \in 0 .. registry'.revision
                      /\ lease.id \in Running' => lease.id \in Running
    BY <1>1
  <2>1. /\ lease.id \in Program /\ lease.id <= registry.started /\ bound[lease.id] # NoRoom
        /\ lease.revision \in 0 .. registry.revision
    BY DEF Known
  <2> DEFINE p == lease.id
  <2> HIDE DEF p
  <2>2. p \in Nat /\ p <= registry.started
    BY <1>1, <2>1 DEF p
  <2>3. ~(p > registry.started) /\ p <= registry'.started
    BY <1>1, <2>2
  <2>4. ~(lease.id > registry.started) /\ lease.id <= registry'.started
    BY <2>3 DEF p
  <2>5. bound'[lease.id] = bound[lease.id]
    BY <2>1
  <2>6. lease.id \in Running' => lease.id \in Running
    BY <2>4
  <2> QED BY <2>1, <2>4, <2>5, <2>6
<1>3. TurnInv' /\ PastInv'
  BY <1>0 DEF TurnInv, PastInv
<1>4. LeaseInv'
  BY <1>0, <1>2 DEF LeaseInv, Known
<1>5. HomeInv'
  BY <1>0 DEF HomeInv, Latest
<1>6. StopInv'
  BY <1>0, <1>2 DEF StopInv, Latest, LeaseInv
<1>7. AnswerInv'
  BY <1>0, <1>2 DEF AnswerInv, Holds, LeaseInv
<1>8. ShownInv'
  <2>1. Mismatch' => Mismatch
    BY <1>0, <1>2 DEF Mismatch, LeaseInv
  <2> QED BY <1>0, <2>1 DEF ShownInv, Latest
<1> QED BY <1>3, <1>4, <1>5, <1>6, <1>7, <1>8 DEF SharedInv

\* The room is over, or the host does not present in it any more.
LEMMA SharingEnds ==
  ASSUME PublishedInv, UNCHANGED <<bound, page, turns, doing, sync>>,
         StopRoom(room.gen), publication' = NoLease,
         ~HostPresents', room'.gen \in Nat, room.gen <= room'.gen, room'.hosts => room'.gen # NoRoom
  PROVE  SharedInv'
<1>0. /\ TurnInv /\ PastInv /\ LeaseInv /\ HomeInv /\ StopInv /\ AnswerInv /\ ShownInv
      /\ Waiting' = Waiting /\ Pending' = Pending
  BY DEF PublishedInv, SharedInv, Waiting, Pending
<1>1. /\ \A p \in Running' : bound[p] = NoRoom
      /\ registry'.started = registry.started /\ registry'.revision = registry.revision
      /\ registry'.entries \subseteq registry.entries /\ Running' \subseteq Running
  <2>1. \A p \in Running' : bound'[p] = NoRoom
    BY EndOfARoom DEF PublishedInv
  <2>2. /\ registry'.started = registry.started /\ registry'.revision = registry.revision
        /\ registry'.entries \subseteq registry.entries /\ registry'.stopped = registry.stopped
    BY DEF StopRoom, PublishedInv, ProgramInv, ProgramTypes, NativeTypes
  <2> QED BY <2>1, <2>2 DEF Running
<1>2. /\ page.room.gen \in Nat /\ doing.room.gen \in Nat /\ room.gen \in Nat
      /\ \A op \in Waiting : op.room.gen \in Nat
      /\ Pending => sync.room.gen \in Nat
      /\ NoLease.id \notin Running'
  <2>1. Pending => sync.room.gen \in Nat
    BY DEF PublishedInv, ProgramInv, ProgramTypes, Snapshot, Pending, Seen
  <2> QED BY <1>1, <2>1, SharedTypes DEF PublishedInv
<1>3. \A lease : Known(lease) =>
        /\ \/ lease = NoLease
           \/ /\ lease.id \in Program /\ lease.id <= registry'.started /\ bound'[lease.id] # NoRoom
              /\ lease.revision \in 0 .. registry'.revision
        /\ lease.id \notin Running'
  BY <1>1, <1>2 DEF Known
<1>4. TurnInv' /\ PastInv'
  BY <1>0, <1>2 DEF TurnInv, PastInv
<1>5. LeaseInv'
  BY <1>0, <1>1, <1>3 DEF LeaseInv, Known
<1>6. HomeInv'
  BY <1>0 DEF HomeInv
<1>7. StopInv'
  BY <1>0, <1>2 DEF StopInv, Latest, LeaseInv
<1>8. AnswerInv'
  BY <1>0, <1>2, <1>3 DEF AnswerInv, Holds, LeaseInv
<1>9. ShownInv'
  BY <1>0, <1>2, <1>3 DEF ShownInv, Mismatch, LeaseInv
<1> QED BY <1>4, <1>5, <1>6, <1>7, <1>8, <1>9 DEF SharedInv

LEMMA SharedRooms ==
  ASSUME PublishedInv, LeaveRoom \/ NamePresenter
  PROVE  SharedInv'
<1>1. /\ room.gen \in Nat /\ room.gen # NoRoom
      /\ room \in [gen : Nat, hosts : BOOLEAN, presents : BOOLEAN, epoch : Nat]
  BY SharedTypes DEF PublishedInv, SharedInv, PastInv, LeaveRoom, NamePresenter, ProgramInv, ProgramTypes, RoomTypes
<1>2. CASE LeaveRoom
  <2>1. ~HostPresents' /\ room'.gen = room.gen + 1 /\ ~room'.hosts
    BY <1>2 DEF LeaveRoom, HostPresents
  <2> QED BY <1>1, <1>2, <2>1, SharingEnds DEF LeaveRoom, PageRests
<1>3. CASE NamePresenter
  <2>1. room' = [[room EXCEPT !.presents = FALSE] EXCEPT !.epoch = room.epoch + 1]
    BY <1>3 DEF NamePresenter
  <2>2. ~HostPresents' /\ room'.gen = room.gen
    BY <1>1, <2>1 DEF HostPresents
  <2> QED BY <1>1, <1>3, <2>2, SharingEnds DEF NamePresenter, PageRests
<1> QED BY <1>2, <1>3

\* A room is opened: nobody knows of it yet, and nothing is published.
LEMMA SharedHostRoom ==
  ASSUME PublishedInv, HostRoom
  PROVE  SharedInv'
<1>0. /\ TurnInv /\ PastInv /\ LeaseInv /\ HomeInv /\ StopInv /\ AnswerInv /\ ShownInv
  BY DEF PublishedInv, SharedInv
<1>1. /\ ~room.hosts /\ room'.gen = room.gen + 1 /\ room'.hosts /\ room'.presents
      /\ UNCHANGED <<registry, bound, publication, page, turns, doing, sync>>
  BY DEF HostRoom, nativeVars, PageRests
<1>2. /\ page.room.gen \in Nat /\ doing.room.gen \in Nat /\ room.gen \in Nat
      /\ \A op \in Waiting : op.room.gen \in Nat
      /\ Pending => sync.room.gen \in Nat
  <2>1. Pending => sync.room.gen \in Nat
    BY DEF PublishedInv, ProgramInv, ProgramTypes, Snapshot, Pending, Seen
  <2> QED BY <2>1, SharedTypes DEF PublishedInv
<1>3. /\ publication = NoLease /\ ~HostPresents /\ Waiting' = Waiting /\ Pending' = Pending
      /\ Running' = Running /\ Now'.gen = room.gen + 1
  BY <1>0, <1>1 DEF LeaseInv, HostPresents, Waiting, Pending, Running, Now
<1>4. \A lease : Known(lease) => \/ lease = NoLease
                                 \/ /\ lease.id \in Program /\ lease.id <= registry'.started
                                    /\ bound'[lease.id] # NoRoom /\ lease.revision \in 0 .. registry'.revision
  BY <1>1 DEF Known
<1>5. TurnInv' /\ PastInv'
  BY <1>0, <1>1, <1>2, <1>3 DEF TurnInv, PastInv
<1>6. LeaseInv'
  BY <1>0, <1>1, <1>3, <1>4 DEF LeaseInv, Known
<1>7. HomeInv'
  <2>1. doing.room # Now' /\ \A op \in Waiting : op.room # Now'
    BY <1>0, <1>2, <1>3 DEF PastInv
  <2> QED BY <1>1, <1>3, <2>1 DEF HomeInv
<1>8. StopInv'
  BY <1>0, <1>1, <1>3 DEF StopInv, Latest
<1>9. AnswerInv'
  BY <1>0, <1>1, <1>3 DEF AnswerInv, Holds, LeaseInv
<1>10. ShownInv'
  BY <1>0, <1>1, <1>3 DEF ShownInv, Mismatch, Latest
<1> QED BY <1>5, <1>6, <1>7, <1>8, <1>9, <1>10 DEF SharedInv

\* What is published is revoked while the page shows nothing.
LEMMA SharedShowFile ==
  ASSUME Impatient = FALSE, PublishedInv, ShowFile
  PROVE  SharedInv'
<1>0. /\ TurnInv /\ PastInv /\ LeaseInv /\ HomeInv /\ StopInv /\ AnswerInv /\ ShownInv
      /\ NoLease.id \notin Running
  BY SharedTypes DEF PublishedInv, SharedInv
<1>1. /\ page.lease = NoLease /\ doing.at # "committed" /\ publication' = NoLease
      /\ UNCHANGED <<room, announced, registry, bound, page, turns, doing, sync>>
  BY DEF ShowFile, PageRests
<1>2. /\ Waiting' = Waiting /\ Pending' = Pending /\ Running' = Running /\ Now' = Now
      /\ HostPresents' = HostPresents /\ AtHome(Now)' = AtHome(Now)
  BY <1>1 DEF Waiting, Pending, Running, Now, HostPresents, AtHome
<1>3. publication # NoLease => publication.id \notin Running
  BY <1>0, <1>1 DEF ShownInv, Mismatch
<1>4. TurnInv' /\ PastInv'
  BY <1>0, <1>1, <1>2 DEF TurnInv, PastInv
<1>5. LeaseInv' /\ HomeInv'
  BY <1>0, <1>1, <1>2 DEF LeaseInv, Known, HomeInv, Latest
<1>6. StopInv'
  BY <1>0, <1>1, <1>2 DEF StopInv, Latest, LeaseInv
<1>7. AnswerInv'
  BY <1>0, <1>1, <1>2, <1>3 DEF AnswerInv, Holds
<1>8. ShownInv'
  BY <1>0, <1>1, <1>2 DEF ShownInv, Mismatch
<1> QED BY <1>4, <1>5, <1>6, <1>7, <1>8 DEF SharedInv

\* A guest comes or goes.
LEMMA SharedAnnounced ==
  ASSUME PublishedInv, RoomAnnounced
  PROVE  SharedInv'
<1>0. /\ TurnInv /\ PastInv /\ LeaseInv /\ HomeInv /\ StopInv /\ AnswerInv /\ ShownInv
  BY DEF PublishedInv, SharedInv
<1>1. /\ announced' = Append(announced, HostPresents)
      /\ UNCHANGED <<room, registry, bound, publication, page, turns, doing, sync>>
  BY DEF RoomAnnounced, Announce, HostPresents, nativeVars, PageRests
<1>2. /\ Waiting' = Waiting /\ Pending' = Pending /\ Running' = Running /\ Now' = Now
      /\ HostPresents' = HostPresents
  BY <1>1 DEF Waiting, Pending, Running, Now, HostPresents
<1>3. HostPresents /\ AtHome(Now) => AtHome(Now)'
  <2> SUFFICES ASSUME HostPresents, AtHome(Now) PROVE AtHome(Now)'
    OBVIOUS
  <2>1. announced \in Seq(BOOLEAN) /\ HostPresents = TRUE
    BY DEF PublishedInv, ProgramInv, ProgramTypes, RoomTypes, HostPresents
  <2>2. \A i \in DOMAIN announced' : announced'[i]
    <3>1. announced' = Append(announced, TRUE)
      BY <1>1, <2>1
    <3>2. \A i \in DOMAIN announced : announced[i]
      BY DEF AtHome
    <3> QED BY <2>1, <3>1, <3>2
  <2> QED BY <1>1, <1>2, <2>2 DEF AtHome
<1>4. TurnInv' /\ PastInv' /\ LeaseInv'
  BY <1>0, <1>1, <1>2 DEF TurnInv, PastInv, LeaseInv, Known
<1>5. HomeInv'
  BY <1>0, <1>1, <1>2, <1>3 DEF HomeInv, Latest, LeaseInv
<1>6. StopInv' /\ AnswerInv' /\ ShownInv'
  BY <1>0, <1>1, <1>2 DEF StopInv, Latest, AnswerInv, Holds, ShownInv, Mismatch
<1> QED BY <1>4, <1>5, <1>6 DEF SharedInv

\* The service withdraws a publication whose receiver has ended.
LEMMA SharedSourceStopped ==
  ASSUME PublishedInv, SourceStopped
  PROVE  SharedInv'
<1>0. /\ TurnInv /\ PastInv /\ LeaseInv /\ HomeInv /\ StopInv /\ AnswerInv /\ ShownInv
      /\ NoLease.id \notin Program
  BY SharedTypes DEF PublishedInv, SharedInv
<1>1. /\ publication.id \in registry.stopped /\ publication' = NoLease /\ sync'.stage = "asked"
      /\ UNCHANGED <<room, announced, registry, bound, page, turns, doing>>
  BY DEF SourceStopped, hostVars
<1>2. /\ Waiting' = Waiting /\ ~Pending' /\ Running' = Running /\ Now' = Now
      /\ HostPresents' = HostPresents /\ (AtHome(Now) => AtHome(Now)')
  BY <1>1 DEF Waiting, Pending, Running, Now, HostPresents, AtHome
<1>3. /\ publication.id \notin Running /\ publication # NoLease /\ NoLease.id \notin Running
  BY <1>0, <1>1 DEF Running, PublishedInv, ProgramInv, ProgramTypes, NativeTypes
<1>4. TurnInv' /\ PastInv' /\ LeaseInv'
  BY <1>0, <1>1, <1>2 DEF TurnInv, PastInv, LeaseInv, Known
<1>5. HomeInv' /\ StopInv'
  BY <1>0, <1>1, <1>2, <1>3 DEF HomeInv, StopInv, Latest, LeaseInv
<1>6. AnswerInv'
  BY <1>0, <1>1, <1>2, <1>3 DEF AnswerInv, Holds, LeaseInv, Pending
<1>7. ShownInv'
  BY <1>0, <1>1, <1>2, <1>3 DEF ShownInv, Mismatch
<1> QED BY <1>4, <1>5, <1>6, <1>7 DEF SharedInv

LEMMA SharedNative ==
  ASSUME PublishedInv,
         \/ RunStop \/ ReadGeneration \/ ReadRoomGeneration \/ StartRefused \/ CommitRefused
         \/ \E p \in Program : ProgramDies(p)
  PROVE  SharedInv'
<1>0. /\ registry.started \in Nat /\ Program \subseteq Nat
      /\ \A p \in registry.entries : p <= registry.started
      /\ registry \in [started : Nat, entries : SUBSET Program, stopped : SUBSET Program,
                       generation : Nat, source : [Program -> Source \cup {NoSource}], revision : Nat]
      /\ doing \in Operation
  BY SharedTypes DEF PublishedInv, SharedInv, LeaseInv, Program, ProgramInv, ProgramTypes, NativeTypes, PageTypes
<1>1. /\ UNCHANGED <<room, announced, bound, publication, page, turns, sync>>
      /\ registry'.started = registry.started /\ registry'.revision = registry.revision
      /\ registry'.entries \subseteq registry.entries /\ registry.stopped \subseteq registry'.stopped
  <2>1. CASE RunStop
    BY <1>0, <2>1 DEF RunStop, Native, hostVars
  <2>2. CASE ReadGeneration \/ ReadRoomGeneration \/ StartRefused \/ CommitRefused
    BY <2>2 DEF ReadGeneration, ReadRoomGeneration, StartRefused, CommitRefused, Native, hostVars, nativeVars
  <2>3. CASE \E p \in Program : ProgramDies(p)
    BY <1>0, <2>3 DEF ProgramDies, PageRests
  <2> QED BY <2>1, <2>2, <2>3
<1>2. /\ doing'.turn = doing.turn /\ doing'.lease = doing.lease /\ doing'.room = doing.room
      /\ \/ doing'.at = doing.at
         \/ /\ doing'.at \notin {"commit", "committed", "withdraw", "withdrawn"}
            /\ doing.at \notin {"committed", "withdrawn"}
  <2>1. \A at : /\ [doing EXCEPT !.at = at].turn = doing.turn /\ [doing EXCEPT !.at = at].at = at
                /\ [doing EXCEPT !.at = at].lease = doing.lease /\ [doing EXCEPT !.at = at].room = doing.room
    BY <1>0 DEF Operation
  <2>2. CASE RunStop
    BY <1>0, <2>1, <2>2 DEF RunStop, Answers, Operation
  <2>3. CASE ReadGeneration \/ ReadRoomGeneration
    BY <1>0, <2>3 DEF ReadGeneration, ReadRoomGeneration, Operation
  <2>4. CASE StartRefused \/ CommitRefused
    BY <2>1, <2>4 DEF StartRefused, CommitRefused, Answers
  <2>5. CASE \E p \in Program : ProgramDies(p)
    BY <2>5 DEF ProgramDies, PageRests
  <2> QED BY <2>2, <2>3, <2>4, <2>5
<1>3. registry'.started \in Nat /\ registry.started <= registry'.started
  BY <1>0, <1>1
<1>4. \A p \in registry'.entries : p <= registry'.started
  BY <1>0, <1>1
<1>5. Running' \subseteq Running
  BY <1>1 DEF Running
<1> QED BY <1>0, <1>1, <1>2, <1>3, <1>4, <1>5, ReceiversMove

LEMMA SharedInsert ==
  ASSUME PublishedInv, Insert
  PROVE  SharedInv'
<1> DEFINE p == registry.started + 1
<1>1. /\ doing.at = "insert" /\ p \in Program
      /\ doing' = [doing EXCEPT !.at = "started", !.id = p]
      /\ registry' = [registry EXCEPT !.started = p, !.entries = Running \cup {p},
                                      !.source[p] = doing.source]
      /\ bound' = [bound EXCEPT ![p] = doing.in]
      /\ UNCHANGED <<publication, room, announced, page, turns, sync>>
  BY DEF Insert, Inserts, Native, hostVars
<1>2. /\ registry.started \in Nat /\ p \in Nat /\ registry.started < p /\ Program \subseteq Nat
      /\ \A q \in registry.entries : q <= registry.started
      /\ bound \in [Program -> Nat] /\ doing \in Operation
      /\ registry \in [started : Nat, entries : SUBSET Program, stopped : SUBSET Program,
                       generation : Nat, source : [Program -> Source \cup {NoSource}], revision : Nat]
  <2>1. registry.started \in Nat /\ \A q \in registry.entries : q <= registry.started
    BY SharedTypes DEF PublishedInv, SharedInv, LeaseInv
  <2>2. Program \subseteq Nat /\ p \in Nat /\ registry.started < p
    BY <2>1 DEF Program
  <2> QED BY <2>1, <2>2 DEF PublishedInv, ProgramInv, ProgramTypes, NativeTypes, PageTypes
<1> HIDE DEF p
<1>3. /\ registry'.started = p /\ registry'.revision = registry.revision
      /\ registry'.entries = Running \cup {p} /\ registry'.stopped = registry.stopped
  BY <1>1, <1>2
<1>4. \A q \in Program : q <= registry.started => bound'[q] = bound[q]
  BY <1>1, <1>2
<1>5. \A q \in registry'.entries : q <= registry'.started
  <2>1. \A q \in Running : q \in Nat /\ q <= registry.started
    BY <1>2 DEF Running
  <2> QED BY <1>2, <1>3, <2>1
<1>6. Running' \subseteq Running \cup {q \in Program : q > registry.started}
  BY <1>1, <1>2, <1>3 DEF Running
<1>7. /\ doing'.turn = doing.turn /\ doing'.lease = doing.lease /\ doing'.room = doing.room
      /\ doing'.at = "started"
  BY <1>1, <1>2 DEF Operation
<1>8. registry.started <= registry'.started
  BY <1>2, <1>3
<1> QED BY <1>1, <1>2, <1>3, <1>4, <1>5, <1>6, <1>7, <1>8, ReceiversMove

LEMMA SharedCommit ==
  ASSUME LateSnapshots = FALSE, PublishedInv, Commit
  PROVE  SharedInv'
<1>0. /\ TurnInv /\ PastInv /\ LeaseInv /\ HomeInv /\ StopInv /\ AnswerInv /\ ShownInv
      /\ registry.revision \in Nat /\ registry.started \in Nat /\ doing \in Operation
      /\ Running \subseteq registry.entries /\ Running \subseteq Program /\ NoLease.id \notin Program
      /\ bound \in [Program -> Nat]
  BY SharedTypes DEF PublishedInv, SharedInv, ProgramInv, ProgramTypes, NativeTypes, PageTypes, Running
<1>1. /\ doing.at = "commit" /\ HostPresents /\ doing.room = Now /\ doing.id \in Running /\ ~Pending
      /\ doing' = [doing EXCEPT !.at = "committed", !.lease = publication']
      /\ UNCHANGED <<room, announced, page, turns, sync>>
  BY DEF Commit, Permitted, NoneRead, Native, hostVars, HostPresents, Now, Pending
<1>2. /\ doing'.at = "committed" /\ doing'.lease = publication'
      /\ doing'.turn = doing.turn /\ doing'.room = doing.room
  BY <1>0, <1>1 DEF Operation
<1>3. /\ AtHome(Now) /\ Latest(doing, "publishing") /\ room.gen # NoRoom
  BY <1>0, <1>1 DEF HomeInv, PastInv, HostPresents
<1>4. /\ Waiting' = Waiting /\ ~Pending' /\ Now' = Now
      /\ HostPresents' /\ AtHome(Now)' = AtHome(Now)
  BY <1>1 DEF Waiting, Pending, Now, HostPresents, AtHome
<1>5. /\ registry'.started = registry.started /\ registry'.entries = registry.entries
      /\ \A lease : Known(lease) =>
           \/ lease = NoLease
           \/ /\ lease.id \in Program /\ lease.id <= registry'.started
              /\ bound'[lease.id] # NoRoom /\ lease.revision \in 0 .. registry'.revision
      /\ publication' # NoLease /\ bound'[publication'.id] = room.gen
      /\ publication'.id \in Program /\ publication'.id <= registry.started
      /\ publication'.revision \in 0 .. registry'.revision
      /\ publication' = publication \/ \A lease : Known(lease) => lease # publication'
  <2>1. CASE IsPublished(doing.id)
    <3>1. UNCHANGED <<registry, bound, publication>> /\ publication.id \in Running
      BY <1>1, <2>1 DEF Commit, IsPublished
    <3>2. publication # NoLease /\ Known(publication) /\ bound[publication.id] = room.gen
      BY <1>0, <3>1 DEF LeaseInv
    <3> QED BY <1>0, <3>1, <3>2 DEF Known
  <2>2. CASE ~IsPublished(doing.id)
    <3>1. /\ registry' = [registry EXCEPT !.revision = @ + 1]
          /\ bound' = [bound EXCEPT ![doing.id] = room.gen]
          /\ publication' = [id |-> doing.id, gen |-> room.gen, epoch |-> room.epoch,
                             revision |-> registry'.revision]
      BY <2>2 DEF Commit
    <3>2. /\ registry'.started = registry.started /\ registry'.entries = registry.entries
          /\ registry'.revision = registry.revision + 1
      BY <3>1 DEF PublishedInv, ProgramInv, ProgramTypes, NativeTypes
    <3>3. /\ publication'.id = doing.id /\ publication'.revision = registry.revision + 1
          /\ doing.id \in Program /\ doing.id <= registry.started
      BY <1>0, <1>1, <3>1, <3>2 DEF LeaseInv
    <3>4. publication' # NoLease
      BY <1>0, <3>3
    <3>5. ASSUME NEW lease, Known(lease), lease # NoLease
          PROVE  /\ lease.id \in Program /\ lease.id <= registry'.started /\ bound'[lease.id] # NoRoom
                 /\ lease.revision \in 0 .. registry.revision
      BY <1>0, <1>3, <3>1, <3>2, <3>5 DEF Known
    <3>6. ASSUME NEW lease, Known(lease)
          PROVE  /\ lease = NoLease \/ lease.revision \in 0 .. registry'.revision
                 /\ lease # publication'
      <4>1. CASE lease = NoLease
        BY <3>4, <4>1
      <4>2. CASE lease # NoLease
        <5>1. lease.revision \in 0 .. registry.revision
          BY <3>5, <3>6, <4>2
        <5> QED BY <1>0, <3>2, <3>3, <5>1
      <4> QED BY <4>1, <4>2
    <3>7. bound'[publication'.id] = room.gen /\ publication'.revision \in 0 .. registry'.revision
      BY <1>0, <3>1, <3>2, <3>3
    <3> QED BY <3>2, <3>3, <3>4, <3>5, <3>6, <3>7
  <2> QED BY <2>1, <2>2
<1>6. TurnInv' /\ PastInv'
  BY <1>0, <1>1, <1>2, <1>4 DEF TurnInv, PastInv
<1>7. LeaseInv'
  <2>1. /\ Known(publication)' /\ Known(page.lease)' /\ Known(doing.lease)'
        /\ \A op \in Waiting' : Known(op.lease)' /\ (op.op = "unpublish" => op.lease # NoLease)
    BY <1>0, <1>1, <1>2, <1>3, <1>4, <1>5 DEF LeaseInv, Known
  <2>2. /\ \A p \in registry'.entries : p <= registry'.started
        /\ doing'.lease # NoLease /\ bound'[publication'.id] = room'.gen
    BY <1>0, <1>1, <1>2, <1>5 DEF LeaseInv
  <2> QED BY <1>4, <2>1, <2>2 DEF LeaseInv
<1>8. HomeInv'
  BY <1>0, <1>1, <1>2, <1>3, <1>4 DEF HomeInv, Latest
<1>9. StopInv'
  BY <1>0, <1>1, <1>2, <1>4, <1>5 DEF StopInv, Latest, LeaseInv
<1>10. AnswerInv' /\ ShownInv'
  BY <1>1, <1>2, <1>4 DEF AnswerInv, Pending, Holds, ShownInv
<1> QED BY <1>6, <1>7, <1>8, <1>9, <1>10 DEF SharedInv

LEMMA SharedWithdraw ==
  ASSUME LateSnapshots = FALSE, PublishedInv, Withdraw
  PROVE  SharedInv'
<1>0. /\ TurnInv /\ PastInv /\ LeaseInv /\ HomeInv /\ StopInv /\ AnswerInv /\ ShownInv
      /\ NoLease.id \notin Running /\ doing \in Operation
  BY SharedTypes DEF PublishedInv, SharedInv, ProgramInv, ProgramTypes, PageTypes
<1>1. /\ doing.at = "withdraw" /\ doing' = [doing EXCEPT !.at = "withdrawn"] /\ ~Pending
      /\ UNCHANGED <<room, announced, registry, bound, page, turns>>
  BY DEF Withdraw, NoneRead, Answers, hostVars, Pending
<1>2. /\ doing'.at = "withdrawn" /\ doing'.lease = doing.lease /\ doing.lease # NoLease
      /\ doing'.turn = doing.turn /\ doing'.room = doing.room
  BY <1>0, <1>1 DEF Operation, LeaseInv
<1>3. /\ ~Pending' /\ Waiting' = Waiting /\ Running' = Running /\ Now' = Now
      /\ HostPresents' = HostPresents /\ (AtHome(Now) => AtHome(Now)')
      /\ publication' \in {NoLease, publication}
  BY <1>1 DEF Withdraw, Waiting, Pending, Running, Now, HostPresents, AtHome
<1>4. TurnInv' /\ PastInv' /\ LeaseInv'
  BY <1>0, <1>1, <1>2, <1>3 DEF TurnInv, PastInv, LeaseInv, Known
<1>5. HomeInv' /\ AnswerInv'
  BY <1>0, <1>1, <1>2, <1>3 DEF HomeInv, Latest, AnswerInv, Pending
<1>6. CASE publication = doing.lease
  <2>1. publication' = NoLease /\ Latest(doing, "stopping") /\ page.lease = doing.lease
    BY <1>0, <1>1, <1>6 DEF Withdraw, StopInv, Latest
  <2>2. StopInv'
    BY <1>0, <1>1, <1>2, <1>3, <2>1 DEF StopInv, Latest, LeaseInv
  <2>3. ShownInv'
    BY <1>1, <1>2, <2>1 DEF ShownInv, Latest
  <2> QED BY <1>4, <1>5, <2>2, <2>3 DEF SharedInv
<1>7. CASE publication # doing.lease
  <2>1. publication' = publication /\ ~Mismatch
    BY <1>0, <1>1, <1>7 DEF Withdraw, ShownInv
  <2>2. StopInv'
    BY <1>0, <1>1, <1>2, <1>3, <1>7, <2>1 DEF StopInv, Latest, Mismatch
  <2>3. ShownInv'
    BY <1>1, <1>3, <2>1 DEF ShownInv, Mismatch
  <2> QED BY <1>4, <1>5, <2>2, <2>3 DEF SharedInv
<1> QED BY <1>6, <1>7

(* Steps of the page *)

\* The page comes into another room, or leaves the one there is: every intent ends,
\* and what it shows holds if it shows anything.
LEMMA LeftHome ==
  ASSUME PublishedInv, ~AtHome(Now),
         UNCHANGED <<room, registry, bound, publication, turns, doing>>, ~Pending',
         page'.intent = page.intent + 1, page'.room.gen <= room.gen,
         Known(page'.lease), page'.lease = NoLease \/ Holds(page'.lease)
  PROVE  SharedInv'
<1>0. /\ TurnInv /\ PastInv /\ LeaseInv /\ HomeInv /\ StopInv /\ AnswerInv /\ ShownInv
      /\ NoLease.id \notin Running /\ page.intent \in Nat /\ doing.turn \in Nat
      /\ \A op \in Waiting : op.turn \in Nat
  BY SharedTypes DEF PublishedInv, SharedInv
<1>1. /\ Waiting' = Waiting /\ Now' = Now /\ HostPresents' = HostPresents /\ Running' = Running
      /\ publication = NoLease
  BY <1>0 DEF Waiting, Now, HostPresents, Running, HomeInv
<1>2. doing.turn < page'.intent /\ \A op \in Waiting : op.turn < page'.intent
  BY <1>0 DEF TurnInv
<1>3. TurnInv' /\ PastInv'
  <2>1. doing.turn <= page'.intent /\ \A op \in Waiting : op.turn <= page'.intent
    BY <1>0 DEF TurnInv
  <2> QED BY <1>0, <1>1, <2>1 DEF TurnInv, PastInv
<1>4. LeaseInv' /\ HomeInv'
  BY <1>0, <1>1 DEF LeaseInv, Known, HomeInv
<1>5. StopInv'
  BY <1>0, <1>1, <1>2 DEF StopInv, LeaseInv
<1>6. AnswerInv'
  BY <1>0, <1>1 DEF AnswerInv, Holds, Pending
<1>7. ShownInv'
  BY <1>0, <1>1 DEF ShownInv, Mismatch, Holds
<1> QED BY <1>3, <1>4, <1>5, <1>6, <1>7 DEF SharedInv

\* The page hears, or is told, of the room it is in.
LEMMA StaysHome ==
  ASSUME PublishedInv, UNCHANGED <<room, registry, bound, publication, turns, doing>>, ~Pending',
         page'.room = page.room, page'.intent = page.intent, page'.busy = page.busy,
         (\A i \in DOMAIN announced : announced[i]) => \A i \in DOMAIN announced' : announced'[i],
         \/ page'.lease = page.lease
         \/ page.busy = "none" /\ Known(page'.lease) /\ ~Mismatch'
  PROVE  SharedInv'
<1>0. /\ TurnInv /\ PastInv /\ LeaseInv /\ HomeInv /\ StopInv /\ AnswerInv /\ ShownInv
  BY DEF PublishedInv, SharedInv
<1>1. /\ Waiting' = Waiting /\ Now' = Now /\ HostPresents' = HostPresents /\ Running' = Running
      /\ AtHome(Now) => AtHome(Now)'
  BY DEF Waiting, Now, HostPresents, Running, AtHome
<1>2. TurnInv' /\ PastInv'
  BY <1>0, <1>1 DEF TurnInv, PastInv
<1>3. LeaseInv'
  BY <1>0, <1>1 DEF LeaseInv, Known
<1>4. HomeInv' /\ StopInv'
  BY <1>0, <1>1 DEF HomeInv, StopInv, Latest
<1>5. AnswerInv'
  BY <1>0, <1>1 DEF AnswerInv, Holds, Pending
<1>6. ShownInv'
  BY <1>0, <1>1 DEF ShownInv, Mismatch, Latest
<1> QED BY <1>2, <1>3, <1>4, <1>5, <1>6 DEF SharedInv

LEMMA EnteredPage ==
  ASSUME NEW pg \in Page, NEW there \in Seen
  PROVE  LET now == Entered(pg, there) IN
         /\ now \in Page
         /\ there = pg.room => now = pg
         /\ there # pg.room => /\ now.intent = pg.intent + 1 /\ now.room = there
                               /\ now.busy = "none" /\ now.lease = NoLease
<1>1. Entered(pg, there) \in Page
  BY EnteredType
<1> DEFINE candidate == IF pg.candidate.room = NoRoom \/ (pg.candidate.room = there.gen /\ there.presents)
                          THEN pg.candidate ELSE NoCandidate
<1>2. Entered(pg, there) = IF there = pg.room THEN pg
        ELSE [pg EXCEPT !.intent = pg.intent + 1, !.room = there, !.busy = "none",
                        !.published = NoCandidate, !.lease = NoLease, !.candidate = candidate]
  BY DEF Entered
<1> HIDE DEF candidate
<1> QED BY <1>1, <1>2 DEF Page

LEMMA RestOfTheNews ==
  ASSUME NEW news \in Seq(BOOLEAN), news # <<>>, \A i \in DOMAIN news : news[i]
  PROVE  Head(news) /\ \A i \in DOMAIN Tail(news) : Tail(news)[i]
<1>1. /\ 1 \in DOMAIN news /\ Head(news) = news[1]
      /\ \A i \in DOMAIN Tail(news) : i + 1 \in DOMAIN news /\ Tail(news)[i] = news[i + 1]
  OBVIOUS
<1> QED BY <1>1, Zenon

LEMMA SharedHears ==
  ASSUME PublishedInv, HearState
  PROVE  SharedInv'
<1>1. /\ announced \in Seq(BOOLEAN) /\ announced # <<>> /\ announced' = Tail(announced) /\ ~Pending'
      /\ UNCHANGED <<room, registry, bound, publication, turns, doing>>
  BY DEF HearState, Pending, nativeVars, PublishedInv, ProgramInv, ProgramTypes, RoomTypes
<1>2. page' = page \/ (~Head(announced) /\ page' = Entered(page, Off))
  BY DEF HearState
<1>3. (\A i \in DOMAIN announced : announced[i]) => Head(announced) /\ \A i \in DOMAIN announced' : announced'[i]
  BY <1>1, RestOfTheNews
<1>4. CASE page' = page
  BY <1>1, <1>3, <1>4, StaysHome
<1>5. CASE page' # page
  <2>1. page \in Page /\ Off \in Seen /\ Off.gen = 0 /\ room.gen \in Nat
    BY SharedTypes DEF PublishedInv, ProgramInv, ProgramTypes, PageTypes, Off, Seen
  <2>2. ~Head(announced) /\ page' = Entered(page, Off)
    BY <1>2, <1>5
  <2>3. page'.intent = page.intent + 1 /\ page'.room = Off /\ page'.lease = NoLease
    BY <1>5, <2>1, <2>2, EnteredPage
  <2>4. ~AtHome(Now)
    BY <1>3, <2>2 DEF AtHome
  <2>5. page'.room.gen <= room.gen
    BY <2>1, <2>3
  <2> QED BY <1>1, <2>3, <2>4, <2>5, LeftHome DEF Known
<1> QED BY <1>4, <1>5

LEMMA SharedReadRoom ==
  ASSUME PublishedInv, ReadRoom
  PROVE  SharedInv'
<1>0. /\ TurnInv /\ PastInv /\ LeaseInv /\ HomeInv /\ StopInv /\ AnswerInv /\ ShownInv
      /\ room.gen \in Nat
  BY SharedTypes DEF PublishedInv, SharedInv
<1>1. /\ sync'.stage = "room" /\ sync'.lease = publication /\ sync'.room = Now
      /\ UNCHANGED <<room, announced, registry, bound, publication, page, turns, doing>>
  BY DEF ReadRoom, Now, hostVars, nativeVars
<1>2. /\ Waiting' = Waiting /\ Now' = Now /\ HostPresents' = HostPresents /\ Running' = Running
      /\ AtHome(Now) => AtHome(Now)'
  BY <1>1 DEF Waiting, Now, HostPresents, Running, AtHome
<1>3. Now.gen <= room.gen
  BY <1>0 DEF Now, Off
<1>4. TurnInv' /\ PastInv' /\ LeaseInv'
  BY <1>0, <1>1, <1>2, <1>3 DEF TurnInv, PastInv, LeaseInv, Known
<1>5. HomeInv' /\ StopInv'
  BY <1>0, <1>1, <1>2 DEF HomeInv, StopInv, Latest
<1>6. AnswerInv' /\ ShownInv'
  BY <1>0, <1>1, <1>2 DEF AnswerInv, Holds, ShownInv, Mismatch, Latest
<1> QED BY <1>4, <1>5, <1>6 DEF SharedInv

LEMMA SharedReadPrograms ==
  ASSUME PublishedInv, ReadPrograms
  PROVE  SharedInv'
<1>0. /\ TurnInv /\ PastInv /\ LeaseInv /\ HomeInv /\ StopInv /\ AnswerInv /\ ShownInv
  BY DEF PublishedInv, SharedInv
<1>1. /\ Pending /\ sync'.lease = sync.lease /\ sync'.room = sync.room
      /\ sync'.programs = registry.entries
      /\ UNCHANGED <<room, announced, registry, bound, publication, page, turns, doing>>
  BY DEF ReadPrograms, hostVars, nativeVars, Pending
<1>2. /\ Waiting' = Waiting /\ Now' = Now /\ HostPresents' = HostPresents /\ Running' = Running
      /\ AtHome(Now) => AtHome(Now)'
  BY <1>1 DEF Waiting, Now, HostPresents, Running, AtHome
<1>3. TurnInv' /\ PastInv' /\ LeaseInv'
  BY <1>0, <1>1, <1>2 DEF TurnInv, PastInv, LeaseInv, Known
<1>4. HomeInv' /\ StopInv'
  BY <1>0, <1>1, <1>2 DEF HomeInv, StopInv, Latest
<1>5. AnswerInv'
  <2>1. publication.id \in Running => publication.id \in registry.entries
    BY DEF Running
  <2> QED BY <1>0, <1>1, <1>2, <2>1 DEF AnswerInv, Holds
<1>6. ShownInv'
  BY <1>0, <1>1, <1>2 DEF ShownInv, Mismatch, Latest
<1> QED BY <1>3, <1>4, <1>5, <1>6 DEF SharedInv

LEMMA RestoredPage ==
  ASSUME NEW pg \in Page, NEW snap \in Snapshot, snap.stage = "answered"
  PROVE  LET now == Entered(pg, snap.room)
             after == Restored(pg, snap) IN
         /\ after.intent = now.intent /\ after.room = now.room /\ after.busy = now.busy
         /\ now.busy # "none" => after = now
         /\ now.busy = "none" =>
              after.lease = IF snap.lease.id \in snap.programs THEN snap.lease ELSE NoLease
<1> DEFINE now == Entered(pg, snap.room)
           others == snap.programs \ {snap.lease.id}
           kept == {now.candidate.id} \cap others
           chosen == IF kept # {} THEN kept ELSE IF Cardinality(others) = 1 THEN others ELSE {}
           Local(p) == [id |-> p, room |-> snap.bound[p], retired |-> FALSE]
           published == IF snap.lease.id \in snap.programs THEN Local(snap.lease.id) ELSE NoCandidate
           lease == IF snap.lease.id \in snap.programs THEN snap.lease ELSE NoLease
           candidate == IF chosen = {} THEN NoCandidate ELSE Local(CHOOSE p \in chosen : TRUE)
<1>1. snap.room \in Seen
  BY DEF Snapshot
<1>2. now \in Page
  BY <1>1, EnteredType
<1>3. Restored(pg, snap) = IF now.busy # "none" THEN now
        ELSE [now EXCEPT !.published = published, !.lease = lease, !.candidate = candidate]
  BY DEF Restored
<1> HIDE DEF now, published, candidate, others, kept, chosen, Local
<1>4. /\ Restored(pg, snap).intent = now.intent /\ Restored(pg, snap).room = now.room
      /\ Restored(pg, snap).busy = now.busy
      /\ now.busy # "none" => Restored(pg, snap) = now
      /\ now.busy = "none" => Restored(pg, snap).lease = lease
  BY <1>2, <1>3 DEF Page
<1> QED BY <1>4 DEF now

LEMMA SharedRestore ==
  ASSUME PublishedInv, Restore
  PROVE  SharedInv'
<1> DEFINE now == Entered(page, sync.room)
           shown == IF sync.lease.id \in sync.programs THEN sync.lease ELSE NoLease
<1>0. /\ PastInv /\ LeaseInv /\ AnswerInv /\ NoLease.id \notin Running
  BY SharedTypes DEF PublishedInv, SharedInv
<1>1. /\ sync.stage = "answered" /\ Pending /\ page' = Restored(page, sync) /\ ~Pending'
      /\ UNCHANGED <<room, announced, registry, bound, publication, turns, doing>>
      /\ page \in Page /\ sync \in Snapshot /\ sync.room \in Seen
  BY DEF Restore, NoSync, Pending, hostVars, nativeVars, PublishedInv, ProgramInv, ProgramTypes, PageTypes, Snapshot
<1>2. /\ page'.intent = now.intent /\ page'.room = now.room /\ page'.busy = now.busy
      /\ now.busy # "none" => page' = now
      /\ now.busy = "none" => page'.lease = shown
  BY <1>1, RestoredPage
<1>3. Known(shown) /\ (shown = NoLease \/ Holds(shown))
  BY <1>0, <1>1 DEF LeaseInv, AnswerInv, Known
<1> HIDE DEF shown
<1>4. CASE sync.room = page.room
  <2>1. now = page
    BY <1>1, <1>4, EnteredPage
  <2>2. CASE page.busy # "none"
    BY <1>1, <1>2, <2>1, <2>2, StaysHome
  <2>3. CASE page.busy = "none"
    <3>1. page'.lease = shown
      BY <1>2, <2>1, <2>3
    <3>2. publication.id \in Running => shown = publication
      BY <1>0, <1>1 DEF AnswerInv, Holds, shown
    <3>3. shown.id \in Running => shown = publication
      BY <1>0, <1>3 DEF Holds
    <3>4. ~Mismatch'
      BY <1>1, <3>1, <3>2, <3>3 DEF Mismatch, Running
    <3> QED BY <1>1, <1>2, <1>3, <2>1, <2>3, <3>1, <3>4, StaysHome
  <2> QED BY <2>2, <2>3
<1>5. CASE sync.room # page.room
  <2>1. now.intent = page.intent + 1 /\ now.room = sync.room /\ now.busy = "none"
    BY <1>1, <1>5, EnteredPage
  <2>2. ~AtHome(Now)
    BY <1>1, <1>5 DEF AtHome
  <2>3. page'.room.gen <= room.gen
    BY <1>0, <1>1, <1>2, <2>1 DEF PastInv
  <2> QED BY <1>1, <1>2, <1>3, <2>1, <2>2, <2>3, LeftHome
<1> QED BY <1>4, <1>5

\* An operation is asked for: nothing is on its way, so what the page shows is so.
LEMMA SharedAsks ==
  ASSUME Impatient = FALSE, PublishedInv, page.busy \notin {"publishing", "stopping"},
         NEW request \in Operation, NEW busy \in {"starting", "publishing", "stopping"},
         Asks(request, busy),
         request.room.gen <= room.gen, request.lease = NoLease \/ request.lease = page.lease,
         request.op = "publish" => request.room = page.room /\ busy = "publishing",
         request.op = "unpublish" =>
           page.lease # NoLease /\ request.lease = page.lease /\ busy = "stopping"
  PROVE  SharedInv'
<1> DEFINE op == [request EXCEPT !.turn = page.intent + 1]
<1>0. /\ TurnInv /\ PastInv /\ LeaseInv /\ HomeInv /\ StopInv /\ AnswerInv /\ ShownInv
      /\ page.intent \in Nat /\ doing.turn \in Nat
      /\ \A w \in Waiting : w.turn \in Nat
      /\ turns \in Seq(Operation) /\ page \in Page
  BY SharedTypes DEF PublishedInv, SharedInv, ProgramInv, ProgramTypes, PageTypes
<1>1. /\ announced = <<>> /\ ~Pending /\ ~Pending'
      /\ page' = [page EXCEPT !.intent = page.intent + 1, !.busy = busy]
      /\ turns' = Append(turns, op)
      /\ UNCHANGED <<room, announced, registry, bound, publication, doing>>
  BY DEF Asks, NoSync, Pending, hostVars, nativeVars
<1>2. /\ op.turn = page.intent + 1 /\ op.lease = request.lease /\ op.room = request.room
      /\ op.op = request.op
  BY DEF Operation
<1>3. /\ page'.intent = page.intent + 1 /\ page'.busy = busy
      /\ page'.room = page.room /\ page'.lease = page.lease
  BY <1>0, <1>1 DEF Page
<1> HIDE DEF op
<1>4. /\ doing.turn < page'.intent /\ doing.turn < op.turn /\ doing.turn <= page'.intent
      /\ \A w \in Waiting : w.turn < page'.intent /\ w.turn < op.turn /\ w.turn <= page'.intent
      /\ op.turn <= page'.intent
  BY <1>0, <1>2, <1>3 DEF TurnInv
<1>5. Waiting' = Waiting \cup {op} /\ InOrder(turns')
  <2>1. \A i \in DOMAIN turns : turns[i].turn < op.turn
    BY <1>4 DEF Waiting, Those
  <2>2. turns \in Seq(Operation) /\ InOrder(turns)
    BY <1>0 DEF TurnInv
  <2>3. /\ InOrder(Append(turns, op))
        /\ Those(Append(turns, op)) = Those(turns) \cup {op}
    BY <2>1, <2>2, TurnAdded
  <2> QED BY <1>1, <2>3 DEF Waiting
<1>6. /\ Now' = Now /\ HostPresents' = HostPresents /\ Running' = Running /\ AtHome(Now)' = AtHome(Now)
      /\ \A i \in DOMAIN announced : announced[i]
  <2>1. DOMAIN announced = {}
    BY <1>1
  <2> QED BY <1>1, <1>3, <2>1 DEF Now, HostPresents, Running, AtHome
<1>7. ~Mismatch /\ (page.room = Now => AtHome(Now))
  BY <1>0, <1>1, <1>6 DEF ShownInv, HomeInv, Latest, AtHome
<1>8. TurnInv' /\ PastInv'
  BY <1>0, <1>1, <1>2, <1>3, <1>4, <1>5 DEF TurnInv, PastInv
<1>9. LeaseInv'
  BY <1>0, <1>1, <1>2, <1>3, <1>5, <1>6 DEF LeaseInv, Known
<1>10. HomeInv'
  BY <1>0, <1>1, <1>2, <1>3, <1>5, <1>6, <1>7 DEF HomeInv, Latest
<1>11. StopInv'
  <2>1. \A w \in Waiting : w.op = "unpublish" => w.lease # publication /\ w.turn # page'.intent
    BY <1>0, <1>4 DEF StopInv, Latest
  <2>2. doing.turn # page'.intent
    BY <1>0, <1>4
  <2> QED BY <1>0, <1>1, <1>2, <1>3, <1>5, <1>6, <2>1, <2>2 DEF StopInv, Latest
<1>12. AnswerInv' /\ ShownInv'
  BY <1>0, <1>1, <1>3, <1>6, <1>7 DEF AnswerInv, Holds, Pending, ShownInv, Mismatch
<1> QED BY <1>8, <1>9, <1>10, <1>11, <1>12 DEF SharedInv

LEMMA SharedAsk ==
  ASSUME Impatient = FALSE, PublishedInv, AskPreview \/ AskPublish \/ AskCancel \/ AskStopSharing
  PROVE  SharedInv'
<1>0. /\ NotDoing \in Operation /\ NotDoing.op = "none" /\ NotDoing.lease = NoLease
      /\ NotDoing.room.gen = 0
  BY DEF NotDoing, Operation, Awaited, Starting, NoLease, Lease, Off, Seen
<1>1. /\ page.room.gen <= room.gen /\ 0 <= room.gen /\ page.room \in Seen /\ page.lease \in Lease
      /\ page.candidate.id \in Nat
  BY SharedTypes DEF PublishedInv, SharedInv, PastInv, ProgramInv, ProgramTypes, PageTypes, Page, Candidate
<1>2. CASE AskPreview
  <2>1. PICK s \in Source : Asks([NotDoing EXCEPT !.op = "preview", !.source = s], "starting")
    BY <1>2 DEF AskPreview
  <2> DEFINE request == [NotDoing EXCEPT !.op = "preview", !.source = s]
  <2>2. /\ request \in Operation /\ request.op = "preview" /\ request.lease = NoLease
        /\ request.room.gen = 0
    BY <1>0 DEF Operation
  <2> HIDE DEF request
  <2>3. Asks(request, "starting") /\ page.busy \notin {"publishing", "stopping"}
    BY <1>2, <2>1 DEF AskPreview, Mutable, request
  <2> QED BY <1>1, <2>2, <2>3, SharedAsks
<1>3. CASE AskPublish
  <2> DEFINE request == [NotDoing EXCEPT !.op = "publish", !.id = page.candidate.id, !.room = page.room]
  <2>1. /\ request \in Operation /\ request.op = "publish" /\ request.lease = NoLease
        /\ request.room = page.room
    BY <1>0, <1>1 DEF Operation
  <2>2. Asks(request, "publishing") /\ page.busy = "none"
    BY <1>3 DEF AskPublish
  <2> HIDE DEF request
  <2> QED BY <1>1, <2>1, <2>2, SharedAsks
<1>4. CASE AskCancel
  <2> DEFINE request == [NotDoing EXCEPT !.op = "cancel"]
  <2>1. /\ request \in Operation /\ request.op = "cancel" /\ request.lease = NoLease
        /\ request.room.gen = 0
    BY <1>0 DEF Operation
  <2>2. Asks(request, "stopping") /\ page.busy \notin {"publishing", "stopping"}
    BY <1>4 DEF AskCancel, Mutable
  <2> HIDE DEF request
  <2> QED BY <1>1, <2>1, <2>2, SharedAsks
<1>5. CASE AskStopSharing
  <2> DEFINE request == [NotDoing EXCEPT !.op = "unpublish", !.lease = page.lease]
  <2>1. /\ request \in Operation /\ request.op = "unpublish" /\ request.lease = page.lease
        /\ request.room.gen = 0
    BY <1>0, <1>1 DEF Operation
  <2>2. /\ Asks(request, "stopping") /\ page.busy \notin {"publishing", "stopping"}
        /\ page.lease # NoLease
    BY <1>5 DEF AskStopSharing, Mutable
  <2> HIDE DEF request
  <2> QED BY <1>1, <2>1, <2>2, SharedAsks
<1> QED BY <1>2, <1>3, <1>4, <1>5

\* An operation goes on, or ends: unless it is the last one, what the page shows
\* and is busy with stands; and if it is, no other waits.
LEMMA GoesOn ==
  ASSUME PublishedInv, UNCHANGED <<room, announced, registry, bound, publication, sync>>,
         page'.room = page.room, page'.intent = page.intent,
         Waiting' \subseteq Waiting, InOrder(turns'),
         \/ page'.lease = page.lease /\ page'.busy = page.busy
         \/ Waiting' = {} /\ Known(page'.lease),
         doing'.turn <= page.intent, \A op \in Waiting' : doing'.turn < op.turn,
         doing'.room.gen <= room.gen, Known(doing'.lease),
         doing'.at \notin {"commit", "committed", "withdraw", "withdrawn"},
         ~Mismatch'
  PROVE  SharedInv'
<1>0. /\ TurnInv /\ PastInv /\ LeaseInv /\ HomeInv /\ StopInv /\ AnswerInv /\ ShownInv
  BY DEF PublishedInv, SharedInv
<1>1. /\ Now' = Now /\ HostPresents' = HostPresents /\ Running' = Running /\ Pending' = Pending
      /\ AtHome(Now)' = AtHome(Now)
  BY DEF Now, HostPresents, Running, Pending, AtHome
<1>2. TurnInv' /\ PastInv'
  BY <1>0, <1>1 DEF TurnInv, PastInv
<1>3. LeaseInv'
  BY <1>0, <1>1 DEF LeaseInv, Known
<1>4. HomeInv' /\ StopInv'
  BY <1>0, <1>1 DEF HomeInv, StopInv, Latest
<1>5. AnswerInv' /\ ShownInv'
  BY <1>0, <1>1 DEF AnswerInv, Holds, ShownInv
<1> QED BY <1>2, <1>3, <1>4, <1>5 DEF SharedInv

\* What the page makes of an operation that goes on from the await it was at.
LEMMA ResumeGoesOn ==
  ASSUME PublishedInv, NEW at, Resumes(at), page'.room = page.room, page'.intent = page.intent,
         \/ page'.lease = page.lease /\ page'.busy = page.busy
         \/ Valid(doing.turn) /\ Known(page'.lease),
         doing'.turn = doing.turn \/ doing'.turn = 0, doing'.lease = doing.lease \/ doing'.lease = NoLease,
         doing'.room = doing.room \/ doing'.room = Off \/ doing'.room = page.room,
         doing'.at \notin {"commit", "committed", "withdraw", "withdrawn"},
         ~Mismatch'
  PROVE  SharedInv'
<1>0. /\ TurnInv /\ PastInv /\ LeaseInv
      /\ page.intent \in Nat /\ doing.turn \in Nat /\ room.gen \in Nat
      /\ \A op \in Waiting : op.turn \in Nat
  BY SharedTypes DEF PublishedInv, SharedInv
<1>1. /\ UNCHANGED <<room, announced, registry, bound, publication, sync>>
      /\ Waiting' = Waiting /\ InOrder(turns')
  BY <1>0 DEF Resumes, PageStep, hostVars, nativeVars, Waiting, TurnInv
<1>2. Valid(doing.turn) => Waiting = {}
  BY <1>0 DEF TurnInv, Valid
<1>3. doing'.turn <= page.intent /\ \A op \in Waiting : doing'.turn < op.turn
  BY <1>0 DEF TurnInv
<1>4. doing'.room.gen <= room.gen /\ Known(doing'.lease)
  BY <1>0 DEF PastInv, Off, LeaseInv, Known
<1> QED BY <1>1, <1>2, <1>3, <1>4, GoesOn

\* How an operation ends, or comes to its next await.
LEMMA EndsShared ==
  ASSUME NEW turn, NEW pg \in Page, Ends(turn, pg)
  PROVE  /\ page'.room = pg.room /\ page'.intent = pg.intent /\ page'.lease = pg.lease
         /\ Valid(turn) \/ page'.busy = pg.busy
         /\ doing'.turn = 0 /\ doing'.lease = NoLease /\ doing'.room = Off /\ doing'.at = "idle"
<1>1. /\ page'.room = pg.room /\ page'.intent = pg.intent /\ page'.lease = pg.lease
      /\ Valid(turn) \/ page'.busy = pg.busy
  BY DEF Ends, Page
<1>2. doing'.turn = 0 /\ doing'.lease = NoLease /\ doing'.room = Off /\ doing'.at = "idle"
  BY DEF Ends, NotDoing
<1> QED BY <1>1, <1>2

LEMMA StopsShared ==
  ASSUME NEW pg \in Page, NEW op \in Operation, NEW p \in Nat,
         NEW then \in {"idle", "replaced", "cancelled", "failed"}, Stops(op, pg, p, then)
  PROVE  /\ page' = pg
         /\ doing'.turn = op.turn /\ doing'.lease = op.lease /\ doing'.room = op.room
         /\ doing'.at = "stop"
BY DEF Stops, Awaits, Operation

LEMMA OpensShared ==
  ASSUME NEW pg \in Page, NEW op \in Operation, OpensSource(op, pg)
  PROVE  /\ page'.room = pg.room /\ page'.intent = pg.intent /\ page'.lease = pg.lease
         /\ Valid(op.turn) \/ page'.busy = pg.busy
         /\ doing'.turn = op.turn \/ doing'.turn = 0
         /\ doing'.lease = op.lease \/ doing'.lease = NoLease
         /\ doing'.room = pg.room \/ doing'.room = Off
         /\ doing'.at \in {"idle", "start"}
<1>1. CASE pg.published.id # Nothing /\ registry.source[pg.published.id] = op.source
  <2> DEFINE new == [pg EXCEPT !.candidate = NoCandidate]
  <2>1. /\ new \in Page /\ new.room = pg.room /\ new.intent = pg.intent /\ new.lease = pg.lease
        /\ new.busy = pg.busy
    BY DEF Page, NoCandidate, Candidate
  <2>2. Ends(op.turn, new)
    BY <1>1 DEF OpensSource
  <2> HIDE DEF new
  <2> QED BY <2>1, <2>2, EndsShared
<1>2. CASE ~(pg.published.id # Nothing /\ registry.source[pg.published.id] = op.source)
  <2>1. page' = pg /\ doing' = [op EXCEPT !.at = "start", !.room = pg.room]
    BY <1>2 DEF OpensSource, Awaits
  <2> QED BY <2>1 DEF Operation
<1> QED BY <1>1, <1>2

LEMMA SharedBegin ==
  ASSUME PublishedInv, Begin
  PROVE  SharedInv'
<1> DEFINE op == Head(turns)
           old == page.candidate
<1>0. /\ TurnInv /\ PastInv /\ LeaseInv /\ HomeInv /\ StopInv /\ AnswerInv /\ ShownInv
      /\ page.intent \in Nat /\ doing.turn \in Nat /\ room.gen \in Nat
      /\ \A w \in Waiting : w.turn \in Nat
      /\ turns \in Seq(Operation) /\ page \in Page
  BY SharedTypes DEF PublishedInv, SharedInv, ProgramInv, ProgramTypes, PageTypes
<1>1. /\ doing = NotDoing /\ turns # <<>> /\ turns' = Tail(turns)
      /\ UNCHANGED <<room, announced, registry, bound, publication, sync>>
  BY DEF Begin, PageStep, hostVars, nativeVars
<1>2. /\ doing.at = "idle" /\ doing.turn = 0 /\ doing.lease = NoLease /\ doing.room = Off /\ Off.gen = 0
  BY <1>1 DEF NotDoing, Off
<1>3. /\ op \in Waiting /\ op \in Operation /\ old.id \in Nat
      /\ Waiting' \subseteq Waiting /\ InOrder(turns') /\ \A w \in Waiting' : op.turn < w.turn
  <2>1. /\ InOrder(Tail(turns)) /\ op \in Waiting /\ Those(Tail(turns)) \subseteq Waiting
        /\ \A w \in Those(Tail(turns)) : op.turn < w.turn
    BY <1>0, <1>1, TurnTaken DEF Waiting, TurnInv
  <2>2. op \in Operation /\ old.id \in Nat
    BY <1>0, <1>1, HeadAndTail DEF Page, Candidate
  <2> QED BY <1>1, <2>1, <2>2 DEF Waiting
<1>4. /\ op.turn \in Nat /\ op.turn <= page.intent /\ Known(op.lease) /\ op.room.gen <= room.gen
      /\ page.room.gen <= room.gen /\ Known(NoLease) /\ Known(page.lease) /\ ~Mismatch
  BY <1>0, <1>2, <1>3 DEF TurnInv, LeaseInv, PastInv, ShownInv, Known
<1>5. /\ Valid(op.turn) => Waiting' = {}
      /\ \A w \in Waiting' : 0 < w.turn
  <2>1. \A w \in Waiting' : w.turn \in Nat /\ op.turn < w.turn /\ w.turn <= page.intent
    BY <1>0, <1>3 DEF TurnInv
  <2> QED BY <1>4, <2>1 DEF Valid
<1>6. \/ page' = page /\ doing' = doing
      \/ Ends(op.turn, page)
      \/ Stops(op, page, old.id, "replaced")
      \/ OpensSource(op, page)
      \/ op.op = "publish" /\ Awaits(page, [op EXCEPT !.at = "commit"])
      \/ Ends(op.turn, [page EXCEPT !.candidate = NoCandidate])
      \/ Stops(op, page, old.id, "cancelled")
      \/ op.op = "unpublish" /\ Awaits(page, [op EXCEPT !.at = "withdraw"])
  BY DEF Begin
<1> HIDE DEF op, old
<1>7. ASSUME /\ page'.room = page.room /\ page'.intent = page.intent /\ page'.lease = page.lease
             /\ page'.busy = page.busy \/ Valid(op.turn)
             /\ doing'.turn = 0 \/ doing'.turn = op.turn
             /\ doing'.lease = NoLease \/ doing'.lease = op.lease
             /\ doing'.room \in {Off, page.room, op.room}
             /\ doing'.at \notin {"commit", "committed", "withdraw", "withdrawn"}
      PROVE  SharedInv'
  <2>1. doing'.room.gen <= room.gen /\ Known(doing'.lease)
    BY <1>0, <1>2, <1>4, <1>7
  <2>2. doing'.turn <= page.intent /\ \A w \in Waiting' : doing'.turn < w.turn
    BY <1>0, <1>3, <1>4, <1>5, <1>7
  <2>3. ~Mismatch'
    BY <1>1, <1>4, <1>7 DEF Mismatch, Running
  <2>4. \/ page'.lease = page.lease /\ page'.busy = page.busy
        \/ Waiting' = {} /\ Known(page'.lease)
    BY <1>4, <1>5, <1>7
  <2> QED BY <1>1, <1>3, <1>7, <2>1, <2>2, <2>3, <2>4, GoesOn
<1>8. CASE page' = page /\ doing' = doing
  BY <1>2, <1>7, <1>8
<1>9. CASE Ends(op.turn, page)
  BY <1>0, <1>7, <1>9, EndsShared
<1>10. CASE Ends(op.turn, [page EXCEPT !.candidate = NoCandidate])
  <2> DEFINE pg == [page EXCEPT !.candidate = NoCandidate]
  <2>1. /\ pg \in Page /\ pg.room = page.room /\ pg.intent = page.intent /\ pg.lease = page.lease
        /\ pg.busy = page.busy
    BY <1>0 DEF Page, NoCandidate, Candidate
  <2>2. Ends(op.turn, pg)
    BY <1>10
  <2> HIDE DEF pg
  <2> QED BY <1>7, <2>1, <2>2, EndsShared
<1>11. CASE Stops(op, page, old.id, "replaced") \/ Stops(op, page, old.id, "cancelled")
  BY <1>0, <1>3, <1>7, <1>11, StopsShared
<1>12. CASE OpensSource(op, page)
  BY <1>0, <1>3, <1>7, <1>12, OpensShared
<1>13. ASSUME NEW at \in {"commit", "withdraw"}, Awaits(page, [op EXCEPT !.at = at]),
              at = "commit" => op.op = "publish", at = "withdraw" => op.op = "unpublish"
       PROVE  SharedInv'
  <2>1. /\ page' = page /\ doing'.at = at /\ doing'.turn = op.turn /\ doing'.lease = op.lease
        /\ doing'.room = op.room
    BY <1>3, <1>13 DEF Awaits, Operation
  <2>2. /\ Now' = Now /\ HostPresents' = HostPresents /\ Running' = Running /\ Pending' = Pending
        /\ AtHome(Now)' = AtHome(Now)
    BY <1>1, <2>1 DEF Now, HostPresents, Running, Pending, AtHome
  <2>3. TurnInv' /\ PastInv'
    BY <1>0, <1>1, <1>3, <1>4, <2>1, <2>2 DEF TurnInv, PastInv
  <2>4. LeaseInv'
    BY <1>0, <1>1, <1>3, <1>4, <1>13, <2>1, <2>2 DEF LeaseInv, Known
  <2>5. HomeInv'
    BY <1>0, <1>1, <1>3, <1>13, <2>1, <2>2 DEF HomeInv, Latest
  <2>6. StopInv'
    BY <1>0, <1>1, <1>3, <1>13, <2>1, <2>2 DEF StopInv, Latest
  <2>7. AnswerInv' /\ ShownInv'
    BY <1>0, <1>1, <1>4, <2>1, <2>2 DEF AnswerInv, Holds, ShownInv, Mismatch
  <2> QED BY <2>3, <2>4, <2>5, <2>6, <2>7 DEF SharedInv
<1> QED BY <1>6, <1>8, <1>9, <1>10, <1>11, <1>12, <1>13

LEMMA SharedResumes ==
  ASSUME PublishedInv, Fails \/ Replaced \/ Cancelled \/ Started \/ Status
  PROVE  SharedInv'
<1>0. /\ page \in Page /\ doing \in Operation /\ NoCandidate \in Candidate
      /\ doing.id \in Nat /\ doing.room \in Seen
      /\ "failed" \in {"idle", "replaced", "cancelled", "failed"}
      /\ ShownInv /\ Known(page.lease)
  BY DEF PublishedInv, SharedInv, LeaseInv, ProgramInv, ProgramTypes, PageTypes, Operation, NoCandidate, Candidate
<1>1. PICK at : Resumes(at) /\ at \notin {"committed", "withdrawn"}
  BY DEF Fails, Replaced, Cancelled, Started, Status
<1>2. /\ UNCHANGED <<publication, registry>> /\ ~Mismatch
  BY <1>0, <1>1 DEF Resumes, PageStep, nativeVars, ShownInv
<1>3. ASSUME /\ page'.room = page.room /\ page'.intent = page.intent /\ page'.lease = page.lease
             /\ page'.busy = page.busy \/ Valid(doing.turn)
             /\ doing'.turn = doing.turn \/ doing'.turn = 0
             /\ doing'.lease = doing.lease \/ doing'.lease = NoLease
             /\ doing'.room \in {doing.room, Off, page.room}
             /\ doing'.at \in {"idle", "stop", "start", "status"}
      PROVE  SharedInv'
  <2>1. ~Mismatch'
    BY <1>2, <1>3 DEF Mismatch, Running
  <2> QED BY <1>0, <1>1, <1>3, <2>1, ResumeGoesOn
<1>4. ASSUME NEW pg \in Page, pg.room = page.room, pg.intent = page.intent, pg.lease = page.lease,
             pg.busy = page.busy, Ends(doing.turn, pg) \/ OpensSource(doing, pg)
      PROVE  SharedInv'
  <2>1. CASE Ends(doing.turn, pg)
    BY <1>3, <1>4, <2>1, EndsShared
  <2>2. CASE OpensSource(doing, pg)
    BY <1>0, <1>3, <1>4, <2>2, OpensShared
  <2> QED BY <1>4, <2>1, <2>2
<1>5. \A candidate \in Candidate :
        LET pg == [page EXCEPT !.candidate = candidate] IN
        /\ pg \in Page /\ pg.room = page.room /\ pg.intent = page.intent /\ pg.lease = page.lease
        /\ pg.busy = page.busy
  BY <1>0 DEF Page
<1>6. CASE Fails
  BY <1>0, <1>4, <1>6 DEF Fails
<1>7. CASE Replaced
  <2> DEFINE pg == [page EXCEPT !.candidate.retired = TRUE]
  <2>1. /\ pg \in Page /\ pg.room = page.room /\ pg.intent = page.intent /\ pg.lease = page.lease
        /\ pg.busy = page.busy
    BY <1>0 DEF Page, Candidate
  <2>2. Ends(doing.turn, page) \/ OpensSource(doing, pg)
    BY <1>7 DEF Replaced
  <2> HIDE DEF pg
  <2> QED BY <1>0, <1>4, <2>1, <2>2
<1>8. CASE Cancelled
  <2>1. Ends(doing.turn, page) \/ Ends(doing.turn, [page EXCEPT !.candidate = NoCandidate])
    BY <1>8 DEF Cancelled
  <2> QED BY <1>0, <1>4, <1>5, <2>1
<1>9. CASE Started
  <2> DEFINE candidate == [id |-> doing.id, room |-> doing.room.gen, retired |-> FALSE]
             pg == [page EXCEPT !.candidate = candidate]
  <2>1. candidate \in Candidate
    BY <1>0 DEF Candidate, Seen
  <2>2. Stops(doing, page, doing.id, "failed") \/ Awaits(pg, [doing EXCEPT !.at = "status"])
    BY <1>9 DEF Started
  <2> HIDE DEF candidate
  <2>3. CASE Stops(doing, page, doing.id, "failed")
    BY <1>0, <1>3, <2>3, StopsShared
  <2>4. CASE Awaits(pg, [doing EXCEPT !.at = "status"])
    <3>1. page' = pg /\ doing' = [doing EXCEPT !.at = "status"]
      BY <2>4 DEF Awaits
    <3>2. /\ doing'.turn = doing.turn /\ doing'.lease = doing.lease /\ doing'.room = doing.room
          /\ doing'.at = "status"
      BY <1>0, <3>1 DEF Operation
    <3>3. /\ page'.room = page.room /\ page'.intent = page.intent /\ page'.lease = page.lease
          /\ page'.busy = page.busy
      BY <1>5, <2>1, <3>1
    <3> QED BY <1>3, <3>2, <3>3
  <2> QED BY <2>2, <2>3, <2>4
<1>10. CASE Status
  <2> DEFINE pg == IF doing.id \in registry.entries /\ page.candidate.id = doing.id
                     THEN [page EXCEPT !.candidate.room = bound[doing.id]] ELSE page
  <2>1. /\ pg \in Page /\ pg.room = page.room /\ pg.intent = page.intent /\ pg.lease = page.lease
        /\ pg.busy = page.busy
    <3>1. doing.id \in registry.entries => bound[doing.id] \in Nat
      BY DEF PublishedInv, ProgramInv, ProgramTypes, NativeTypes
    <3> QED BY <1>0, <3>1 DEF Page, Candidate
  <2>2. Ends(doing.turn, pg)
    BY <1>10 DEF Status
  <2> HIDE DEF pg
  <2> QED BY <1>4, <2>1, <2>2
<1> QED BY <1>6, <1>7, <1>8, <1>9, <1>10

LEMMA SharedCommitted ==
  ASSUME PublishedInv, Committed
  PROVE  SharedInv'
<1>0. /\ TurnInv /\ PastInv /\ LeaseInv /\ HomeInv /\ StopInv /\ AnswerInv /\ ShownInv
      /\ page \in Page /\ doing \in Operation /\ NoCandidate \in Candidate /\ NoLease.id \notin Running
      /\ doing.id \in Nat /\ doing.room \in Seen /\ doing.lease \in Lease /\ page.published \in Candidate
  BY SharedTypes DEF PublishedInv, SharedInv, ProgramInv, ProgramTypes, PageTypes, Operation, Page, NoCandidate,
    Candidate
<1>1. Resumes("committed") /\ doing.at = "committed"
      /\ UNCHANGED <<room, announced, registry, bound, publication, turns, sync>>
  BY DEF Committed, Resumes, PageStep, hostVars, nativeVars
<1>2. CASE ~Valid(doing.turn)
  <2>1. page' = page /\ doing' = [doing EXCEPT !.at = "withdraw"]
    BY <1>2 DEF Committed, Awaits
  <2>2. /\ doing'.at = "withdraw" /\ doing'.turn = doing.turn /\ doing'.lease = doing.lease
        /\ doing'.room = doing.room /\ doing.turn # page.intent
    BY <1>0, <1>2, <2>1 DEF Operation, Valid
  <2>3. /\ Waiting' = Waiting /\ Now' = Now /\ HostPresents' = HostPresents /\ Running' = Running
        /\ Pending' = Pending /\ AtHome(Now)' = AtHome(Now)
    BY <1>1, <2>1 DEF Waiting, Now, HostPresents, Running, Pending, AtHome
  <2>4. publication # doing.lease /\ ~Mismatch
    BY <1>0, <1>1, <2>2 DEF AnswerInv, LeaseInv, HomeInv, ShownInv, Latest
  <2>5. TurnInv' /\ PastInv' /\ LeaseInv'
    BY <1>0, <1>1, <2>1, <2>2, <2>3 DEF TurnInv, PastInv, LeaseInv, Known
  <2>6. HomeInv' /\ StopInv'
    BY <1>0, <1>1, <2>1, <2>2, <2>3, <2>4 DEF HomeInv, StopInv, Latest
  <2>7. AnswerInv' /\ ShownInv'
    BY <1>0, <1>1, <2>1, <2>2, <2>3, <2>4 DEF AnswerInv, Holds, ShownInv, Mismatch
  <2> QED BY <2>5, <2>6, <2>7 DEF SharedInv
<1>3. CASE Valid(doing.turn)
  <2> DEFINE program == [id |-> doing.id, room |-> doing.room.gen, retired |-> FALSE]
             pg == [page EXCEPT !.candidate = NoCandidate, !.lease = doing.lease, !.published = program]
  <2>1. program \in Candidate
    BY <1>0 DEF Candidate, Seen
  <2>2. Ends(doing.turn, pg) \/ Stops(doing, pg, page.published.id, "failed")
    BY <1>3 DEF Committed
  <2> HIDE DEF program
  <2>3. pg \in Page /\ pg.room = page.room /\ pg.intent = page.intent /\ pg.lease = doing.lease
    BY <1>0, <2>1 DEF Page
  <2> HIDE DEF pg
  <2>4. /\ page'.room = page.room /\ page'.intent = page.intent /\ page'.lease = doing.lease
        /\ doing'.turn = doing.turn \/ doing'.turn = 0
        /\ doing'.lease = doing.lease \/ doing'.lease = NoLease
        /\ doing'.room = doing.room \/ doing'.room = Off
        /\ doing'.at \in {"idle", "stop"}
    <3>1. page.published.id \in Nat /\ "failed" \in {"idle", "replaced", "cancelled", "failed"}
      BY <1>0 DEF Candidate
    <3> QED BY <1>0, <2>2, <2>3, <3>1, EndsShared, StopsShared
  <2>5. ~Mismatch' /\ Known(page'.lease)
    BY <1>0, <1>1, <2>4 DEF Mismatch, Running, AnswerInv, Holds, LeaseInv
  <2> QED BY <1>1, <1>3, <2>4, <2>5, ResumeGoesOn
<1> QED BY <1>2, <1>3

LEMMA SharedWithdrawn ==
  ASSUME PublishedInv, Withdrawn
  PROVE  SharedInv'
<1>0. /\ StopInv /\ ShownInv /\ NoLease.id \notin Running
      /\ page \in Page /\ doing \in Operation /\ NoCandidate \in Candidate /\ NoLease \in Lease
      /\ page.candidate \in Candidate /\ page.published \in Candidate
  BY SharedTypes DEF PublishedInv, SharedInv, ProgramInv, ProgramTypes, PageTypes, Page, NoCandidate, Candidate,
    NoLease, Lease
<1>1. Resumes("withdrawn") /\ doing.at = "withdrawn" /\ UNCHANGED <<registry, publication>>
  BY DEF Withdrawn, Resumes, PageStep, nativeVars
<1>2. CASE ~Valid(doing.turn)
  <2>1. Ends(doing.turn, page)
    BY <1>2 DEF Withdrawn
  <2>2. /\ page'.room = page.room /\ page'.intent = page.intent /\ page'.lease = page.lease
        /\ page'.busy = page.busy /\ doing'.turn = 0 /\ doing'.lease = NoLease /\ doing'.room = Off
        /\ doing'.at = "idle"
    BY <1>0, <1>2, <2>1, EndsShared
  <2>3. ~Mismatch
    BY <1>0, <1>1, <1>2 DEF ShownInv, Latest, Valid
  <2>4. ~Mismatch'
    BY <1>1, <2>2, <2>3 DEF Mismatch, Running
  <2> QED BY <1>1, <2>2, <2>4, ResumeGoesOn
<1>3. CASE Valid(doing.turn)
  <2> DEFINE own == IF page.candidate.id # Nothing THEN page.candidate ELSE page.published
             pg == [page EXCEPT !.candidate = own, !.published = NoCandidate, !.lease = NoLease]
  <2>1. own \in Candidate
    BY <1>0
  <2>2. Ends(doing.turn, pg) \/ Stops(doing, pg, page.published.id, "failed")
    BY <1>3 DEF Withdrawn
  <2> HIDE DEF own
  <2>3. pg \in Page /\ pg.room = page.room /\ pg.intent = page.intent /\ pg.lease = NoLease
    BY <1>0, <2>1 DEF Page
  <2> HIDE DEF pg
  <2>4. /\ page'.room = page.room /\ page'.intent = page.intent /\ page'.lease = NoLease
        /\ doing'.turn = doing.turn \/ doing'.turn = 0
        /\ doing'.lease = doing.lease \/ doing'.lease = NoLease
        /\ doing'.room = doing.room \/ doing'.room = Off
        /\ doing'.at \in {"idle", "stop"}
    <3>1. page.published.id \in Nat /\ "failed" \in {"idle", "replaced", "cancelled", "failed"}
      BY <1>0 DEF Candidate
    <3> QED BY <1>0, <2>2, <2>3, <3>1, EndsShared, StopsShared
  <2>5. ~Mismatch' /\ Known(page'.lease)
    BY <1>0, <1>1, <1>3, <2>4 DEF Mismatch, Running, StopInv, Valid, Known
  <2> QED BY <1>1, <1>3, <2>4, <2>5, ResumeGoesOn
<1> QED BY <1>2, <1>3

LEMMA SharedSteps ==
  ASSUME LateSnapshots = FALSE, Impatient = FALSE, PublishedInv, [NdiNext]_ndiVars
  PROVE  PublishedInv'
<1>1. ProgramInv'
  BY ProgramSteps DEF PublishedInv
<1>2. SharedInv'
  <2>1. CASE UNCHANGED ndiVars
    <3>1. UNCHANGED <<room, announced, registry, bound, publication, page, turns, doing, sync>>
      BY <2>1 DEF ndiVars, hostVars, nativeVars
    <3>2. /\ Running' = Running /\ registry.started \in Nat
          /\ \A p \in registry.entries : p <= registry.started
      BY <3>1, SharedTypes DEF PublishedInv, SharedInv, LeaseInv, Running
    <3>3. registry.started <= registry.started
      BY <3>2
    <3> QED BY <3>1, <3>2, <3>3, ReceiversMove
  <2>2. CASE NdiNext
    <3>1. CASE HostRoom \/ LeaveRoom \/ NamePresenter \/ ShowFile \/ RoomAnnounced
      BY <3>1, SharedHostRoom, SharedRooms, SharedShowFile, SharedAnnounced
    <3>2. CASE (\E p \in Program : ProgramDies(p)) \/ RunStop \/ ReadGeneration \/ ReadRoomGeneration
               \/ StartRefused \/ CommitRefused \/ Insert
      BY <3>2, SharedNative, SharedInsert
    <3>3. CASE SourceStopped \/ Commit \/ Withdraw
      BY <3>3, SharedSourceStopped, SharedCommit, SharedWithdraw
    <3>4. CASE HearState \/ ReadRoom \/ ReadPrograms \/ Restore
      BY <3>4, SharedHears, SharedReadRoom, SharedReadPrograms, SharedRestore
    <3>5. CASE AskPreview \/ AskPublish \/ AskCancel \/ AskStopSharing
      BY <3>5, SharedAsk
    <3>6. CASE Begin \/ Fails \/ Replaced \/ Cancelled \/ Started \/ Status \/ Committed \/ Withdrawn
      BY <3>6, SharedBegin, SharedResumes, SharedCommitted, SharedWithdrawn
    <3> QED BY <2>2, <3>1, <3>2, <3>3, <3>4, <3>5, <3>6 DEF NdiNext
  <2> QED BY <2>1, <2>2
<1> QED BY <1>1, <1>2 DEF PublishedInv

(* Of receivers that run, what the page shows as shared is what the room can fetch,
   once nothing is on its way: however many rooms, receivers and operations there
   have been, and however late a publication is answered.  It takes a user who acts
   on what is on the screen, and snapshots that are not overtaken: with either it
   fails (ndi-program-coordinator.ts, publish, unpublish and restore). *)
THEOREM TheSharedIsShown ==
  ASSUME LateSnapshots = FALSE, Impatient = FALSE
  PROVE  NdiSpec => []PublicationIsShown
<1>1. NdiInit => PublishedInv
  BY ProgramStarts, SharedStarts DEF PublishedInv
<1>2. PublishedInv /\ [NdiNext]_ndiVars => PublishedInv'
  BY SharedSteps
<1>3. PublishedInv => PublicationIsShown
  BY DEF PublishedInv, SharedInv, ShownInv, Mismatch, PublicationIsShown, Settled
<1> QED BY <1>1, <1>2, <1>3, PTL DEF NdiSpec

-----------------------------------------------------------------------------
(* A run of the queue is always about to be answered, and its rows say what is
   true, for any number of clips and jobs, when the Export button and the queue
   are not used across each other. *)

\* The item and the job of a run belong to the place it is at.
ItemInv ==
  /\ run.at = "web" => run.item \in WebClips /\ run.job \in JobIds
  /\ run.at \in {"file", "settled"} => run.item \in Clips
  /\ run.at \in {"off", "next"} => run.item = NoClip
  /\ run.cookies => run.item \in WebClips

\* A refusal not yet heard is of the attempt the runner awaits, or of one given up
\* with the whole run.
RefusedInTime ==
  \A j \in JobIds :
    jobs[j].at = "refused" /\ jobs[j].for # Button =>
      \/ awaited = j \/ run.at = "off"
      \/ run.at = "settled" /\ run.came = "cancelled"

\* A conversion of the queue is the runner's, a job that ended well has written its
\* file, and the queue does not run beside the button's conversion.
WorkInv ==
  /\ converts["queue"] # "idle" => run.at = "file"
  /\ run.at = "web" /\ jobs[run.job].at = "ok" => written
  /\ run.at # "off" => token # "button"

\* QueueIsTrue and RunnerIsAnswered are inductive only together with these.
ClipInv == ClipTypeOK /\ ItemInv /\ RefusedInTime /\ WorkInv /\ QueueIsTrue /\ RunnerIsAnswered

USE ClipQueueAssumption
USE DEF Clips, Resting, Free, Conversions, Outcomes, RowState, exports, Due, Exporting

(* The actions that touch one part of the state. *)

\* What is done to the rows alone leaves none running that was not.
LEMMA RowsStep ==
  ASSUME Crossed = {}, ClipInv, ~Due,
         \/ \E c \in Clips : Mark(c) \/ RemoveRow(c) \/ Retry(c)
         \/ ClearAll \/ ClearDone
  PROVE  ClipInv'
<1>1. /\ rows' \in [Clips -> RowState]
      /\ \A c \in Clips : rows'[c] = "running" => rows[c] = "running"
  BY DEF Mark, RemoveRow, Retry, Becomes, ClearAll, ClearDone, ClipInv, ClipTypeOK
<1>2. UNCHANGED <<run, left, stopped, button, jobId, awaited, token, converts, jobs, written, status>>
  BY DEF Mark, RemoveRow, Retry, ClearAll, ClearDone
<1>3. ClipTypeOK' /\ ItemInv' /\ RefusedInTime' /\ WorkInv'
  BY <1>1, <1>2 DEF ClipInv, ClipTypeOK, ItemInv, RefusedInTime, WorkInv
<1>4. QueueIsTrue' /\ RunnerIsAnswered'
  BY <1>1, <1>2 DEF ClipInv, QueueIsTrue, RowsAreTrue, ConversionsAreStoppable, NothingIsStuck,
     RunnerIsAnswered
<1> QED BY <1>3, <1>4 DEF ClipInv

LEMMA ExportQueueStep ==
  ASSUME Crossed = {}, ClipInv, ~Due, ExportQueue PROVE ClipInv'
<1>1. ClipTypeOK'
  BY DEF ExportQueue, Spare, ClipInv, ClipTypeOK, ItemInv, RunnerIsAnswered
<1>2. ItemInv' /\ RefusedInTime' /\ WorkInv'
  BY DEF ExportQueue, Spare, ClipInv, ClipTypeOK, ItemInv, RefusedInTime, WorkInv, RunnerIsAnswered
<1>3. QueueIsTrue'
  BY DEF ExportQueue, Spare, ClipInv, ClipTypeOK, ItemInv, WorkInv, QueueIsTrue, RowsAreTrue,
     ConversionsAreStoppable, NothingIsStuck, RunnerIsAnswered
<1>4. RunnerIsAnswered'
  BY DEF ExportQueue, Spare, ClipInv, ClipTypeOK, ItemInv, RefusedInTime, WorkInv, RunnerIsAnswered
<1> QED BY <1>1, <1>2, <1>3, <1>4 DEF ClipInv

LEMMA ExportFileStep ==
  ASSUME Crossed = {}, ClipInv, ~Due, ExportFile PROVE ClipInv'
<1>1. ClipTypeOK'
  BY DEF ExportFile, MayExport, ClipInv, ClipTypeOK, ItemInv, RunnerIsAnswered
<1>2. ItemInv' /\ RefusedInTime' /\ WorkInv'
  BY DEF ExportFile, MayExport, ClipInv, ClipTypeOK, ItemInv, RefusedInTime, WorkInv, RunnerIsAnswered
<1>3. QueueIsTrue'
  BY DEF ExportFile, MayExport, ClipInv, ClipTypeOK, ItemInv, WorkInv, QueueIsTrue, RowsAreTrue,
     ConversionsAreStoppable, NothingIsStuck, RunnerIsAnswered
<1>4. RunnerIsAnswered'
  BY DEF ExportFile, MayExport, ClipInv, ClipTypeOK, ItemInv, RefusedInTime, WorkInv, RunnerIsAnswered
<1> QED BY <1>1, <1>2, <1>3, <1>4 DEF ClipInv

LEMMA ExportWebStep ==
  ASSUME Crossed = {}, ClipInv, ~Due, ExportWeb PROVE ClipInv'
<1>1. ClipTypeOK'
  BY DEF ExportWeb, MayExport, Spare, ClipInv, ClipTypeOK, ItemInv, RunnerIsAnswered
<1>2. ItemInv' /\ RefusedInTime' /\ WorkInv'
  BY DEF ExportWeb, MayExport, Spare, ClipInv, ClipTypeOK, ItemInv, RefusedInTime, WorkInv,
     RunnerIsAnswered
<1>3. QueueIsTrue'
  BY DEF ExportWeb, MayExport, Spare, ClipInv, ClipTypeOK, ItemInv, WorkInv, QueueIsTrue,
     RowsAreTrue, ConversionsAreStoppable, NothingIsStuck, RunnerIsAnswered
<1>4. RunnerIsAnswered'
  BY DEF ExportWeb, MayExport, Spare, ClipInv, ClipTypeOK, ItemInv, RefusedInTime, WorkInv,
     RunnerIsAnswered
<1> QED BY <1>1, <1>2, <1>3, <1>4 DEF ClipInv

LEMMA ConvertedStep ==
  ASSUME Crossed = {}, ClipInv, NEW v \in Conversions, ~Due, Converted(v) PROVE ClipInv'
<1>1. ClipTypeOK'
  BY DEF Converted, ClipInv, ClipTypeOK, ItemInv, RunnerIsAnswered
<1>2. ItemInv' /\ RefusedInTime' /\ WorkInv'
  BY DEF Converted, ClipInv, ClipTypeOK, ItemInv, RefusedInTime, WorkInv, RunnerIsAnswered
<1>3. QueueIsTrue'
  BY DEF Converted, ClipInv, ClipTypeOK, ItemInv, WorkInv, QueueIsTrue, RowsAreTrue,
     ConversionsAreStoppable, NothingIsStuck, RunnerIsAnswered
<1>4. RunnerIsAnswered'
  BY DEF Converted, ClipInv, ClipTypeOK, ItemInv, RefusedInTime, WorkInv, RunnerIsAnswered
<1> QED BY <1>1, <1>2, <1>3, <1>4 DEF ClipInv

LEMMA SpawnsStep ==
  ASSUME Crossed = {}, ClipInv, NEW j \in JobIds, ~Due, Spawns(j) PROVE ClipInv'
<1>1. ClipTypeOK'
  BY DEF Spawns, ClipInv, ClipTypeOK, ItemInv, RunnerIsAnswered
<1>2. ItemInv' /\ RefusedInTime' /\ WorkInv'
  BY DEF Spawns, ClipInv, ClipTypeOK, ItemInv, RefusedInTime, WorkInv, RunnerIsAnswered
<1>3. QueueIsTrue'
  BY DEF Spawns, ClipInv, ClipTypeOK, ItemInv, WorkInv, QueueIsTrue, RowsAreTrue,
     ConversionsAreStoppable, NothingIsStuck, RunnerIsAnswered
<1>4. RunnerIsAnswered'
  BY DEF Spawns, ClipInv, ClipTypeOK, ItemInv, RefusedInTime, WorkInv, RunnerIsAnswered
<1> QED BY <1>1, <1>2, <1>3, <1>4 DEF ClipInv

LEMMA StopExportStep ==
  ASSUME Crossed = {}, ClipInv, ~Due, StopExport PROVE ClipInv'
<1>1. ClipTypeOK'
  BY DEF StopExport, KillsChild, Cancels, ClipInv, ClipTypeOK, ItemInv, RunnerIsAnswered
<1>2. ItemInv' /\ RefusedInTime' /\ WorkInv'
  BY DEF StopExport, KillsChild, Cancels, ClipInv, ClipTypeOK, ItemInv, RefusedInTime, WorkInv,
     RunnerIsAnswered
<1>3. QueueIsTrue'
  BY DEF StopExport, KillsChild, Cancels, ClipInv, ClipTypeOK, ItemInv, WorkInv, QueueIsTrue,
     RowsAreTrue, ConversionsAreStoppable, NothingIsStuck, RunnerIsAnswered
<1>4. RunnerIsAnswered'
  BY DEF StopExport, KillsChild, Cancels, ClipInv, ClipTypeOK, ItemInv, RefusedInTime, WorkInv,
     RunnerIsAnswered
<1> QED BY <1>1, <1>2, <1>3, <1>4 DEF ClipInv

LEMMA SourceOpensStep ==
  ASSUME Crossed = {}, ClipInv, ~Due, SourceOpens PROVE ClipInv'
<1>1. ClipTypeOK'
  BY DEF SourceOpens, ClipInv, ClipTypeOK, ItemInv, RunnerIsAnswered
<1>2. ItemInv' /\ RefusedInTime' /\ WorkInv'
  BY DEF SourceOpens, ClipInv, ClipTypeOK, ItemInv, RefusedInTime, WorkInv, RunnerIsAnswered
<1>3. QueueIsTrue'
  BY DEF SourceOpens, ClipInv, ClipTypeOK, ItemInv, WorkInv, QueueIsTrue, RowsAreTrue,
     ConversionsAreStoppable, NothingIsStuck, RunnerIsAnswered
<1>4. RunnerIsAnswered'
  BY DEF SourceOpens, ClipInv, ClipTypeOK, ItemInv, RefusedInTime, WorkInv, RunnerIsAnswered
<1> QED BY <1>1, <1>2, <1>3, <1>4 DEF ClipInv

LEMMA QuitStep ==
  ASSUME Crossed = {}, ClipInv, ~Due, Quit PROVE ClipInv'
<1>1. ClipTypeOK'
  BY DEF Quit, ClipInv, ClipTypeOK, ItemInv, RunnerIsAnswered
<1>2. ItemInv' /\ RefusedInTime' /\ WorkInv'
  BY DEF Quit, ClipInv, ClipTypeOK, ItemInv, RefusedInTime, WorkInv, RunnerIsAnswered
<1>3. QueueIsTrue'
  BY DEF Quit, ClipInv, ClipTypeOK, ItemInv, WorkInv, QueueIsTrue, RowsAreTrue,
     ConversionsAreStoppable, NothingIsStuck, RunnerIsAnswered
<1>4. RunnerIsAnswered'
  BY DEF Quit, ClipInv, ClipTypeOK, ItemInv, RefusedInTime, WorkInv, RunnerIsAnswered
<1> QED BY <1>1, <1>2, <1>3, <1>4 DEF ClipInv

(* The runner, and what it hears. *)

\* A run ends with no row running.
LEMMA RunEndsStep ==
  ASSUME Crossed = {}, ClipInv, RunEnds, UNCHANGED <<stopped, button>>,
         \/ run.at = "next" /\ UNCHANGED rows
         \/ run.at = "settled" /\ run.came = "cancelled" /\ Shows(run.item, "queued")
  PROVE  ClipInv'
<1>1. /\ run' = Resting /\ left' = {} /\ written' = FALSE
      /\ status' # "exporting" /\ status' \in {status, "loaded", "other"}
      /\ UNCHANGED <<token, converts, jobs, jobId, awaited, stopped, button>>
  BY DEF RunEnds
<1>2. /\ rows' \in [Clips -> RowState]
      /\ \A c \in Clips : rows'[c] # "running"
  BY DEF Shows, Becomes, ClipInv, ClipTypeOK, ItemInv, QueueIsTrue, RowsAreTrue
<1>3. ClipTypeOK'
  BY <1>1, <1>2 DEF ClipInv, ClipTypeOK
<1>4. ItemInv' /\ RefusedInTime' /\ WorkInv' /\ RunnerIsAnswered'
  BY <1>1 DEF ClipInv, ItemInv, RefusedInTime, WorkInv, RunnerIsAnswered
<1>5. QueueIsTrue'
  BY <1>1, <1>2 DEF ClipInv, QueueIsTrue, RowsAreTrue, ConversionsAreStoppable, NothingIsStuck
<1> QED BY <1>3, <1>4, <1>5 DEF ClipInv

\* An attempt is a job of its own, and nothing refused is left when it begins.
LEMMA AttemptStep ==
  ASSUME Crossed = {}, ClipInv, NEW c \in WebClips, NEW cookies \in BOOLEAN, RunsClip(c, cookies),
         \/ run.at = "next" /\ Becomes(c, "running") /\ written' = FALSE
         \/ run.at = "settled" /\ run.came # "cancelled" /\ c = run.item /\ UNCHANGED <<rows, written>>,
         left' \subseteq left, UNCHANGED <<stopped, button, status, token, converts>>
  PROVE  ClipInv'
<1>1. PICK j \in JobIds :
        /\ jobs[j].at = "none" /\ jobs' = [jobs EXCEPT ![j] = [for |-> c, at |-> "waits"]]
        /\ jobId' = j /\ awaited' = j
        /\ run' = [at |-> "web", item |-> c, job |-> j, cookies |-> cookies, came |-> "none"]
  BY DEF RunsClip, Spare
<1>2. rows' \in [Clips -> RowState] /\ \A d \in Clips : rows'[d] = "running" => d = c
  BY DEF Becomes, ClipInv, ClipTypeOK, ItemInv, QueueIsTrue, RowsAreTrue
<1>3. run.at \in {"next", "settled"} /\ (run.at = "settled" => run.came # "cancelled")
  OBVIOUS
<1>4. ClipTypeOK'
  <2>1. jobs' \in [JobIds -> [for : Clips \cup {NoClip, Button}, at : {"none", "waits", "child"} \cup Outcomes]]
    BY <1>1 DEF ClipInv, ClipTypeOK
  <2>2. run' \in [at : {"off", "next", "web", "file", "settled"}, item : Clips \cup {NoClip},
              job : JobIds \cup {NoJob}, cookies : BOOLEAN, came : Outcomes \cup {"none"}]
    BY <1>1
  <2>3. written' \in BOOLEAN
    BY DEF ClipInv, ClipTypeOK
  <2> QED BY <1>1, <1>2, <2>1, <2>2, <2>3 DEF ClipInv, ClipTypeOK
<1>5. ItemInv' /\ RefusedInTime' /\ WorkInv'
  BY <1>1, <1>3 DEF ClipInv, ClipTypeOK, ItemInv, RefusedInTime, WorkInv, RunnerIsAnswered
<1>6. QueueIsTrue'
  BY <1>1, <1>2, <1>3 DEF ClipInv, QueueIsTrue, RowsAreTrue, ConversionsAreStoppable, NothingIsStuck
<1>7. RunnerIsAnswered'
  BY <1>1 DEF ClipInv, ClipTypeOK, RunnerIsAnswered
<1> QED BY <1>4, <1>5, <1>6, <1>7 DEF ClipInv

LEMMA NextItemStep == ASSUME Crossed = {}, ClipInv, NextItem PROVE ClipInv'
<1>1. CASE RunEnds /\ UNCHANGED rows
  BY <1>1, RunEndsStep DEF NextItem
<1>2. ASSUME NEW c \in Clips, StartsItem(c), left' = left \ {c} PROVE ClipInv'
  <2>1. CASE c \in WebClips /\ RunsClip(c, TRUE) /\ UNCHANGED <<token, converts>>
    BY <1>2, <2>1, AttemptStep DEF NextItem, StartsItem
  <2>2. CASE c \in FileClips /\ UNCHANGED <<jobs, jobId, awaited>> /\ token' = "queue"
             /\ converts' = [converts EXCEPT !["queue"] = "converts"]
             /\ run' = [Resting EXCEPT !.at = "file", !.item = c]
    <3>1. rows' \in [Clips -> RowState] /\ \A d \in Clips : rows'[d] = "running" => d = c
      BY <1>2 DEF NextItem, StartsItem, Becomes, ClipInv, ClipTypeOK, ItemInv, QueueIsTrue,
         RowsAreTrue
    <3>2. run.at = "next" /\ written' = FALSE /\ UNCHANGED <<stopped, button, status>>
      BY <1>2 DEF NextItem, StartsItem
    <3>3. ClipTypeOK'
      BY <1>2, <2>2, <3>1, <3>2 DEF ClipInv, ClipTypeOK
    <3>4. ItemInv' /\ RefusedInTime' /\ WorkInv' /\ RunnerIsAnswered'
      BY <1>2, <2>2, <3>2 DEF ClipInv, ClipTypeOK, ItemInv, RefusedInTime, WorkInv, RunnerIsAnswered
    <3>5. QueueIsTrue'
      BY <1>2, <2>2, <3>1, <3>2 DEF ClipInv, ClipTypeOK, WorkInv, QueueIsTrue, RowsAreTrue,
         ConversionsAreStoppable, NothingIsStuck
    <3> QED BY <3>3, <3>4, <3>5 DEF ClipInv
  <2>3. \/ c \in WebClips /\ RunsClip(c, TRUE) /\ UNCHANGED <<token, converts>>
        \/ /\ c \in FileClips /\ UNCHANGED <<jobs, jobId, awaited>> /\ token' = "queue"
           /\ converts' = [converts EXCEPT !["queue"] = "converts"]
           /\ run' = [Resting EXCEPT !.at = "file", !.item = c]
    BY <1>2, Zenon DEF StartsItem
  <2> QED BY <2>1, <2>2, <2>3
<1>3. left \subseteq Clips
  BY DEF ClipInv, ClipTypeOK
<1> QED BY <1>1, <1>2, <1>3, Zenon DEF NextItem

LEMMA ProceedsStep == ASSUME Crossed = {}, ClipInv, Proceeds PROVE ClipInv'
<1>1. CASE run.came \in {"failed", "refused"} /\ run.cookies /\ RunsClip(run.item, FALSE)
           /\ UNCHANGED <<rows, left, status, token, converts, written>>
  BY <1>1, AttemptStep DEF Proceeds, ClipInv, ItemInv
<1>2. CASE /\ run.came # "cancelled" /\ run' = [Resting EXCEPT !.at = "next"]
           /\ Shows(run.item, IF run.came = "ok" THEN "done" ELSE "error")
           /\ UNCHANGED <<left, status, token, converts, jobs, jobId, awaited, written>>
  <2>1. /\ rows' \in [Clips -> RowState]
        /\ \A c \in Clips : rows'[c] # "running"
    BY <1>2 DEF Proceeds, Shows, Becomes, ClipInv, ClipTypeOK, ItemInv, QueueIsTrue, RowsAreTrue
  <2>2. run.at = "settled" /\ UNCHANGED <<stopped, button>>
    BY DEF Proceeds
  <2>3. ClipTypeOK'
    BY <1>2, <2>1, <2>2 DEF ClipInv, ClipTypeOK
  <2>4. ItemInv' /\ RefusedInTime' /\ WorkInv' /\ RunnerIsAnswered'
    BY <1>2, <2>2 DEF ClipInv, ItemInv, RefusedInTime, WorkInv, RunnerIsAnswered
  <2>5. QueueIsTrue'
    BY <1>2, <2>1, <2>2 DEF ClipInv, QueueIsTrue, RowsAreTrue, ConversionsAreStoppable, NothingIsStuck
  <2> QED BY <2>3, <2>4, <2>5 DEF ClipInv
<1>3. CASE run.came = "cancelled" /\ RunEnds /\ Shows(run.item, "queued")
  BY <1>3, RunEndsStep DEF Proceeds
<1> QED BY <1>1, <1>2, <1>3 DEF Proceeds

LEMMA ConversionEndsStep ==
  ASSUME Crossed = {}, ClipInv, NEW v \in Conversions, ConversionEnds(v) PROVE ClipInv'
<1>1. PICK came \in {"ok", "failed", "cancelled"} :
        /\ IF v = "queue" THEN run' = [run EXCEPT !.at = "settled", !.came = came] ELSE UNCHANGED run
        /\ written' = (written \/ (v = "queue" /\ came = "ok"))
        /\ IF v = "button" THEN button' = "idle" /\ status' = "loaded" ELSE UNCHANGED <<button, status>>
  BY DEF ConversionEnds, Comes
<1>2. /\ converts[v] # "idle" /\ converts' = [converts EXCEPT ![v] = "idle"]
      /\ token' = IF token = v THEN "none" ELSE token
      /\ UNCHANGED <<rows, left, stopped, jobId, awaited, jobs>>
  BY DEF ConversionEnds, Releases
<1>3. v = "queue" => run.at = "file" /\ (came = "ok" => written')
  BY <1>1, <1>2 DEF ClipInv, WorkInv
<1>4. ClipTypeOK'
  <2>1. run' \in [at : {"off", "next", "web", "file", "settled"}, item : Clips \cup {NoClip},
              job : JobIds \cup {NoJob}, cookies : BOOLEAN, came : Outcomes \cup {"none"}]
    BY <1>1 DEF ClipInv, ClipTypeOK
  <2>2. written' \in BOOLEAN
    BY <1>1
  <2> QED BY <1>1, <1>2, <2>1, <2>2 DEF ClipInv, ClipTypeOK
<1>5. ItemInv' /\ RefusedInTime' /\ RunnerIsAnswered'
  BY <1>1, <1>2, <1>3 DEF ClipInv, ClipTypeOK, ItemInv, RefusedInTime, RunnerIsAnswered
<1>6. WorkInv'
  <2>1. CASE v = "queue"
    BY <1>1, <1>2, <1>3, <2>1 DEF ClipInv, ClipTypeOK, WorkInv
  <2>2. CASE v # "queue"
    BY <1>1, <1>2, <2>2 DEF ClipInv, ClipTypeOK, WorkInv
  <2> QED BY <2>1, <2>2
<1>7. QueueIsTrue'
  <2>1. RowsAreTrue'
    <3>1. CASE v = "queue"
      <4>1. run'.at = "settled" /\ run'.came = came /\ run'.item = run.item
        BY <1>1, <3>1 DEF ClipInv, ClipTypeOK
      <4>2. (came = "ok" => written') /\ run.at = "file" /\ rows' = rows
        BY <1>2, <1>3, <3>1
      <4>3. \A c \in Clips : rows'[c] = "running" => run'.item = c
        BY <4>1, <4>2 DEF ClipInv, QueueIsTrue, RowsAreTrue
      <4> QED BY <4>1, <4>2, <4>3 DEF RowsAreTrue
    <3>2. CASE v # "queue"
      BY <1>1, <1>2, <3>2 DEF ClipInv, ClipTypeOK, QueueIsTrue, RowsAreTrue
    <3> QED BY <3>1, <3>2
  <2>2. ConversionsAreStoppable' /\ NothingIsStuck'
    BY <1>1, <1>2, <1>3 DEF ClipInv, ClipTypeOK, QueueIsTrue, ConversionsAreStoppable, NothingIsStuck
  <2> QED BY <2>1, <2>2 DEF QueueIsTrue
<1> QED BY <1>4, <1>5, <1>6, <1>7 DEF ClipInv

LEMMA ClipJobEndsStep ==
  ASSUME Crossed = {}, ClipInv, NEW j \in JobIds, ~Due, ClipJobEnds(j) PROVE ClipInv'
<1>1. PICK at \in {"ok", "failed", "refused"} :
        /\ jobs' = [jobs EXCEPT ![j] = IF at = "refused" \/ jobId = j THEN [@ EXCEPT !.at = at] ELSE Free]
        /\ at = "refused" => jobs[j].for = Button \/ awaited = j
        /\ written' = (written \/ (at = "ok" /\ jobs[j].for = run.item))
  BY DEF ClipJobEnds, ListensTo
<1>2. /\ jobs[j].at \in {"waits", "child"}
      /\ UNCHANGED <<rows, run, left, stopped, button, jobId, awaited, token, converts, status>>
  BY DEF ClipJobEnds
<1>3. (written => written') /\ written' \in BOOLEAN
  BY <1>1 DEF ClipInv, ClipTypeOK
<1>4. at = "ok" /\ jobs[j].for = run.item => written'
  BY <1>1
<1>5. ClipTypeOK'
  BY <1>1, <1>2, <1>3 DEF ClipInv, ClipTypeOK
<1>6. ItemInv' /\ RefusedInTime' /\ RunnerIsAnswered'
  BY <1>1, <1>2 DEF ClipInv, ClipTypeOK, ItemInv, RefusedInTime, RunnerIsAnswered
<1>7. WorkInv'
  <2>1. CASE run.at = "web" /\ run.job = j
    BY <1>1, <1>2, <1>4, <2>1 DEF ClipInv, ClipTypeOK, WorkInv, RunnerIsAnswered
  <2>2. CASE ~(run.at = "web" /\ run.job = j)
    BY <1>1, <1>2, <1>3, <2>2 DEF ClipInv, ClipTypeOK, ItemInv, WorkInv
  <2> QED BY <2>1, <2>2
<1>8. QueueIsTrue'
  BY <1>2, <1>3 DEF ClipInv, QueueIsTrue, RowsAreTrue, ConversionsAreStoppable, NothingIsStuck
<1> QED BY <1>5, <1>6, <1>7, <1>8 DEF ClipInv

\* The runner hears the end of the job it awaits.
LEMMA AnswerStep ==
  ASSUME Crossed = {}, ClipInv, run.at = "web", NEW came \in Outcomes, came = "ok" => written,
         run' = [run EXCEPT !.at = "settled", !.came = came], awaited' = NoJob,
         \A k \in JobIds : jobs[k].at = "refused" /\ jobs[k].for # Button => k = run.job,
         jobs' = [jobs EXCEPT ![run.job] = Free],
         UNCHANGED <<rows, left, stopped, button, jobId, token, converts, written, status>>
  PROVE  ClipInv'
<1>1. ClipTypeOK'
  <2>1. run' \in [at : {"off", "next", "web", "file", "settled"}, item : Clips \cup {NoClip},
              job : JobIds \cup {NoJob}, cookies : BOOLEAN, came : Outcomes \cup {"none"}]
    BY DEF ClipInv, ClipTypeOK
  <2> QED BY <2>1 DEF ClipInv, ClipTypeOK, ItemInv
<1>2. ItemInv' /\ RefusedInTime' /\ WorkInv' /\ RunnerIsAnswered'
  BY DEF ClipInv, ClipTypeOK, ItemInv, RefusedInTime, WorkInv, RunnerIsAnswered
<1>3. QueueIsTrue'
  BY DEF ClipInv, ClipTypeOK, QueueIsTrue, RowsAreTrue, ConversionsAreStoppable, NothingIsStuck
<1> QED BY <1>1, <1>2, <1>3 DEF ClipInv

LEMMA ClipDoneStep ==
  ASSUME Crossed = {}, ClipInv, NEW j \in JobIds, ~Due, ClipDone(j) PROVE ClipInv'
<1>1. /\ jobs[j].at \in {"ok", "failed", "cancelled"} /\ jobs' = [jobs EXCEPT ![j] = Free]
      /\ UNCHANGED <<rows, left, stopped, jobId, token, converts, written>>
  BY DEF ClipDone
<1>2. CASE jobId # j /\ UNCHANGED <<run, awaited, button, status>>
  <2>1. ClipTypeOK'
    BY <1>1, <1>2 DEF ClipInv, ClipTypeOK
  <2>2. ItemInv' /\ RefusedInTime' /\ WorkInv' /\ RunnerIsAnswered'
    BY <1>1, <1>2 DEF ClipInv, ClipTypeOK, ItemInv, RefusedInTime, WorkInv, RunnerIsAnswered
  <2>3. QueueIsTrue'
    BY <1>1, <1>2 DEF ClipInv, QueueIsTrue, RowsAreTrue, ConversionsAreStoppable, NothingIsStuck
  <2> QED BY <2>1, <2>2, <2>3 DEF ClipInv
<1>3. CASE awaited = NoJob /\ status' = "loaded" /\ button' = "idle" /\ UNCHANGED <<run, awaited>>
  <2>1. run.at # "web"
    BY <1>3 DEF ClipInv, ItemInv, RunnerIsAnswered
  <2>2. ClipTypeOK'
    BY <1>1, <1>3 DEF ClipInv, ClipTypeOK
  <2>3. ItemInv' /\ RefusedInTime' /\ WorkInv' /\ RunnerIsAnswered'
    BY <1>1, <1>3, <2>1 DEF ClipInv, ClipTypeOK, ItemInv, RefusedInTime, WorkInv, RunnerIsAnswered
  <2>4. QueueIsTrue'
    BY <1>1, <1>3 DEF ClipInv, QueueIsTrue, RowsAreTrue, ConversionsAreStoppable, NothingIsStuck
  <2> QED BY <2>2, <2>3, <2>4 DEF ClipInv
<1>4. CASE /\ jobId = j /\ awaited # NoJob /\ Resolves(awaited, jobs[j].at) /\ awaited' = NoJob
           /\ UNCHANGED <<button, status>>
  <2>1. run.at = "web" /\ run.job = j /\ awaited = j
    BY <1>4 DEF ClipInv, RunnerIsAnswered
  <2>2. run' = [run EXCEPT !.at = "settled", !.came = jobs[j].at]
    BY <1>4, <2>1 DEF Resolves, Comes
  <2>3. \A k \in JobIds : jobs[k].at = "refused" /\ jobs[k].for # Button => k = run.job
    BY <2>1 DEF ClipInv, RefusedInTime
  <2>4. jobs[j].at = "ok" => written
    BY <2>1 DEF ClipInv, WorkInv
  <2> QED BY <1>1, <1>4, <2>1, <2>2, <2>3, <2>4, AnswerStep
<1> QED BY <1>1, <1>2, <1>3, <1>4 DEF ClipDone, ListensTo

LEMMA RefusalHeardStep ==
  ASSUME Crossed = {}, ClipInv, NEW j \in JobIds, ~Due, RefusalHeard(j) PROVE ClipInv'
<1>1. /\ jobs[j].at = "refused" /\ jobs' = [jobs EXCEPT ![j] = Free]
      /\ UNCHANGED <<rows, left, stopped, jobId, token, converts, written>>
  BY DEF RefusalHeard
<1>2. CASE jobs[j].for = Button
  <2>1. status' = "loaded" /\ button' \in {"idle", button} /\ UNCHANGED <<run, awaited>>
    BY <1>2 DEF RefusalHeard
  <2>2. run.at = "web" => run.job # j
    BY <1>2 DEF ClipInv, ItemInv, RunnerIsAnswered
  <2>3. ClipTypeOK'
    BY <1>1, <2>1 DEF ClipInv, ClipTypeOK
  <2>4. ItemInv' /\ RefusedInTime' /\ WorkInv' /\ RunnerIsAnswered'
    BY <1>1, <2>1, <2>2 DEF ClipInv, ClipTypeOK, ItemInv, RefusedInTime, WorkInv, RunnerIsAnswered
  <2>5. QueueIsTrue'
    BY <1>1, <2>1 DEF ClipInv, QueueIsTrue, RowsAreTrue, ConversionsAreStoppable, NothingIsStuck
  <2> QED BY <2>3, <2>4, <2>5 DEF ClipInv
<1>3. CASE jobs[j].for # Button /\ awaited = j
  <2>1. run.at = "web" /\ run.job = j /\ awaited' = NoJob /\ UNCHANGED <<button, status>>
    BY <1>3 DEF RefusalHeard, ClipInv, RunnerIsAnswered
  <2>2. run' = [run EXCEPT !.at = "settled", !.came = "refused"]
    BY <1>3, <2>1 DEF RefusalHeard, Resolves, Comes
  <2>3. \A k \in JobIds : jobs[k].at = "refused" /\ jobs[k].for # Button => k = run.job
    BY <2>1 DEF ClipInv, RefusedInTime, RunnerIsAnswered
  <2> QED BY <1>1, <2>1, <2>2, <2>3, AnswerStep
<1>4. CASE jobs[j].for # Button /\ awaited # j
  <2>1. awaited = NoJob /\ run.at # "web"
    BY <1>1, <1>4 DEF ClipInv, RefusedInTime, ItemInv, RunnerIsAnswered
  <2>2. UNCHANGED <<run, awaited, button, status>>
    BY <1>4, <2>1 DEF RefusalHeard
  <2>3. ClipTypeOK'
    BY <1>1, <2>2 DEF ClipInv, ClipTypeOK
  <2>4. ItemInv' /\ RefusedInTime' /\ WorkInv' /\ RunnerIsAnswered'
    BY <1>1, <2>1, <2>2 DEF ClipInv, ClipTypeOK, ItemInv, RefusedInTime, WorkInv, RunnerIsAnswered
  <2>5. QueueIsTrue'
    BY <1>1, <2>2 DEF ClipInv, QueueIsTrue, RowsAreTrue, ConversionsAreStoppable, NothingIsStuck
  <2> QED BY <2>3, <2>4, <2>5 DEF ClipInv
<1> QED BY <1>2, <1>3, <1>4

LEMMA OtherSourceStep == ASSUME Crossed = {}, ClipInv, ~Due, OtherSource PROVE ClipInv'
<1>1. /\ token' = "none" /\ button' = "idle" /\ jobId' = NoJob /\ awaited' = NoJob
      /\ status' \in {"loaded", "other"} /\ UNCHANGED <<rows, left, stopped, written>>
  BY DEF OtherSource, SettlesRunner
<1>2. /\ converts' \in [Conversions -> {"idle", "converts", "cancelled", "writes"}]
      /\ converts'["queue"] # "idle" <=> converts["queue"] # "idle"
      /\ converts'["queue"] # "converts" /\ converts'["button"] = "idle"
  BY DEF OtherSource, Cancels, ClipInv, ClipTypeOK, QueueIsTrue, ConversionsAreStoppable
<1>3. /\ jobs' \in [JobIds -> [for : Clips \cup {NoClip, Button}, at : {"none", "waits", "child"} \cup Outcomes]]
      /\ \A k \in JobIds : jobs'[k].at = "refused" => jobs[k].at = "refused" /\ jobs'[k] = jobs[k]
  BY DEF OtherSource, KillsChild, ClipInv, ClipTypeOK
<1>4. run' = IF run.at = "web" THEN [run EXCEPT !.at = "settled", !.came = "cancelled"] ELSE run
  BY DEF OtherSource, SettlesRunner, Resolves, Comes, ClipInv, ItemInv, RunnerIsAnswered
<1>5. ClipTypeOK'
  <2>1. run' \in [at : {"off", "next", "web", "file", "settled"}, item : Clips \cup {NoClip},
              job : JobIds \cup {NoJob}, cookies : BOOLEAN, came : Outcomes \cup {"none"}]
    BY <1>4 DEF ClipInv, ClipTypeOK
  <2> QED BY <1>1, <1>2, <1>3, <2>1 DEF ClipInv, ClipTypeOK
<1>6. ItemInv' /\ WorkInv' /\ RunnerIsAnswered'
  BY <1>1, <1>2, <1>4 DEF ClipInv, ClipTypeOK, ItemInv, WorkInv, RunnerIsAnswered
<1>7. RefusedInTime'
  BY <1>1, <1>3, <1>4 DEF ClipInv, ClipTypeOK, ItemInv, RefusedInTime, RunnerIsAnswered
<1>8. QueueIsTrue'
  BY <1>1, <1>2, <1>4 DEF ClipInv, ClipTypeOK, QueueIsTrue, RowsAreTrue, ConversionsAreStoppable,
     NothingIsStuck
<1> QED BY <1>5, <1>6, <1>7, <1>8 DEF ClipInv

LEMMA ClipStarts == ClipInit => ClipInv
<1> SUFFICES ASSUME ClipInit PROVE ClipInv
  OBVIOUS
<1>1. ClipTypeOK /\ QueueIsTrue /\ RunnerIsAnswered
  BY DEF ClipInit, ClipTypeOK, QueueIsTrue, RowsAreTrue, ConversionsAreStoppable, NothingIsStuck,
         RunnerIsAnswered
<1>2. ItemInv /\ RefusedInTime /\ WorkInv
  BY DEF ClipInit, ItemInv, RefusedInTime, WorkInv
<1> QED BY <1>1, <1>2 DEF ClipInv

LEMMA ClipSteps == ASSUME Crossed = {}, ClipInv, [ClipNext]_clipVars PROVE ClipInv'
<1>1. CASE UNCHANGED clipVars
  BY <1>1 DEF clipVars, exports, ClipInv, ClipTypeOK, ItemInv, RefusedInTime, WorkInv,
     QueueIsTrue, RowsAreTrue,
              ConversionsAreStoppable, NothingIsStuck, RunnerIsAnswered
<1>2. CASE Runner
  BY <1>2, NextItemStep, ProceedsStep DEF Runner
<1>3. CASE ~Due /\ ((\E c \in Clips : Mark(c) \/ RemoveRow(c) \/ Retry(c)) \/ ClearAll \/ ClearDone)
  BY <1>3, RowsStep
<1>4. CASE ~Due /\ (ExportQueue \/ ExportFile \/ ExportWeb)
  BY <1>4, ExportQueueStep, ExportFileStep, ExportWebStep
<1>5. CASE ~Due /\ \E v \in Conversions : Converted(v) \/ ConversionEnds(v)
  BY <1>5, ConvertedStep, ConversionEndsStep
<1>6. CASE ~Due /\ \E j \in JobIds : Spawns(j) \/ ClipJobEnds(j) \/ ClipDone(j) \/ RefusalHeard(j)
  BY <1>6, SpawnsStep, ClipJobEndsStep, ClipDoneStep, RefusalHeardStep
<1>7. CASE ~Due /\ (StopExport \/ OtherSource \/ SourceOpens \/ Quit)
  BY <1>7, StopExportStep, OtherSourceStep, SourceOpensStep, QuitStep
<1> QED BY <1>1, <1>2, <1>3, <1>4, <1>5, <1>6, <1>7, Zenon DEF ClipNext

\* Whatever the runner awaits is on its way and will be given to it, when the Export
\* button is not used across the queue (use-clip-queue.ts, use-clip-export-listeners.ts).
THEOREM TheRunnerIsAnswered == ASSUME Crossed = {} PROVE ClipSpec => []RunnerIsAnswered
<1>1. ClipSpec => []ClipInv
  BY ClipStarts, ClipSteps, PTL DEF ClipSpec
<1>2. ClipInv => RunnerIsAnswered
  BY DEF ClipInv
<1> QED BY <1>1, <1>2, PTL

\* Under the same condition the row that is running is the runner's, a clip is done
\* when its own file was written, Stop reaches every conversion of the source, and the
\* page is not left exporting with nothing under way.
THEOREM TheQueueIsTrue == ASSUME Crossed = {} PROVE ClipSpec => []QueueIsTrue
<1>1. ClipSpec => []ClipInv
  BY ClipStarts, ClipSteps, PTL DEF ClipSpec
<1>2. ClipInv => QueueIsTrue
  BY DEF ClipInv
<1> QED BY <1>1, <1>2, PTL
=============================================================================
