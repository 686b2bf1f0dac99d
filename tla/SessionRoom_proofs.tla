------------------------- MODULE SessionRoom_proofs -------------------------
(* The room keeps its limits, skips no operation, settles its lists and takes
   no welcome to the wrong connection: for any number of guests, connections,
   places and queue lengths. *)
EXTENDS SessionRoom, FiniteSetTheorems, WellFoundedInduction, TLAPS

(* Where a connection's task is says whether it has a member id and may be in
   the roster, and the queue of one that is not in the roster is empty. *)
StageInv ==
  /\ \A c \in Conns : c > Len(owner) => task[c] = "idle"
  /\ \A c \in Conns : task[c] \in {"idle", "hello", "claim"} => member[c] = Nobody
  /\ \A c \in Conns : task[c] \in {"register", "tell", "reading"} => member[c] # Nobody
InInv == \A c \in peers : task[c] \in {"tell", "reading"}
OutInv == \A c \in Conns \ peers : queue[c] = <<>> /\ owed[c] = {}
RosterInv == StageInv /\ InInv /\ OutInv

(* No more member ids are given out than connections claimed one. *)
Claimed == {c \in Conns : member[c] # Nobody}
MintInv == minted <= Cardinality(Claimed)

(* A pair of member and epoch names one connection. *)
PairInv ==
  /\ \A c \in Conns : member[c] # Nobody => epoch[c] <= epochs[member[c]]
  /\ \A c, d \in Conns :
       member[c] = member[d] /\ member[c] # Nobody /\ epoch[c] = epoch[d] => c = d

(* Nothing is owed that was not relayed yet. *)
OwedInv == \A c \in Conns : owed[c] \subseteq 1..acts

(* Whatever made a list untrue leaves somebody behind who sends another. *)
ListInv == Telling \/ \A c \in peers : told[c] = peers

-----------------------------------------------------------------------------
(* The types, by what they are about *)

TaskTypes ==
  /\ owner \in Seq(Guests) /\ Len(owner) <= MaxConns
  /\ line \in [Conns -> {"idle", "up", "lost", "closed"}] /\ task \in [Conns -> Stages]
  /\ calling \in BOOLEAN /\ acts \in 0..MaxActs /\ failures \in 0..MaxFailures
ClaimTypes ==
  /\ member \in [Conns -> Members \union {Nobody}] /\ epoch \in [Conns -> Nat]
  /\ installs \in [Guests -> Members \union {Nobody}]
  /\ epochs \in [Members -> Nat] /\ minted \in 0..MaxConns
QueueTypes ==
  /\ queue \in [Conns -> Seq(Messages)] /\ \A c \in Conns : Len(queue[c]) <= MaxItems
RoomTypes ==
  /\ peers \subseteq Conns /\ ended \subseteq peers
  /\ owed \in [Conns -> SUBSET (1..MaxActs)] /\ told \in [Conns -> SUBSET Conns]

LEMMA SplitTypes == TypeOK <=> TaskTypes /\ ClaimTypes /\ QueueTypes /\ RoomTypes
BY DEF TypeOK, TaskTypes, ClaimTypes, QueueTypes, RoomTypes

-----------------------------------------------------------------------------
(* Queues *)

(* Only a beat takes the place of another line. *)
LEMMA PushAppends ==
  ASSUME NEW q, NEW m, m.t # "beat" PROVE Push(q, m) = Append(q, m)
BY DEF Push, Replaces, Replaceable

LEMMA PushTyped ==
  ASSUME NEW q \in Seq(Messages), NEW m \in Messages
  PROVE  Push(q, m) \in Seq(Messages)
<1>1. CASE \E i \in DOMAIN q : Replaces(m, q[i])
  <2>1. Push(q, m) = [i \in 1..Len(q) |-> IF Replaces(m, q[i]) THEN m ELSE q[i]]
    BY <1>1 DEF Push
  <2>2. \A i \in 1..Len(q) : (IF Replaces(m, q[i]) THEN m ELSE q[i]) \in Messages
    <3>. SUFFICES ASSUME NEW i \in 1..Len(q)
                  PROVE  (IF Replaces(m, q[i]) THEN m ELSE q[i]) \in Messages
      OBVIOUS
    <3>1. q[i] \in Messages
      OBVIOUS
    <3>. QED BY <3>1, Zenon
  <2>. QED BY <2>1, <2>2
<1>2. CASE ~\E i \in DOMAIN q : Replaces(m, q[i])
  BY <1>2 DEF Push
<1>. QED BY <1>1, <1>2

(* A beat changes no line but beats. *)
LEMMA BeatPushed ==
  ASSUME NEW q \in Seq(Messages)
  PROVE  /\ DOMAIN q \subseteq DOMAIN Push(q, Beat)
         /\ \A i \in DOMAIN q : Push(q, Beat)[i] = q[i] \/ (q[i].t = "beat" /\ Push(q,
               Beat)[i] = Beat)
         /\ \A i \in DOMAIN Push(q, Beat) \ DOMAIN q : Push(q, Beat)[i] = Beat
<1> DEFINE p == Push(q, Beat)
<1>. SUFFICES /\ DOMAIN q \subseteq DOMAIN p
              /\ \A i \in DOMAIN q : p[i] = q[i] \/ (q[i].t = "beat" /\ p[i] = Beat)
              /\ \A i \in DOMAIN p \ DOMAIN q : p[i] = Beat
  OBVIOUS
<1>0. DOMAIN q = 1..Len(q) /\ Len(q) \in Nat
  OBVIOUS
<1>1. CASE \E i \in DOMAIN q : Replaces(Beat, q[i])
  <2>1. p = [i \in DOMAIN q |-> IF q[i].t = "beat" THEN Beat ELSE q[i]]
    BY <1>1, Zenon DEF Push, Replaces, Replaceable, Beat
  <2>. HIDE DEF p
  <2>. QED BY <2>1
<1>2. CASE ~\E i \in DOMAIN q : Replaces(Beat, q[i])
  <2>1. p = Append(q, Beat)
    BY <1>2 DEF Push
  <2>2. DOMAIN p = 1..Len(q) + 1 /\ \A i \in 1..Len(q) : p[i] = q[i]
    BY <2>1
  <2>3. p[Len(q) + 1] = Beat
    BY <2>1
  <2>. HIDE DEF p
  <2>. QED BY <1>0, <2>2, <2>3
<1>. QED BY <1>1, <1>2

(* The queue and what is owed go together, whatever line is added. *)
LEMMA MirrorsOther ==
  ASSUME NEW q \in Seq(Messages), NEW p \in Seq(Messages), NEW o, Mirrors(q, o),
         DOMAIN q \subseteq DOMAIN p,
         \A i \in DOMAIN q : p[i] = q[i] \/ (q[i].t # "op" /\ p[i].t # "op"),
         \A i \in DOMAIN p \ DOMAIN q : p[i].t # "op"
  PROVE  Mirrors(p, o)
<1>1. {i \in DOMAIN p : p[i].t = "op"} = {i \in DOMAIN q : q[i].t = "op"}
  OBVIOUS
<1>2. \A i \in {i \in DOMAIN q : q[i].t = "op"} : p[i] = q[i]
  OBVIOUS
<1>. QED BY <1>1, <1>2 DEF Mirrors

LEMMA MirrorsOp ==
  ASSUME NEW q \in Seq(Messages), NEW k \in Nat, NEW o \in SUBSET (1..k), Mirrors(q, o)
  PROVE  Mirrors(Append(q, Op(k + 1)), o \union {k + 1})
<1> DEFINE p == Append(q, Op(k + 1))
           Q == {i \in DOMAIN q : q[i].t = "op"}
           P == {i \in DOMAIN p : p[i].t = "op"}
<1>1. /\ P = Q \union {Len(q) + 1}
      /\ \A i \in Q : p[i] = q[i] /\ i \in 1..Len(q)
      /\ p[Len(q) + 1].n = k + 1
  BY DEF Op
<1>2. \A i \in Q : q[i].n \in o
  BY DEF Mirrors
<1>3. {p[i].n : i \in P} = o \union {k + 1}
  <2>1. {q[i].n : i \in Q} = o
    BY DEF Mirrors
  <2>. HIDE DEF p, P, Q
  <2>. QED BY <1>1, <2>1
<1>4. \A i, j \in P : i < j => p[i].n < p[j].n
  <2>1. \A i, j \in Q : i < j => q[i].n < q[j].n
    BY DEF Mirrors
  <2>2. Len(q) \in Nat
    OBVIOUS
  <2>. HIDE DEF p, P, Q
  <2>. SUFFICES ASSUME NEW i \in P, NEW j \in P, i < j PROVE p[i].n < p[j].n
    OBVIOUS
  <2>3. CASE j \in Q
    BY <1>1, <2>1, <2>2, <2>3
  <2>4. CASE j = Len(q) + 1
    <3>1. i \in Q
      BY <1>1, <2>2, <2>4
    <3>2. p[i].n \in 1..k /\ p[j].n = k + 1
      BY <1>1, <1>2, <2>4, <3>1
    <3>. QED BY <3>2
  <2>. QED BY <1>1, <2>3, <2>4
<1>. QED BY <1>3, <1>4 DEF Mirrors

(* What is read first is the oldest that is owed. *)
LEMMA MirrorsRead ==
  ASSUME NEW q \in Seq(Messages), q # <<>>, NEW o, Mirrors(q, o)
  PROVE  Mirrors(Tail(q), IF Head(q).t = "op" THEN o \ {Head(q).n} ELSE o)
<1> DEFINE p == Tail(q)
           Q == {i \in DOMAIN q : q[i].t = "op"}
           P == {i \in DOMAIN p : p[i].t = "op"}
<1>1. /\ \A i \in P : i \in Nat /\ i + 1 \in Q /\ p[i] = q[i + 1] /\ i >= 1
      /\ \A i \in Q : i \in Nat /\ (i = 1 \/ (i - 1 \in P /\ q[i] = p[i - 1]))
      /\ Head(q) = q[1] /\ (1 \in Q <=> q[1].t = "op")
      /\ \A i \in Q : q[i].n \in Nat
  BY DEF Messages, PeerList, Beat
<1>2. /\ {q[i].n : i \in Q} = o
      /\ \A i, j \in Q : i < j => q[i].n < q[j].n
  BY DEF Mirrors
<1>3. \A i, j \in P : i < j => p[i].n < p[j].n
  <2>. HIDE DEF p, P, Q
  <2>. SUFFICES ASSUME NEW i \in P, NEW j \in P, i < j PROVE p[i].n < p[j].n
    OBVIOUS
  <2>1. i + 1 \in Q /\ j + 1 \in Q /\ i + 1 < j + 1
    BY <1>1
  <2>2. q[i + 1].n < q[j + 1].n
    BY <1>2, <2>1
  <2>. QED BY <1>1, <2>2
<1>4. {p[i].n : i \in P} = IF Head(q).t = "op" THEN o \ {Head(q).n} ELSE o
  <2>. HIDE DEF p, P, Q
  <2>1. CASE 1 \in Q
    <3>1. \A i \in P : p[i].n \in o /\ p[i].n # q[1].n
      <4>. SUFFICES ASSUME NEW i \in P PROVE p[i].n \in o /\ p[i].n # q[1].n
        OBVIOUS
      <4>1. i + 1 \in Q /\ 1 < i + 1 /\ p[i] = q[i + 1]
        BY <1>1
      <4>2. q[1].n < q[i + 1].n /\ q[1].n \in Nat /\ q[i + 1].n \in Nat
        BY <1>1, <1>2, <2>1, <4>1
      <4>. QED BY <1>2, <4>1, <4>2
    <3>2. \A x \in o : x # q[1].n => \E i \in P : x = p[i].n
      <4>. SUFFICES ASSUME NEW x \in o, x # q[1].n PROVE \E i \in P : x = p[i].n
        OBVIOUS
      <4>1. PICK i \in Q : x = q[i].n
        BY <1>2
      <4>. QED BY <1>1, <4>1
    <3>. QED BY <1>1, <2>1, <3>1, <3>2
  <2>2. CASE 1 \notin Q
    <3>1. \A i \in P : p[i].n \in o
      BY <1>1, <1>2
    <3>2. \A x \in o : \E i \in P : x = p[i].n
      <4>. SUFFICES ASSUME NEW x \in o PROVE \E i \in P : x = p[i].n
        OBVIOUS
      <4>1. PICK i \in Q : x = q[i].n
        BY <1>2
      <4>. QED BY <1>1, <2>2, <4>1
    <3>. QED BY <1>1, <2>2, <3>1, <3>2
  <2>. QED BY <2>1, <2>2
<1>. QED BY <1>3, <1>4 DEF Mirrors

-----------------------------------------------------------------------------
(* The roster lock *)

LEMMA ConnsFinite == IsFiniteSet(Conns) /\ Cardinality(Conns) = MaxConns
BY FS_Interval, RoomAssumption DEF Conns

LEMMA RosterFinite ==
  ASSUME NEW S \in SUBSET Conns PROVE IsFiniteSet(S) /\ Cardinality(S) \in Nat
BY ConnsFinite, FS_Subset, FS_CardinalityType

(* The passes of a peer list end. *)
LEMMA PassesEnd ==
  ASSUME TypeOK PROVE Passes \in Nat \ {0}
<1> DEFINE R == {ss \in Nat \X Nat : ss[1] < ss[2]}
           T == {n \in 1..MaxItems + 2 : \A c \in peers : Places(c) # n - 1}
<1>. USE RoomAssumption
<1>1. MaxItems + 2 \in T
  BY DEF TypeOK, Places
<1>2. T \subseteq Nat /\ T # {}
  <2>1. MaxItems + 2 \in Nat
    OBVIOUS
  <2>2. T \subseteq Nat
    BY <2>1
  <2>. HIDE DEF T
  <2>. QED BY <1>1, <2>2
<1>3. PICK n \in T : \A k \in T : ~(<<k, n>> \in R)
  <2>1. IsWellFoundedOn(R, Nat)
    BY NatLessThanWellFounded, Zenon DEF OpToRel
  <2>. HIDE DEF T, R
  <2>. QED BY <1>2, <2>1, WFMin, Zenon
<1>4. \A k \in T : n <= k
  <2>. HIDE DEF T
  <2>. SUFFICES ASSUME NEW k \in T PROVE n <= k
    OBVIOUS
  <2>1. k \in Nat /\ n \in Nat /\ <<k, n>> \notin R
    BY <1>2, <1>3
  <2>. QED BY <2>1
<1>5. Passes \in T
  <2>. HIDE DEF T
  <2>1. \E x \in T : \A y \in T : x <= y
    BY <1>4
  <2>2. Passes = Min(T)
    BY DEF Passes, T
  <2>. QED BY <2>1, <2>2 DEF Min
<1>. QED BY <1>5

(* Who is given a line and stays had room for it. *)
LEMMA GiveKeeps ==
  ASSUME TypeOK, NEW S \in SUBSET peers, NEW m \in Messages, NEW o, Give(S, m, o)
  PROVE  /\ peers' = peers \ Dropped(S, m) /\ Dropped(S, m) \subseteq S
         /\ ended' = ended \intersect peers'
         /\ line' = [c \in Conns |-> IF c \in Dropped(S, m) THEN "closed" ELSE line[c]]
         /\ queue' = [c \in Conns |-> IF c \in peers' THEN IF c \in S THEN Push(queue[c], m)
               ELSE queue[c] ELSE <<>>]
         /\ owed' = [c \in Conns |-> IF c \in peers' THEN o[c] ELSE {}]
         /\ told' = [c \in Conns |-> IF c \in peers' THEN told[c] ELSE {}]
         /\ \A c \in S \intersect peers' : c \notin ended /\ Len(Push(queue[c], m)) <= MaxItems
<1>1. \A c \in Conns : Len(Push(queue[c], m)) \in Nat
  BY PushTyped DEF TypeOK
<1>2. \A c \in S \ Dropped(S, m) : c \notin ended /\ Len(Push(queue[c], m)) <= MaxItems
  BY <1>1, RoomAssumption DEF Dropped, Refuses, TypeOK
<1>3. Dropped(S, m) \subseteq S
  BY DEF Dropped
<1>. QED BY <1>2, <1>3 DEF Give, Becomes, TypeOK

(* Who is still there after the last pass had a place for every list. *)
Lists == [i \in 1..Passes |-> PeerList]
LEMMA TellKeeps ==
  ASSUME TypeOK, TellAll
  PROVE  /\ peers' = Staying /\ Staying \subseteq peers
         /\ ended' = {} /\ Staying \intersect ended = {}
         /\ line' = [c \in Conns |-> IF c \in peers \ Staying THEN "closed" ELSE line[c]]
         /\ queue' = [c \in Conns |-> IF c \in peers' THEN queue[c] \o Lists ELSE <<>>]
         /\ owed' = [c \in Conns |-> IF c \in peers' THEN owed[c] ELSE {}]
         /\ told' = [c \in Conns |-> IF c \in peers' THEN peers' ELSE {}]
         /\ Lists \in Seq({PeerList}) /\ Len(Lists) = Passes
         /\ \A c \in Staying : Len(queue[c]) + Passes <= MaxItems
<1>1. Passes \in Nat \ {0}
  BY PassesEnd
<1>2. \A c \in Staying : c \in peers /\ c \notin ended /\ Len(queue[c]) + Passes <= MaxItems
  <2>1. SUFFICES ASSUME NEW c \in Staying
                 PROVE  c \in peers /\ c \notin ended /\ Len(queue[c]) + Passes <= MaxItems
    OBVIOUS
  <2>2. c \in peers /\ Places(c) >= Passes
    BY DEF Staying
  <2>3. c \notin ended
    BY <1>1, <2>2 DEF Places
  <2>4. Len(queue[c]) \in Nat
    BY <2>2 DEF TypeOK
  <2>. QED BY <1>1, <2>2, <2>3, <2>4, RoomAssumption DEF Places
<1>3. Lists \in Seq({PeerList}) /\ Len(Lists) = Passes
  BY <1>1 DEF Lists
<1>. QED BY <1>2, <1>3 DEF TellAll, Becomes, TypeOK, Lists

LEMMA MessagesTyped ==
  /\ PeerList \in Messages /\ Beat \in Messages
  /\ \A n \in 1..MaxActs : Op(n) \in Messages
  /\ \A c \in Conns : Note(c) \in Messages
  /\ \A m \in Messages : m.t = "op" => m.n \in 1..MaxActs
BY DEF Messages, PeerList, Beat, Op, Note

(* The two lines the room relays, and what they leave. *)
LEMMA RelayKeeps ==
  ASSUME TypeOK, acts < MaxActs, NEW S \in SUBSET peers, Relayed(S, acts + 1)
  PROVE  /\ peers' = peers \ Dropped(S, Op(acts + 1)) /\ ended' = ended \intersect peers'
         /\ line' = [c \in Conns |-> IF c \in Dropped(S, Op(acts + 1)) THEN "closed"
               ELSE line[c]]
         /\ queue' = [c \in Conns |-> IF c \in peers' THEN IF c \in S THEN Append(queue[c],
               Op(acts + 1)) ELSE queue[c] ELSE <<>>]
         /\ owed' = [c \in Conns |-> IF c \in peers' THEN IF c \in S
               THEN owed[c] \union {acts + 1} ELSE owed[c] ELSE {}]
         /\ told' = [c \in Conns |-> IF c \in peers' THEN told[c] ELSE {}]
         /\ \A c \in S \intersect peers' : c \notin ended /\ Len(queue[c]) + 1 <= MaxItems
<1> DEFINE o == [c \in Conns |-> IF c \in S THEN owed[c] \union {acts + 1} ELSE owed[c]]
<1>1. Op(acts + 1) \in Messages
  BY MessagesTyped, RoomAssumption DEF TypeOK
<1>2. Give(S, Op(acts + 1), o)
  BY DEF Relayed
<1>3. \A q : Push(q, Op(acts + 1)) = Append(q, Op(acts + 1))
  BY PushAppends DEF Op
<1>4. \A c \in S : Len(Append(queue[c], Op(acts + 1))) = Len(queue[c]) + 1
  BY <1>1 DEF TypeOK
<1>5. \A c \in Conns : o[c] = IF c \in S THEN owed[c] \union {acts + 1} ELSE owed[c]
  OBVIOUS
<1>. HIDE DEF o
<1> DEFINE m == Op(acts + 1)
<1>. HIDE DEF m
<1>6. /\ peers' = peers \ Dropped(S, m) /\ Dropped(S, m) \subseteq S
      /\ ended' = ended \intersect peers'
      /\ line' = [c \in Conns |-> IF c \in Dropped(S, m) THEN "closed" ELSE line[c]]
      /\ queue' = [c \in Conns |-> IF c \in peers' THEN IF c \in S THEN Push(queue[c], m)
            ELSE queue[c] ELSE <<>>]
      /\ owed' = [c \in Conns |-> IF c \in peers' THEN o[c] ELSE {}]
      /\ told' = [c \in Conns |-> IF c \in peers' THEN told[c] ELSE {}]
      /\ \A c \in S \intersect peers' : c \notin ended /\ Len(Push(queue[c], m)) <= MaxItems
  BY <1>1, <1>2, GiveKeeps, Zenon DEF m
<1>7. owed' = [c \in Conns |-> IF c \in peers' THEN IF c \in S THEN owed[c] \union {acts + 1}
    ELSE owed[c] ELSE {}]
  BY <1>5, <1>6
<1>8. queue' = [c \in Conns |-> IF c \in peers' THEN IF c \in S THEN Append(queue[c], m)
    ELSE queue[c] ELSE <<>>]
  BY <1>3, <1>6 DEF m
<1>9. \A c \in S \intersect peers' : c \notin ended /\ Len(queue[c]) + 1 <= MaxItems
  BY <1>3, <1>4, <1>6 DEF m
<1>. QED BY <1>6, <1>7, <1>8, <1>9 DEF m

LEMMA BeatKeeps ==
  ASSUME TypeOK, Give(peers, Beat, owed)
  PROVE  /\ peers' = peers \ Dropped(peers, Beat) /\ ended' = {}
         /\ line' = [c \in Conns |-> IF c \in Dropped(peers, Beat) THEN "closed" ELSE line[c]]
         /\ queue' = [c \in Conns |-> IF c \in peers' THEN Push(queue[c], Beat) ELSE <<>>]
         /\ owed' = [c \in Conns |-> IF c \in peers' THEN owed[c] ELSE {}]
         /\ told' = [c \in Conns |-> IF c \in peers' THEN told[c] ELSE {}]
         /\ \A c \in peers' : c \notin ended /\ Len(Push(queue[c], Beat)) <= MaxItems
<1> DEFINE m == Beat
           o == owed
           S == peers
<1>1. m \in Messages /\ S \in SUBSET peers /\ Give(S, m, o)
  BY MessagesTyped
<1>. HIDE DEF m, o, S
<1>2. /\ peers' = peers \ Dropped(S, m) /\ Dropped(S, m) \subseteq S
      /\ ended' = ended \intersect peers'
      /\ line' = [c \in Conns |-> IF c \in Dropped(S, m) THEN "closed" ELSE line[c]]
      /\ queue' = [c \in Conns |-> IF c \in peers' THEN IF c \in S THEN Push(queue[c], m)
            ELSE queue[c] ELSE <<>>]
      /\ owed' = [c \in Conns |-> IF c \in peers' THEN o[c] ELSE {}]
      /\ told' = [c \in Conns |-> IF c \in peers' THEN told[c] ELSE {}]
      /\ \A c \in S \intersect peers' : c \notin ended /\ Len(Push(queue[c], m)) <= MaxItems
  BY <1>1, GiveKeeps, Zenon
<1>3. \A c \in peers' : c \in S
  BY <1>2 DEF S
<1>4. ended' = {}
  BY <1>2, <1>3
<1>5. queue' = [c \in Conns |-> IF c \in peers' THEN Push(queue[c], m) ELSE <<>>]
  BY <1>2, <1>3
<1>. QED BY <1>2, <1>3, <1>4, <1>5 DEF m, o, S

(* A claim: the member is a member, and the connection had none. *)
LEMMA FreshMember ==
  ASSUME TypeOK, MintInv, NEW c \in Conns, member[c] = Nobody
  PROVE  minted + 1 \in Members
<1>1. Claimed \subseteq Conns \ {c} /\ Claimed \subseteq Conns
  BY DEF Claimed
<1>2. IsFiniteSet(Conns \ {c}) /\ Cardinality(Conns \ {c}) = MaxConns - 1
  BY ConnsFinite, FS_RemoveElement
<1>3. Cardinality(Claimed) <= MaxConns - 1 /\ Cardinality(Claimed) \in Nat
  BY <1>1, <1>2, FS_Subset, FS_CardinalityType
<1>. QED BY <1>3, RoomAssumption DEF MintInv, TypeOK, Members

(* What c gets with a claim. *)
ClaimedBy(c, m) ==
  /\ member' = [member EXCEPT ![c] = m] /\ member[c] = Nobody
  /\ epochs' = [epochs EXCEPT ![m] = epochs[m] + 1] /\ epoch' = [epoch EXCEPT ![c] = epochs[m] + 1]
  /\ minted' \in {minted, minted + 1} /\ minted' \in 0..MaxConns
  /\ installs' \in [Guests -> Members \union {Nobody}]

LEMMA ClaimFacts ==
  ASSUME TypeOK, RosterInv, MintInv, NEW c \in Conns, Claim(c)
  PROVE  \E m \in Members : ClaimedBy(c, m)
<1>. USE DEF ClaimedBy
<1> DEFINE g == owner[c]
           known == g \in Installs /\ installs[g] # Nobody
           m == IF known THEN installs[g] ELSE minted + 1
<1>1. task[c] = "claim" /\ member[c] = Nobody
  BY DEF Claim, Goes, RosterInv, StageInv
<1>2. minted + 1 \in Members
  BY <1>1, FreshMember
<1>3. g \in Guests
  <2>1. ~(c > Len(owner))
    BY <1>1 DEF RosterInv, StageInv
  <2>. QED BY <2>1 DEF TypeOK, Conns
<1>4. /\ minted' = (IF known THEN minted ELSE minted + 1)
      /\ installs' = (IF g \in Installs THEN [installs EXCEPT ![g] = m] ELSE installs)
      /\ epochs' = [epochs EXCEPT ![m] = epochs[m] + 1]
      /\ member' = [member EXCEPT ![c] = m] /\ epoch' = [epoch EXCEPT ![c] = epochs[m] + 1]
  BY Zenon DEF Claim
<1>. HIDE DEF g
<1>5. CASE known
  <2>1. m = installs[g] /\ m \in Members
    BY <1>3, <1>5 DEF TypeOK
  <2>. HIDE DEF known, m
  <2>. QED BY <1>1, <1>3, <1>4, <1>5, <2>1 DEF TypeOK
<1>6. CASE ~known
  <2>1. m = minted + 1 /\ m \in Members
    BY <1>2, <1>6
  <2>2. minted' = minted + 1
    BY <1>4, <1>6
  <2>3. minted' \in 0..MaxConns
    BY <1>2, <2>2 DEF TypeOK, Members
  <2>. HIDE DEF known, m
  <2>4. installs' \in [Guests -> Members \union {Nobody}]
    BY <1>3, <1>4, <2>1 DEF TypeOK
  <2>. QED BY <1>1, <1>4, <2>1, <2>2, <2>3, <2>4
<1>. QED BY <1>5, <1>6


(* An operation goes to S. *)
Sent(S) ==
  /\ acts < MaxActs /\ acts' = acts + 1 /\ UNCHANGED <<owner, task, claimVars, failures>>
  /\ BroadcastOp => calling' = (Dropped(S, Op(acts + 1)) # {})
  /\ ~BroadcastOp => calling' = calling
  /\ peers' = peers \ Dropped(S, Op(acts + 1)) /\ ended' = ended \intersect peers'
  /\ line' = [c \in Conns |-> IF c \in Dropped(S, Op(acts + 1)) THEN "closed" ELSE line[c]]
  /\ queue' = [c \in Conns |-> IF c \in peers' THEN IF c \in S THEN Append(queue[c],
        Op(acts + 1)) ELSE queue[c] ELSE <<>>]
  /\ owed' = [c \in Conns |-> IF c \in peers' THEN IF c \in S THEN owed[c] \union {acts + 1}
        ELSE owed[c] ELSE {}]
  /\ told' = [c \in Conns |-> IF c \in peers' THEN told[c] ELSE {}]
  /\ \A c \in S \intersect peers' : c \notin ended /\ Len(queue[c]) + 1 <= MaxItems

LEMMA OpSent ==
  ASSUME TypeOK, (\E c \in Conns : Relay(c)) \/ BroadcastOp
  PROVE  \E S \in SUBSET peers : Sent(S)
<1>. USE DEF Sent
<1>1. CASE BroadcastOp
  <2>1. /\ acts < MaxActs /\ acts' = acts + 1 /\ UNCHANGED <<owner, task, claimVars, failures>>
        /\ calling' = (Dropped(peers, Op(acts + 1)) # {}) /\ Relayed(peers, acts + 1)
    BY <1>1 DEF BroadcastOp, Broadcast, Command
  <2>. WITNESS peers \in SUBSET peers
  <2>. QED BY <1>1, <2>1, RelayKeeps
<1>2. CASE ~BroadcastOp
  <2>1. PICK c \in Conns : Relay(c)
    BY <1>2
  <2>2. /\ acts < MaxActs /\ acts' = acts + 1 /\ UNCHANGED <<owner, task, claimVars, failures>>
        /\ calling' = calling /\ Relayed(peers \ {c}, acts + 1) /\ peers \ {c} \in SUBSET peers
    BY <2>1 DEF Relay
  <2>. WITNESS peers \ {c} \in SUBSET peers
  <2>. QED BY <1>2, <2>2, RelayKeeps
<1>. QED BY <1>1, <1>2

-----------------------------------------------------------------------------
(* One lemma for each part of the invariant *)

(* The types: tasks and lines *)
LEMMA TaskTypesNext ==
  ASSUME TypeOK, [Next]_vars PROVE TaskTypes'
<1> DEFINE Goal == TaskTypes'
<1>. USE RoomAssumption
<1>1. ASSUME NEW g \in Guests, Dial(g) PROVE Goal
  <2>1. Len(owner) + 1 \in Conns /\ owner' = Append(owner, g)
    BY <1>1 DEF Dial, Shut
  <2>2. owner' \in Seq(Guests) /\ Len(owner') <= MaxConns
    BY <2>1, SplitTypes DEF TaskTypes, Conns
  <2>3. /\ line' \in [Conns -> {"idle", "up", "lost", "closed"}] /\ task' \in [Conns -> Stages]
        /\ calling' \in BOOLEAN /\ acts' \in 0..MaxActs /\ failures' \in 0..MaxFailures
    BY <1>1, SplitTypes DEF Dial, Shut, TaskTypes, Stages
  <2>. QED BY <2>2, <2>3 DEF TaskTypes
<1>2. ASSUME NEW c \in Conns, Drop(c) PROVE Goal
  BY <1>2, SplitTypes DEF Drop, TaskTypes, Stages
<1>3. ASSUME NEW c \in Conns, Break(c) PROVE Goal
  BY <1>3, SplitTypes DEF Break, Shut, TaskTypes, Stages
<1>4. ASSUME NEW c \in Conns, Hello(c) PROVE Goal
  BY <1>4, SplitTypes DEF Hello, Goes, Shut, TaskTypes, Stages
<1>5. ASSUME NEW c \in Conns, Claim(c) PROVE Goal
  <2>1. task' \in [Conns -> Stages]
    <3>1. (IF line[c] = "closed" THEN "done" ELSE "register") \in Stages
      BY DEF Stages
    <3>2. task' = [task EXCEPT ![c] = IF line[c] = "closed" THEN "done" ELSE "register"]
      BY <1>5, Zenon DEF Claim, Goes
    <3>. QED BY <3>1, <3>2, SplitTypes DEF TaskTypes
  <2>2. UNCHANGED <<owner, line, calling, acts, failures>>
    BY <1>5 DEF Claim, Goes, roomVars
  <2>. QED BY <2>1, <2>2, SplitTypes DEF TaskTypes
<1>6. ASSUME NEW c \in Conns, Register(c) PROVE Goal
  BY <1>6, SplitTypes DEF Register, Goes, Becomes, Ousted, TaskTypes, Stages
<1>7. ASSUME NEW c \in Conns, Tell(c) PROVE Goal
  BY <1>7, SplitTypes, TellKeeps DEF Tell, Goes, TaskTypes, Stages
<1>8. ASSUME NEW c \in Conns, Goodbye(c) PROVE Goal
  BY <1>8, SplitTypes DEF Goodbye, Goes, Becomes, TaskTypes, Stages
<1>9. ASSUME NEW c \in Conns, Relay(c) PROVE Goal
  BY <1>9, SplitTypes, RelayKeeps DEF Relay, TaskTypes, Stages
<1>10. ASSUME NEW c \in Conns, Welcome(c) PROVE Goal
  BY <1>10, SplitTypes DEF Welcome, Shut, Command, TaskTypes, Stages
<1>11. ASSUME BroadcastOp PROVE Goal
  BY <1>11, SplitTypes, RelayKeeps DEF BroadcastOp, Broadcast, Command, TaskTypes, Stages
<1>12. ASSUME BroadcastBeat PROVE Goal
  BY <1>12, SplitTypes, BeatKeeps DEF BroadcastBeat, Broadcast, TaskTypes, Stages
<1>13. ASSUME Finish PROVE Goal
  BY <1>13, SplitTypes, TellKeeps DEF Finish, TaskTypes, Stages
<1>14. ASSUME NEW m \in Members, Kick(m) PROVE Goal
  BY <1>14, SplitTypes DEF Kick, Becomes, Command, TaskTypes, Stages
<1>15. CASE UNCHANGED vars
  BY <1>15, SplitTypes DEF vars, claimVars, roomVars, TaskTypes, Stages
<1>. QED
  BY <1>1, <1>2, <1>3, <1>4, <1>5, <1>6, <1>7, <1>8, <1>9, <1>10, <1>11, <1>12, <1>13, <1>14,
      <1>15, SplitTypes DEF Next, TaskStep, Read, WriterEnds, claimVars, roomVars, TaskTypes,
      Stages

(* Member ids, epochs and installs change with a claim only. *)
LEMMA OnlyClaims ==
  ASSUME [Next]_vars PROVE UNCHANGED claimVars \/ \E c \in Conns : Claim(c)
BY DEF Next, vars, TaskStep, Dial, Drop, Break, Read, WriterEnds, Hello, Register, Tell,
    Goodbye,
       Relay, Welcome, Command, BroadcastOp, BroadcastBeat, Finish, Kick

(* The types: what was claimed *)
LEMMA ClaimTypesNext ==
  ASSUME TypeOK, RosterInv, MintInv, [Next]_vars PROVE ClaimTypes'
<1>1. ASSUME NEW c \in Conns, Claim(c) PROVE ClaimTypes'
  <2>1. PICK m \in Members : ClaimedBy(c, m)
    BY <1>1, ClaimFacts
  <2>. USE DEF ClaimedBy
  <2>2. task[c] = "claim" /\ task' = [task EXCEPT ![c] = IF line[c] = "closed" THEN "done"
      ELSE "register"]
    BY <1>1 DEF Claim, Goes
  <2>3. UNCHANGED roomVars /\ UNCHANGED owner
    BY <1>1 DEF Claim, Goes
  <2>4. m # Nobody
    BY <2>1, SplitTypes DEF ClaimTypes, Members, Nobody
  <2>5. epochs[m] \in Nat
    BY SplitTypes DEF ClaimTypes
  <2>. QED BY <2>1, <2>5, SplitTypes DEF ClaimTypes
<1>2. CASE UNCHANGED claimVars
  BY <1>2, SplitTypes DEF claimVars, ClaimTypes
<1>. QED BY <1>1, <1>2, OnlyClaims

(* The types: queues *)
LEMMA QueueTypesNext ==
  ASSUME TypeOK, [Next]_vars PROVE QueueTypes'
<1> DEFINE Goal == QueueTypes'
<1>. USE RoomAssumption
<1>1. ASSUME NEW c \in Conns, Read(c) PROVE Goal
  <2>1. queue' = [d \in Conns |-> queue'[d]]
    BY <1>1, SplitTypes DEF Read, QueueTypes
  <2>2. ASSUME NEW d \in Conns PROVE queue'[d] \in Seq(Messages) /\ Len(queue'[d]) <= MaxItems
    BY <1>1, SplitTypes, MessagesTyped DEF Read, QueueTypes
  <2>. QED BY <2>1, <2>2 DEF QueueTypes
<1>2. ASSUME NEW c \in Conns, WriterEnds(c) PROVE Goal
  <2>1. queue' = [d \in Conns |-> queue'[d]]
    BY <1>2, SplitTypes DEF WriterEnds, QueueTypes
  <2>2. ASSUME NEW d \in Conns PROVE queue'[d] \in Seq(Messages) /\ Len(queue'[d]) <= MaxItems
    BY <1>2, SplitTypes, MessagesTyped DEF WriterEnds, QueueTypes
  <2>. QED BY <2>1, <2>2 DEF QueueTypes
<1>3. ASSUME NEW c \in Conns, Register(c) PROVE Goal
  <2>1. queue' = [d \in Conns |-> queue'[d]]
    BY <1>3, SplitTypes DEF Register, Goes, Becomes, Ousted, QueueTypes
  <2>2. ASSUME NEW d \in Conns PROVE queue'[d] \in Seq(Messages) /\ Len(queue'[d]) <= MaxItems
    <3>1. queue'[d] \in {queue[d], <<>>}
      BY <1>3, SplitTypes DEF Register, Goes, Becomes, Ousted, QueueTypes
    <3>2. queue[d] \in Seq(Messages) /\ Len(queue[d]) <= MaxItems
      BY SplitTypes DEF QueueTypes
    <3>3. CASE queue'[d] = <<>>
      BY <3>3
    <3>. QED BY <3>1, <3>2, <3>3
  <2>. QED BY <2>1, <2>2 DEF QueueTypes
<1>4. ASSUME NEW c \in Conns, Tell(c) PROVE Goal
  <2>1. queue' = [d \in Conns |-> queue'[d]]
    BY <1>4, TellKeeps DEF Tell, Goes
  <2>2. ASSUME NEW d \in Conns PROVE queue'[d] \in Seq(Messages) /\ Len(queue'[d]) <= MaxItems
    <3>1. CASE d \in peers'
      <4>1. queue'[d] = queue[d] \o Lists /\ Len(Lists) = Passes /\ Len(queue[d]) + Passes <= MaxItems
        BY <1>4, <3>1, TellKeeps DEF Tell, Goes
      <4>2. queue[d] \in Seq(Messages) /\ Lists \in Seq({PeerList}) /\ {PeerList} \subseteq Messages
        BY <1>4, TellKeeps, MessagesTyped, SplitTypes DEF Tell, Goes, QueueTypes
      <4>3. Lists \in Seq(Messages)
        BY <4>2
      <4>. QED BY <4>1, <4>2, <4>3
    <3>2. CASE d \notin peers'
      <4>1. queue'[d] = <<>>
        BY <1>4, <3>2, TellKeeps DEF Tell, Goes
      <4>. QED BY <4>1
    <3>. QED BY <3>1, <3>2
  <2>. QED BY <2>1, <2>2 DEF QueueTypes
<1>5. ASSUME NEW c \in Conns, Goodbye(c) PROVE Goal
  <2>1. queue' = [d \in Conns |-> queue'[d]]
    BY <1>5, SplitTypes DEF Goodbye, Goes, Becomes, QueueTypes
  <2>2. ASSUME NEW d \in Conns PROVE queue'[d] \in Seq(Messages) /\ Len(queue'[d]) <= MaxItems
    BY <1>5, SplitTypes, MessagesTyped DEF Goodbye, Goes, Becomes, QueueTypes
  <2>. QED BY <2>1, <2>2 DEF QueueTypes
<1>6. ASSUME NEW c \in Conns, Relay(c) PROVE Goal
  <2>0. PICK S \in SUBSET peers : Sent(S)
    BY <1>6, OpSent
  <2>. USE <2>0 DEF Sent
  <2>1. queue' = [d \in Conns |-> queue'[d]]
    BY <2>0
  <2>2. ASSUME NEW d \in Conns PROVE queue'[d] \in Seq(Messages) /\ Len(queue'[d]) <= MaxItems
    <3>1. Op(acts + 1) \in Messages
      BY <2>0, MessagesTyped DEF TypeOK
    <3>2. queue[d] \in Seq(Messages) /\ Len(queue[d]) <= MaxItems
      BY SplitTypes DEF QueueTypes
    <3>3. Append(queue[d], Op(acts + 1)) \in Seq(Messages) /\ Len(Append(queue[d],
        Op(acts + 1))) = Len(queue[d]) + 1
      BY <3>1, <3>2
    <3>4. CASE d \in S \intersect peers'
      BY <2>0, <3>3, <3>4
    <3>5. CASE d \notin S \intersect peers'
      BY <2>0, <3>2, <3>5
    <3>. QED BY <3>4, <3>5
  <2>. QED BY <2>1, <2>2 DEF QueueTypes
<1>7. ASSUME NEW c \in Conns, Welcome(c) PROVE Goal
  <2>1. queue' = [d \in Conns |-> queue'[d]]
    BY <1>7, SplitTypes DEF Welcome, Shut, Command, QueueTypes
  <2>2. ASSUME NEW d \in Conns PROVE queue'[d] \in Seq(Messages) /\ Len(queue'[d]) <= MaxItems
    <3>1. Push(queue[d], Note(c)) = Append(queue[d], Note(c))
      BY PushAppends DEF Note
    <3>2. queue'[d] = queue[d] \/ (queue'[d] = Push(queue[d], Note(c)) /\ ~Refuses(d, Note(c)))
      BY <1>7, SplitTypes DEF Welcome, Shut, Command, QueueTypes
    <3>3. queue[d] \in Seq(Messages) /\ Len(queue[d]) <= MaxItems /\ Note(c) \in Messages
      BY SplitTypes, MessagesTyped DEF QueueTypes
    <3>4. Len(Append(queue[d], Note(c))) = Len(queue[d]) + 1 /\ Len(queue[d]) \in Nat
      BY <3>3
    <3>5. CASE queue'[d] = queue[d]
      BY <3>3, <3>5
    <3>6. CASE queue'[d] # queue[d]
      <4>1. queue'[d] = Append(queue[d], Note(c)) /\ ~(Len(Append(queue[d],
          Note(c))) > MaxItems)
        BY <3>1, <3>2, <3>6 DEF Refuses
      <4>. QED BY <3>3, <3>4, <4>1
    <3>. QED BY <3>5, <3>6
  <2>. QED BY <2>1, <2>2 DEF QueueTypes
<1>8. ASSUME BroadcastOp PROVE Goal
  <2>0. PICK S \in SUBSET peers : Sent(S)
    BY <1>8, OpSent
  <2>. USE <2>0 DEF Sent
  <2>1. queue' = [d \in Conns |-> queue'[d]]
    BY <2>0
  <2>2. ASSUME NEW d \in Conns PROVE queue'[d] \in Seq(Messages) /\ Len(queue'[d]) <= MaxItems
    <3>1. Op(acts + 1) \in Messages
      BY <2>0, MessagesTyped DEF TypeOK
    <3>2. queue[d] \in Seq(Messages) /\ Len(queue[d]) <= MaxItems
      BY SplitTypes DEF QueueTypes
    <3>3. Append(queue[d], Op(acts + 1)) \in Seq(Messages) /\ Len(Append(queue[d],
        Op(acts + 1))) = Len(queue[d]) + 1
      BY <3>1, <3>2
    <3>4. CASE d \in S \intersect peers'
      BY <2>0, <3>3, <3>4
    <3>5. CASE d \notin S \intersect peers'
      BY <2>0, <3>2, <3>5
    <3>. QED BY <3>4, <3>5
  <2>. QED BY <2>1, <2>2 DEF QueueTypes
<1>9. ASSUME BroadcastBeat PROVE Goal
  <2>1. queue' = [d \in Conns |-> queue'[d]]
    BY <1>9, BeatKeeps DEF BroadcastBeat, Broadcast
  <2>2. ASSUME NEW d \in Conns PROVE queue'[d] \in Seq(Messages) /\ Len(queue'[d]) <= MaxItems
    <3>1. CASE d \in peers'
      <4>1. queue'[d] = Push(queue[d], Beat) /\ Len(Push(queue[d], Beat)) <= MaxItems
        BY <1>9, <3>1, BeatKeeps DEF BroadcastBeat, Broadcast
      <4>. QED BY <4>1, PushTyped, MessagesTyped, SplitTypes DEF QueueTypes
    <3>2. CASE d \notin peers'
      <4>1. queue'[d] = <<>>
        BY <1>9, <3>2, BeatKeeps DEF BroadcastBeat, Broadcast
      <4>. QED BY <4>1
    <3>. QED BY <3>1, <3>2
  <2>. QED BY <2>1, <2>2 DEF QueueTypes
<1>10. ASSUME Finish PROVE Goal
  <2>1. queue' = [d \in Conns |-> queue'[d]]
    BY <1>10, TellKeeps DEF Finish
  <2>2. ASSUME NEW d \in Conns PROVE queue'[d] \in Seq(Messages) /\ Len(queue'[d]) <= MaxItems
    <3>1. CASE d \in peers'
      <4>1. queue'[d] = queue[d] \o Lists /\ Len(Lists) = Passes /\ Len(queue[d]) + Passes <= MaxItems
        BY <1>10, <3>1, TellKeeps DEF Finish
      <4>2. queue[d] \in Seq(Messages) /\ Lists \in Seq({PeerList}) /\ {PeerList} \subseteq Messages
        BY <1>10, TellKeeps, MessagesTyped, SplitTypes DEF Finish, QueueTypes
      <4>3. Lists \in Seq(Messages)
        BY <4>2
      <4>. QED BY <4>1, <4>2, <4>3
    <3>2. CASE d \notin peers'
      <4>1. queue'[d] = <<>>
        BY <1>10, <3>2, TellKeeps DEF Finish
      <4>. QED BY <4>1
    <3>. QED BY <3>1, <3>2
  <2>. QED BY <2>1, <2>2 DEF QueueTypes
<1>11. ASSUME NEW m \in Members, Kick(m) PROVE Goal
  <2>1. queue' = [d \in Conns |-> queue'[d]]
    BY <1>11, SplitTypes DEF Kick, Becomes, Command, QueueTypes
  <2>2. ASSUME NEW d \in Conns PROVE queue'[d] \in Seq(Messages) /\ Len(queue'[d]) <= MaxItems
    BY <1>11, SplitTypes, MessagesTyped DEF Kick, Becomes, Command, QueueTypes
  <2>. QED BY <2>1, <2>2 DEF QueueTypes
<1>12. CASE UNCHANGED vars
  BY <1>12, SplitTypes DEF vars, claimVars, roomVars, QueueTypes
<1>. QED
  BY <1>1, <1>2, <1>3, <1>4, <1>5, <1>6, <1>7, <1>8, <1>9, <1>10, <1>11, <1>12, SplitTypes
      DEF Next, TaskStep, Dial, Shut, Drop, Break, Hello, Goes, Claim, claimVars, roomVars,
      QueueTypes

(* The types: the roster, what is owed and told *)
LEMMA RoomTypesNext ==
  ASSUME TypeOK, [Next]_vars PROVE RoomTypes'
<1> DEFINE Goal == RoomTypes'
<1>. USE RoomAssumption
<1>1. ASSUME NEW c \in Conns, Read(c) PROVE Goal
  BY <1>1, SplitTypes DEF Read, RoomTypes
<1>2. ASSUME NEW c \in Conns, WriterEnds(c) PROVE Goal
  BY <1>2, SplitTypes DEF WriterEnds, RoomTypes
<1>3. ASSUME NEW c \in Conns, Register(c) PROVE Goal
  BY <1>3, SplitTypes DEF Register, Goes, Becomes, Ousted, RoomTypes
<1>4. ASSUME NEW c \in Conns, Tell(c) PROVE Goal
  BY <1>4, SplitTypes, TellKeeps DEF Tell, Goes, RoomTypes
<1>5. ASSUME NEW c \in Conns, Goodbye(c) PROVE Goal
  BY <1>5, SplitTypes DEF Goodbye, Goes, Becomes, RoomTypes
<1>6. ASSUME NEW c \in Conns, Relay(c) PROVE Goal
  <2>0. PICK S \in SUBSET peers : Sent(S)
    BY <1>6, OpSent
  <2>. USE <2>0 DEF Sent
  <2>1. acts + 1 \in 1..MaxActs
    BY <2>0 DEF TypeOK
  <2>. QED BY <2>0, <2>1, SplitTypes DEF RoomTypes
<1>7. ASSUME BroadcastOp PROVE Goal
  <2>0. PICK S \in SUBSET peers : Sent(S)
    BY <1>7, OpSent
  <2>. USE <2>0 DEF Sent
  <2>1. acts + 1 \in 1..MaxActs
    BY <2>0 DEF TypeOK
  <2>. QED BY <2>0, <2>1, SplitTypes DEF RoomTypes
<1>8. ASSUME BroadcastBeat PROVE Goal
  BY <1>8, SplitTypes, BeatKeeps DEF BroadcastBeat, Broadcast, RoomTypes
<1>9. ASSUME Finish PROVE Goal
  BY <1>9, SplitTypes, TellKeeps DEF Finish, RoomTypes
<1>10. ASSUME NEW m \in Members, Kick(m) PROVE Goal
  BY <1>10, SplitTypes DEF Kick, Becomes, Command, RoomTypes
<1>11. CASE UNCHANGED vars
  BY <1>11, SplitTypes DEF vars, claimVars, roomVars, RoomTypes
<1>. QED
  BY <1>1, <1>2, <1>3, <1>4, <1>5, <1>6, <1>7, <1>8, <1>9, <1>10, <1>11, SplitTypes DEF Next,
      TaskStep, Dial, Shut, Drop, Break, Hello, Goes, Claim, Welcome, Command, claimVars,
      roomVars, RoomTypes

(* Where tasks stand *)
LEMMA StageInvNext ==
  ASSUME TypeOK, RosterInv, MintInv, [Next]_vars PROVE StageInv'
<1> DEFINE Goal == StageInv'
<1>. USE RoomAssumption
<1>1. ASSUME NEW g \in Guests, Dial(g) PROVE Goal
  <2>1. /\ Len(owner) + 1 \in Conns /\ owner' = Append(owner, g) /\ member' = member
        /\ task' = [task EXCEPT ![Len(owner) + 1] = "hello"] \/ task' = [task EXCEPT ![Len(owner) + 1] = "done"]
    BY <1>1 DEF Dial, Shut, claimVars
  <2>2. Len(owner') = Len(owner) + 1 /\ Len(owner) \in Nat /\ \A d \in Conns : d \in Nat
    BY <2>1, SplitTypes DEF TaskTypes, Conns
  <2>3. task[Len(owner) + 1] = "idle"
    BY <2>1, <2>2 DEF RosterInv, StageInv
  <2>4. \A d \in Conns : d # Len(owner) + 1 => task'[d] = task[d]
    BY <2>1, SplitTypes DEF TaskTypes
  <2>5. task'[Len(owner) + 1] \in {"hello", "done"}
    BY <2>1, SplitTypes DEF TaskTypes
  <2>. QED BY <2>1, <2>2, <2>3, <2>4, <2>5 DEF RosterInv, StageInv
<1>2. ASSUME NEW c \in Conns, Hello(c) PROVE Goal
  BY <1>2, SplitTypes DEF Hello, Goes, Shut, RosterInv, StageInv, TaskTypes, claimVars
<1>3. ASSUME NEW c \in Conns, Claim(c) PROVE Goal
  <2>1. PICK m \in Members : ClaimedBy(c, m)
    BY <1>3, ClaimFacts
  <2>. USE DEF ClaimedBy
  <2>2. task[c] = "claim" /\ task' = [task EXCEPT ![c] = IF line[c] = "closed" THEN "done"
      ELSE "register"]
    BY <1>3 DEF Claim, Goes
  <2>3. UNCHANGED roomVars /\ UNCHANGED owner
    BY <1>3 DEF Claim, Goes
  <2>4. m # Nobody
    BY <2>1, SplitTypes DEF ClaimTypes, Members, Nobody
  <2>. QED BY <2>1, <2>2, <2>3, <2>4, SplitTypes DEF RosterInv, StageInv, TaskTypes, ClaimTypes
<1>4. ASSUME NEW c \in Conns, Register(c) PROVE Goal
  BY <1>4, SplitTypes DEF Register, Goes, Becomes, Ousted, RosterInv, StageInv, TaskTypes,
      claimVars
<1>5. ASSUME NEW c \in Conns, Tell(c) PROVE Goal
  BY <1>5, SplitTypes, TellKeeps DEF Tell, Goes, RosterInv, StageInv, TaskTypes, claimVars
<1>6. ASSUME NEW c \in Conns, Goodbye(c) PROVE Goal
  BY <1>6, SplitTypes DEF Goodbye, Goes, Becomes, RosterInv, StageInv, TaskTypes, claimVars
<1>7. CASE UNCHANGED vars
  BY <1>7, SplitTypes DEF vars, claimVars, roomVars, RosterInv, StageInv, TaskTypes
<1>. QED
  BY <1>1, <1>2, <1>3, <1>4, <1>5, <1>6, <1>7, SplitTypes DEF Next, TaskStep, Drop, Break, Shut,
      Read, WriterEnds, Relay, Welcome, Command, BroadcastOp, Broadcast, BroadcastBeat, Finish,
      Kick, Becomes, claimVars, roomVars, RosterInv, StageInv, TaskTypes

(* Who is in the roster *)
LEMMA InInvNext ==
  ASSUME TypeOK, RosterInv, [Next]_vars PROVE InInv'
<1> DEFINE Goal == InInv'
<1>. USE RoomAssumption
<1>1. ASSUME NEW g \in Guests, Dial(g) PROVE Goal
  BY <1>1, SplitTypes DEF Dial, Shut, RosterInv, InInv, StageInv, TaskTypes, RoomTypes, roomVars
<1>2. ASSUME NEW c \in Conns, Hello(c) PROVE Goal
  BY <1>2, SplitTypes DEF Hello, Goes, Shut, RosterInv, InInv, StageInv, TaskTypes, RoomTypes,
      roomVars
<1>3. ASSUME NEW c \in Conns, Claim(c) PROVE Goal
  BY <1>3, SplitTypes DEF Claim, Goes, RosterInv, InInv, StageInv, TaskTypes, RoomTypes,
      roomVars
<1>4. ASSUME NEW c \in Conns, Register(c) PROVE Goal
  BY <1>4, SplitTypes DEF Register, Goes, Becomes, Ousted, RosterInv, InInv, StageInv,
      TaskTypes, RoomTypes, roomVars
<1>5. ASSUME NEW c \in Conns, Tell(c) PROVE Goal
  BY <1>5, SplitTypes, TellKeeps DEF Tell, Goes, RosterInv, InInv, StageInv, TaskTypes,
      RoomTypes, roomVars
<1>6. ASSUME NEW c \in Conns, Goodbye(c) PROVE Goal
  BY <1>6, SplitTypes DEF Goodbye, Goes, Becomes, RosterInv, InInv, StageInv, TaskTypes,
      RoomTypes, roomVars
<1>7. ASSUME NEW c \in Conns, Relay(c) PROVE Goal
  <2>0. PICK S \in SUBSET peers : Sent(S)
    BY <1>7, OpSent
  <2>. USE <2>0 DEF Sent
  <2>. QED BY <2>0 DEF RosterInv, InInv, claimVars
<1>8. ASSUME BroadcastOp PROVE Goal
  <2>0. PICK S \in SUBSET peers : Sent(S)
    BY <1>8, OpSent
  <2>. USE <2>0 DEF Sent
  <2>. QED BY <2>0 DEF RosterInv, InInv, claimVars
<1>9. ASSUME BroadcastBeat PROVE Goal
  BY <1>9, SplitTypes, BeatKeeps DEF BroadcastBeat, Broadcast, RosterInv, InInv, StageInv,
      TaskTypes, RoomTypes, roomVars
<1>10. ASSUME Finish PROVE Goal
  BY <1>10, SplitTypes, TellKeeps DEF Finish, RosterInv, InInv, StageInv, TaskTypes, RoomTypes,
      roomVars
<1>11. ASSUME NEW m \in Members, Kick(m) PROVE Goal
  BY <1>11, SplitTypes DEF Kick, Becomes, Command, RosterInv, InInv, StageInv, TaskTypes,
      RoomTypes, roomVars
<1>12. CASE UNCHANGED vars
  BY <1>12, SplitTypes DEF vars, claimVars, roomVars, RosterInv, InInv, StageInv, TaskTypes,
      RoomTypes
<1>. QED
  BY <1>1, <1>2, <1>3, <1>4, <1>5, <1>6, <1>7, <1>8, <1>9, <1>10, <1>11, <1>12, SplitTypes
      DEF Next, TaskStep, Drop, Break, Shut, Read, WriterEnds, Welcome, Command, claimVars,
      roomVars, RosterInv, InInv, StageInv, TaskTypes, RoomTypes

(* Who is not in the roster *)
LEMMA OutInvNext ==
  ASSUME TypeOK, RosterInv, [Next]_vars PROVE OutInv'
<1> DEFINE Goal == OutInv'
<1>. USE RoomAssumption
<1>1. ASSUME NEW c \in Conns, Read(c) PROVE Goal
  BY <1>1, SplitTypes DEF Read, RosterInv, OutInv, RoomTypes, QueueTypes
<1>2. ASSUME NEW c \in Conns, WriterEnds(c) PROVE Goal
  BY <1>2, SplitTypes DEF WriterEnds, RosterInv, OutInv, RoomTypes, QueueTypes
<1>3. ASSUME NEW c \in Conns, Register(c) PROVE Goal
  BY <1>3, SplitTypes DEF Register, Goes, Becomes, Ousted, RosterInv, OutInv, RoomTypes,
      QueueTypes
<1>4. ASSUME NEW c \in Conns, Tell(c) PROVE Goal
  BY <1>4, SplitTypes, TellKeeps DEF Tell, Goes, RosterInv, OutInv, RoomTypes, QueueTypes
<1>5. ASSUME NEW c \in Conns, Goodbye(c) PROVE Goal
  BY <1>5, SplitTypes DEF Goodbye, Goes, Becomes, RosterInv, OutInv, RoomTypes, QueueTypes
<1>6. ASSUME NEW c \in Conns, Relay(c) PROVE Goal
  <2>0. PICK S \in SUBSET peers : Sent(S)
    BY <1>6, OpSent
  <2>. USE <2>0 DEF Sent
  <2>. QED BY <2>0 DEF RosterInv, OutInv, claimVars
<1>7. ASSUME NEW c \in Conns, Welcome(c) PROVE Goal
  BY <1>7, SplitTypes DEF Welcome, Shut, Command, RosterInv, OutInv, RoomTypes, QueueTypes
<1>8. ASSUME BroadcastOp PROVE Goal
  <2>0. PICK S \in SUBSET peers : Sent(S)
    BY <1>8, OpSent
  <2>. USE <2>0 DEF Sent
  <2>. QED BY <2>0 DEF RosterInv, OutInv, claimVars
<1>9. ASSUME BroadcastBeat PROVE Goal
  BY <1>9, SplitTypes, BeatKeeps DEF BroadcastBeat, Broadcast, RosterInv, OutInv, RoomTypes,
      QueueTypes
<1>10. ASSUME Finish PROVE Goal
  BY <1>10, SplitTypes, TellKeeps DEF Finish, RosterInv, OutInv, RoomTypes, QueueTypes
<1>11. ASSUME NEW m \in Members, Kick(m) PROVE Goal
  BY <1>11, SplitTypes DEF Kick, Becomes, Command, RosterInv, OutInv, RoomTypes, QueueTypes
<1>12. CASE UNCHANGED vars
  BY <1>12, SplitTypes DEF vars, claimVars, roomVars, RosterInv, OutInv, RoomTypes, QueueTypes
<1>. QED
  BY <1>1, <1>2, <1>3, <1>4, <1>5, <1>6, <1>7, <1>8, <1>9, <1>10, <1>11, <1>12, SplitTypes
      DEF Next, TaskStep, Dial, Shut, Drop, Break, Hello, Goes, Claim, claimVars, roomVars,
      RosterInv, OutInv, RoomTypes, QueueTypes

(* Member ids *)
LEMMA MintInvNext ==
  ASSUME TypeOK, RosterInv, MintInv, [Next]_vars PROVE MintInv'
<1>1. ASSUME NEW c \in Conns, Claim(c) PROVE MintInv'
  <2>1. PICK m \in Members : ClaimedBy(c, m)
    BY <1>1, ClaimFacts
  <2>. USE DEF ClaimedBy
  <2>2. task[c] = "claim" /\ task' = [task EXCEPT ![c] = IF line[c] = "closed" THEN "done"
      ELSE "register"]
    BY <1>1 DEF Claim, Goes
  <2>3. UNCHANGED roomVars /\ UNCHANGED owner
    BY <1>1 DEF Claim, Goes
  <2>4. m # Nobody
    BY <2>1, SplitTypes DEF ClaimTypes, Members, Nobody
  <2>5. Claimed' = Claimed \union {c} /\ c \notin Claimed /\ Claimed \in SUBSET Conns
    BY <2>1, <2>4, SplitTypes DEF Claimed, ClaimTypes
  <2>6. Cardinality(Claimed') = Cardinality(Claimed) + 1 /\ Cardinality(Claimed) \in Nat
    BY <2>5, RosterFinite, FS_AddElement
  <2>. QED BY <2>1, <2>6, SplitTypes DEF MintInv, ClaimTypes
<1>2. CASE UNCHANGED claimVars
  BY <1>2, SplitTypes DEF claimVars, MintInv, Claimed
<1>. QED BY <1>1, <1>2, OnlyClaims

(* Pairs of member and epoch *)
LEMMA PairInvNext ==
  ASSUME TypeOK, RosterInv, MintInv, PairInv, [Next]_vars PROVE PairInv'
<1>1. ASSUME NEW c \in Conns, Claim(c) PROVE PairInv'
  <2>1. PICK m \in Members : ClaimedBy(c, m)
    BY <1>1, ClaimFacts
  <2>. USE DEF ClaimedBy
  <2>2. task[c] = "claim" /\ task' = [task EXCEPT ![c] = IF line[c] = "closed" THEN "done"
      ELSE "register"]
    BY <1>1 DEF Claim, Goes
  <2>3. UNCHANGED roomVars /\ UNCHANGED owner
    BY <1>1 DEF Claim, Goes
  <2>4. m # Nobody
    BY <2>1, SplitTypes DEF ClaimTypes, Members, Nobody
  <2>5. \A d \in Conns : /\ member'[d] = (IF d = c THEN m ELSE member[d])
                           /\ epoch'[d] = (IF d = c THEN epochs[m] + 1 ELSE epoch[d])
    BY <2>1, SplitTypes DEF ClaimTypes
  <2>6. /\ \A n \in Members : epochs'[n] = IF n = m THEN epochs[m] + 1 ELSE epochs[n]
        /\ \A d \in Conns : member[d] # Nobody => member[d] \in Members /\ epoch[d] \in Nat
        /\ \A n \in Members : epochs[n] \in Nat
    BY <2>1, SplitTypes DEF ClaimTypes
  <2>7. \A d \in Conns : member[d] = m => epoch[d] < epochs[m] + 1
    BY <2>4, <2>6 DEF PairInv
  <2>8. ASSUME NEW d \in Conns, member'[d] # Nobody PROVE epoch'[d] <= epochs'[member'[d]]
    BY <2>5, <2>6, <2>7, <2>8 DEF PairInv
  <2>9. ASSUME NEW d \in Conns, NEW e \in Conns,
               member'[d] = member'[e], member'[d] # Nobody, epoch'[d] = epoch'[e]
        PROVE  d = e
    BY <2>5, <2>6, <2>7, <2>9 DEF PairInv
  <2>. QED BY <2>8, <2>9 DEF PairInv
<1>2. CASE UNCHANGED claimVars
  BY <1>2, SplitTypes DEF claimVars, PairInv
<1>. QED BY <1>1, <1>2, OnlyClaims

(* What is owed *)
LEMMA OwedInvNext ==
  ASSUME TypeOK, OwedInv, [Next]_vars PROVE OwedInv'
<1> DEFINE Goal == OwedInv'
<1>. USE RoomAssumption
<1>1. ASSUME NEW c \in Conns, Read(c) PROVE Goal
  BY <1>1, SplitTypes DEF Read, OwedInv, TaskTypes, RoomTypes
<1>2. ASSUME NEW c \in Conns, Register(c) PROVE Goal
  BY <1>2, SplitTypes DEF Register, Goes, Becomes, Ousted, OwedInv, TaskTypes, RoomTypes
<1>3. ASSUME NEW c \in Conns, Tell(c) PROVE Goal
  BY <1>3, SplitTypes, TellKeeps DEF Tell, Goes, OwedInv, TaskTypes, RoomTypes
<1>4. ASSUME NEW c \in Conns, Goodbye(c) PROVE Goal
  BY <1>4, SplitTypes DEF Goodbye, Goes, Becomes, OwedInv, TaskTypes, RoomTypes
<1>5. ASSUME NEW c \in Conns, Relay(c) PROVE Goal
  <2>0. PICK S \in SUBSET peers : Sent(S)
    BY <1>5, OpSent
  <2>. USE <2>0 DEF Sent
  <2>1. acts \in Nat /\ 1..acts \subseteq 1..(acts + 1) /\ acts + 1 \in 1..(acts + 1)
    BY SplitTypes DEF TaskTypes
  <2>. QED BY <2>0, <2>1 DEF OwedInv
<1>6. ASSUME NEW c \in Conns, Welcome(c) PROVE Goal
  BY <1>6, SplitTypes DEF Welcome, Shut, Command, OwedInv, TaskTypes, RoomTypes
<1>7. ASSUME BroadcastOp PROVE Goal
  <2>0. PICK S \in SUBSET peers : Sent(S)
    BY <1>7, OpSent
  <2>. USE <2>0 DEF Sent
  <2>1. acts \in Nat /\ 1..acts \subseteq 1..(acts + 1) /\ acts + 1 \in 1..(acts + 1)
    BY SplitTypes DEF TaskTypes
  <2>. QED BY <2>0, <2>1 DEF OwedInv
<1>8. ASSUME BroadcastBeat PROVE Goal
  BY <1>8, SplitTypes, BeatKeeps DEF BroadcastBeat, Broadcast, OwedInv, TaskTypes, RoomTypes
<1>9. ASSUME Finish PROVE Goal
  BY <1>9, SplitTypes, TellKeeps DEF Finish, OwedInv, TaskTypes, RoomTypes
<1>10. ASSUME NEW m \in Members, Kick(m) PROVE Goal
  BY <1>10, SplitTypes DEF Kick, Becomes, Command, OwedInv, TaskTypes, RoomTypes
<1>11. CASE UNCHANGED vars
  BY <1>11, SplitTypes DEF vars, claimVars, roomVars, OwedInv, TaskTypes, RoomTypes
<1>. QED
  BY <1>1, <1>2, <1>3, <1>4, <1>5, <1>6, <1>7, <1>8, <1>9, <1>10, <1>11, SplitTypes DEF Next,
      TaskStep, Dial, Shut, Drop, Break, WriterEnds, Hello, Goes, Claim, claimVars, roomVars,
      OwedInv, TaskTypes, RoomTypes

LEMMA Shrinking ==
  ASSUME TypeOK, RosterHolds, peers' \subseteq peers, UNCHANGED member
  PROVE  RosterHolds'
<1>1. Cardinality(peers') <= Cardinality(peers) /\ Cardinality(peers') \in Nat /\ Cardinality(peers) \in Nat
  BY RosterFinite, FS_Subset, FS_CardinalityType DEF TypeOK
<1>. QED BY <1>1, RoomAssumption DEF RosterHolds

(* The roster's limits *)
LEMMA RosterHoldsNext ==
  ASSUME TypeOK, RosterInv, MintInv, RosterHolds, [Next]_vars PROVE RosterHolds'
<1> DEFINE Goal == RosterHolds'
<1>. USE RoomAssumption
<1>1. ASSUME NEW c \in Conns, Claim(c) PROVE Goal
  <2>1. PICK m \in Members : ClaimedBy(c, m)
    BY <1>1, ClaimFacts
  <2>. USE DEF ClaimedBy
  <2>2. task[c] = "claim" /\ task' = [task EXCEPT ![c] = IF line[c] = "closed" THEN "done"
      ELSE "register"]
    BY <1>1 DEF Claim, Goes
  <2>3. UNCHANGED roomVars /\ UNCHANGED owner
    BY <1>1 DEF Claim, Goes
  <2>4. m # Nobody
    BY <2>1, SplitTypes DEF ClaimTypes, Members, Nobody
  <2>5. c \notin peers
    BY <2>2 DEF RosterInv, InInv
  <2>6. UNCHANGED peers
    BY <2>3 DEF roomVars
  <2>7. \A p \in peers : member'[p] = member[p]
    BY <2>1, <2>5, SplitTypes DEF ClaimTypes, RoomTypes
  <2>. QED BY <2>6, <2>7 DEF RosterHolds
<1>2. ASSUME NEW c \in Conns, Register(c) PROVE Goal
  <2>1. UNCHANGED member
    BY <1>2 DEF Register, Goes, Becomes, Ousted, claimVars
  <2> DEFINE left == peers \ Ousted(c)
  <2>2. left \in SUBSET Conns /\ \A p \in left : member[p] # member[c]
    BY SplitTypes DEF RoomTypes, Ousted
  <2>3. CASE Cardinality(left) < MaxPeers /\ peers' = left \union {c}
    <3>1. Cardinality(left \union {c}) <= Cardinality(left) + 1 /\ Cardinality(left) \in Nat
          /\ Cardinality(left \union {c}) \in Nat
      BY <2>2, RosterFinite, FS_AddElement
    <3>2. Cardinality(peers') <= MaxPeers
      <4>. HIDE DEF left
      <4>. QED BY <2>3, <3>1
    <3>3. \A p, q \in peers' : member[p] = member[q] => p = q
      BY <2>2, <2>3 DEF RosterHolds
    <3>. QED BY <2>1, <3>2, <3>3 DEF RosterHolds
  <2>4. CASE peers' = left
    BY <2>1, <2>4, Shrinking
  <2>. QED BY <1>2, <2>3, <2>4 DEF Register, Becomes
<1>3. ASSUME NEW c \in Conns, Tell(c) PROVE Goal
  <2>1. peers' \subseteq peers /\ UNCHANGED member
    BY <1>3, TellKeeps DEF Tell, Goes, claimVars
  <2>. QED BY <2>1, Shrinking
<1>4. ASSUME NEW c \in Conns, Goodbye(c) PROVE Goal
  <2>1. peers' \subseteq peers /\ UNCHANGED member
    BY <1>4 DEF Goodbye, Goes, Becomes, claimVars
  <2>. QED BY <2>1, Shrinking
<1>5. ASSUME NEW c \in Conns, Relay(c) PROVE Goal
  <2>0. PICK S \in SUBSET peers : Sent(S)
    BY <1>5, OpSent
  <2>. USE <2>0 DEF Sent
  <2>1. peers' \subseteq peers /\ UNCHANGED member
    BY <2>0 DEF claimVars
  <2>. QED BY <2>1, Shrinking
<1>6. ASSUME BroadcastOp PROVE Goal
  <2>0. PICK S \in SUBSET peers : Sent(S)
    BY <1>6, OpSent
  <2>. USE <2>0 DEF Sent
  <2>1. peers' \subseteq peers /\ UNCHANGED member
    BY <2>0 DEF claimVars
  <2>. QED BY <2>1, Shrinking
<1>7. ASSUME BroadcastBeat PROVE Goal
  <2>1. peers' \subseteq peers /\ UNCHANGED member
    BY <1>7, BeatKeeps DEF BroadcastBeat, Broadcast, claimVars
  <2>. QED BY <2>1, Shrinking
<1>8. ASSUME Finish PROVE Goal
  <2>1. peers' \subseteq peers /\ UNCHANGED member
    BY <1>8, TellKeeps DEF Finish, claimVars
  <2>. QED BY <2>1, Shrinking
<1>9. ASSUME NEW m \in Members, Kick(m) PROVE Goal
  <2>1. peers' \subseteq peers /\ UNCHANGED member
    BY <1>9 DEF Kick, Becomes, Command, claimVars
  <2>. QED BY <2>1, Shrinking
<1>10. CASE UNCHANGED vars
  BY <1>10, SplitTypes DEF vars, claimVars, roomVars, RosterHolds
<1>. QED
  BY <1>1, <1>2, <1>3, <1>4, <1>5, <1>6, <1>7, <1>8, <1>9, <1>10, SplitTypes DEF Next, TaskStep,
      Dial, Shut, Drop, Break, Read, WriterEnds, Hello, Goes, Welcome, Command, claimVars,
      roomVars, RosterHolds

(* A queue that gains lines that are no operation. *)
LEMMA MirrorsAppend ==
  ASSUME NEW q \in Seq(Messages), NEW o, Mirrors(q, o), NEW m \in Messages, m.t # "op"
  PROVE  Mirrors(Append(q, m), o)
<1> DEFINE p == Append(q, m)
<1>1. p \in Seq(Messages) /\ DOMAIN q = 1..Len(q) /\ Len(q) \in Nat
  OBVIOUS
<1>2. DOMAIN p = 1..Len(q) + 1 /\ \A i \in 1..Len(q) : p[i] = q[i]
  OBVIOUS
<1>3. p[Len(q) + 1] = m
  OBVIOUS
<1>. HIDE DEF p
<1>4. \A i \in DOMAIN p \ DOMAIN q : p[i].t # "op"
  BY <1>1, <1>2, <1>3
<1>5. DOMAIN q \subseteq DOMAIN p /\ \A i \in DOMAIN q : p[i] = q[i]
  BY <1>1, <1>2
<1>6. Mirrors(p, o)
  BY <1>1, <1>4, <1>5, MirrorsOther
<1>. QED BY <1>6 DEF p

LEMMA MirrorsLists ==
  ASSUME NEW q \in Seq(Messages), NEW o, Mirrors(q, o), NEW l \in Seq({PeerList})
  PROVE  Mirrors(q \o l, o)
<1> DEFINE p == q \o l
<1>1. l \in Seq(Messages)
  BY MessagesTyped
<1>2. p \in Seq(Messages) /\ DOMAIN q = 1..Len(q) /\ DOMAIN p = 1..Len(q) + Len(l)
      /\ Len(q) \in Nat /\ Len(l) \in Nat
  BY <1>1
<1>3. \A i \in 1..Len(q) : p[i] = q[i]
  OBVIOUS
<1>4. \A i \in 1..Len(l) : p[Len(q) + i] = PeerList
  <2>1. \A i \in 1..Len(l) : l[i] = PeerList
    OBVIOUS
  <2>2. \A i \in 1..Len(l) : p[Len(q) + i] = l[i]
    BY <1>1
  <2>. QED BY <2>1, <2>2
<1>. HIDE DEF p
<1>5. ASSUME NEW i \in DOMAIN p \ DOMAIN q PROVE p[i].t # "op"
  <2>1. i - Len(q) \in 1..Len(l) /\ i = Len(q) + (i - Len(q))
    BY <1>2
  <2>2. p[i] = PeerList
    BY <1>4, <2>1
  <2>. QED BY <2>2 DEF PeerList
<1>6. DOMAIN q \subseteq DOMAIN p /\ \A i \in DOMAIN q : p[i] = q[i]
  BY <1>2, <1>3
<1>7. Mirrors(p, o)
  BY <1>2, <1>5, <1>6, MirrorsOther
<1>. QED BY <1>7 DEF p

LEMMA MirrorsBeat ==
  ASSUME NEW q \in Seq(Messages), NEW o, Mirrors(q, o) PROVE Mirrors(Push(q, Beat), o)
<1>1. Push(q, Beat) \in Seq(Messages)
  BY PushTyped, MessagesTyped
<1> DEFINE p == Push(q, Beat)
<1>2. /\ DOMAIN q \subseteq DOMAIN p
      /\ \A i \in DOMAIN q : p[i] = q[i] \/ (q[i].t = "beat" /\ p[i] = Beat)
      /\ \A i \in DOMAIN p \ DOMAIN q : p[i] = Beat
  BY BeatPushed
<1>3. p \in Seq(Messages)
  BY <1>1
<1>. HIDE DEF p
<1>4. /\ \A i \in DOMAIN q : p[i] = q[i] \/ (q[i].t # "op" /\ p[i].t # "op")
      /\ \A i \in DOMAIN p \ DOMAIN q : p[i].t # "op"
  BY <1>2 DEF Beat
<1>5. Mirrors(p, o)
  BY <1>2, <1>3, <1>4, MirrorsOther
<1>. QED BY <1>5 DEF p

(* No operation is skipped *)
LEMMA NoHolesNext ==
  ASSUME TypeOK, RosterInv, OwedInv, NoHoles, [Next]_vars PROVE NoHoles'
<1> DEFINE Goal == NoHoles'
<1>. USE RoomAssumption
<1>1. ASSUME NEW c \in Conns, Read(c) PROVE Goal
  <2>. SUFFICES ASSUME NEW d \in peers' \ ended' PROVE Mirrors(queue'[d], owed'[d])
    BY DEF NoHoles
  <2>1. d \in peers \ ended /\ d \in Conns
    BY <1>1, SplitTypes DEF Read, RoomTypes
  <2>8. d \in Conns /\ queue[d] \in Seq(Messages) /\ owed[d] \subseteq 1..MaxActs
    BY <2>1, SplitTypes DEF QueueTypes, RoomTypes
  <2>2. Mirrors(queue[d], owed[d])
    BY <2>1 DEF NoHoles
  <2>3. CASE d = c
    <3>1. /\ queue[c] # <<>> /\ queue'[c] = Tail(queue[c])
          /\ owed'[c] = IF Head(queue[c]).t = "op" THEN owed[c] \ {Head(queue[c]).n}
                ELSE owed[c]
      BY <1>1, <2>1, SplitTypes DEF Read, RoomTypes, QueueTypes
    <3>. QED BY <2>2, <2>3, <2>8, <3>1, MirrorsRead
  <2>4. CASE d # c
    <3>1. queue'[d] = queue[d] /\ owed'[d] = owed[d]
      BY <1>1, <2>1, <2>4, SplitTypes DEF Read, RoomTypes, QueueTypes
    <3>. QED BY <2>2, <3>1
  <2>. QED BY <2>3, <2>4
<1>2. ASSUME NEW c \in Conns, WriterEnds(c) PROVE Goal
  <2>. SUFFICES ASSUME NEW d \in peers' \ ended' PROVE Mirrors(queue'[d], owed'[d])
    BY DEF NoHoles
  <2>1. d \in peers \ ended /\ queue'[d] = queue[d] /\ owed'[d] = owed[d]
    BY <1>2, SplitTypes DEF WriterEnds, RoomTypes, QueueTypes
  <2>. QED BY <2>1 DEF NoHoles
<1>3. ASSUME NEW c \in Conns, Register(c) PROVE Goal
  <2>. SUFFICES ASSUME NEW d \in peers' \ ended' PROVE Mirrors(queue'[d], owed'[d])
    BY DEF NoHoles
  <2>1. queue'[d] = queue[d] /\ owed'[d] = owed[d] /\ d \in Conns /\ (d = c \/ d \in peers \ ended)
    BY <1>3, SplitTypes DEF Register, Goes, Becomes, Ousted, RoomTypes, QueueTypes
  <2>2. CASE d = c
    <3>1. c \notin peers
      BY <1>3 DEF Register, Goes, Becomes, Ousted, RosterInv, InInv
    <3>2. queue[c] = <<>> /\ owed[c] = {}
      BY <3>1 DEF RosterInv, OutInv
    <3>3. Mirrors(<<>>, {})
      BY DEF Mirrors
    <3>. QED BY <2>1, <2>2, <3>2, <3>3
  <2>3. CASE d \in peers \ ended
    BY <2>1, <2>3 DEF NoHoles
  <2>. QED BY <2>1, <2>2, <2>3
<1>4. ASSUME NEW c \in Conns, Tell(c) PROVE Goal
  <2>. SUFFICES ASSUME NEW d \in peers' \ ended' PROVE Mirrors(queue'[d], owed'[d])
    BY DEF NoHoles
  <2>1. d \in peers \ ended /\ queue'[d] = queue[d] \o Lists /\ owed'[d] = owed[d] /\ Lists \in Seq({PeerList})
    BY <1>4, TellKeeps, SplitTypes DEF Tell, Goes, RoomTypes
  <2>8. d \in Conns /\ queue[d] \in Seq(Messages) /\ owed[d] \subseteq 1..MaxActs
    BY <2>1, SplitTypes DEF QueueTypes, RoomTypes
  <2>. QED BY <2>1, <2>8, MirrorsLists DEF NoHoles
<1>5. ASSUME NEW c \in Conns, Goodbye(c) PROVE Goal
  <2>. SUFFICES ASSUME NEW d \in peers' \ ended' PROVE Mirrors(queue'[d], owed'[d])
    BY DEF NoHoles
  <2>1. d \in peers \ ended /\ queue'[d] = queue[d] /\ owed'[d] = owed[d]
    BY <1>5, SplitTypes DEF Goodbye, Goes, Becomes, RoomTypes, QueueTypes
  <2>. QED BY <2>1 DEF NoHoles
<1>6. ASSUME NEW c \in Conns, Relay(c) PROVE Goal
  <2>0. PICK S \in SUBSET peers : Sent(S)
    BY <1>6, OpSent
  <2>. USE <2>0 DEF Sent
  <2>. SUFFICES ASSUME NEW d \in peers' \ ended' PROVE Mirrors(queue'[d], owed'[d])
    BY DEF NoHoles
  <2>1. d \in peers \ ended
    BY <2>0
  <2>8. d \in Conns /\ queue[d] \in Seq(Messages) /\ owed[d] \subseteq 1..MaxActs
    BY <2>1, SplitTypes DEF QueueTypes, RoomTypes
  <2>2. Mirrors(queue[d], owed[d]) /\ owed[d] \in SUBSET (1..acts) /\ acts \in Nat
    BY <2>1, <2>8, SplitTypes DEF NoHoles, OwedInv, TaskTypes
  <2>3. CASE d \in S
    <3>1. queue'[d] = Append(queue[d], Op(acts + 1)) /\ owed'[d] = owed[d] \union {acts + 1}
      BY <2>0, <2>3, <2>8
    <3>. QED BY <2>2, <2>8, <3>1, MirrorsOp
  <2>4. CASE d \notin S
    BY <2>0, <2>2, <2>4, <2>8
  <2>. QED BY <2>3, <2>4
<1>7. ASSUME NEW c \in Conns, Welcome(c) PROVE Goal
  <2>. SUFFICES ASSUME NEW d \in peers' \ ended' PROVE Mirrors(queue'[d], owed'[d])
    BY DEF NoHoles
  <2>1. d \in peers \ ended /\ owed'[d] = owed[d]
    BY <1>7 DEF Welcome, Shut, Command
  <2>8. d \in Conns /\ queue[d] \in Seq(Messages) /\ owed[d] \subseteq 1..MaxActs
    BY <2>1, SplitTypes DEF QueueTypes, RoomTypes
  <2>2. queue'[d] = queue[d] \/ queue'[d] = Push(queue[d], Note(c))
    BY <1>7, <2>8, SplitTypes DEF Welcome, Shut, Command, QueueTypes
  <2>3. Push(queue[d], Note(c)) = Append(queue[d],
      Note(c)) /\ Note(c) \in Messages /\ Note(c).t # "op"
    BY PushAppends, MessagesTyped DEF Note
  <2>4. Mirrors(queue[d], owed[d])
    BY <2>1 DEF NoHoles
  <2>. QED BY <2>1, <2>2, <2>3, <2>4, <2>8, MirrorsAppend
<1>8. ASSUME BroadcastOp PROVE Goal
  <2>0. PICK S \in SUBSET peers : Sent(S)
    BY <1>8, OpSent
  <2>. USE <2>0 DEF Sent
  <2>. SUFFICES ASSUME NEW d \in peers' \ ended' PROVE Mirrors(queue'[d], owed'[d])
    BY DEF NoHoles
  <2>1. d \in peers \ ended
    BY <2>0
  <2>8. d \in Conns /\ queue[d] \in Seq(Messages) /\ owed[d] \subseteq 1..MaxActs
    BY <2>1, SplitTypes DEF QueueTypes, RoomTypes
  <2>2. Mirrors(queue[d], owed[d]) /\ owed[d] \in SUBSET (1..acts) /\ acts \in Nat
    BY <2>1, <2>8, SplitTypes DEF NoHoles, OwedInv, TaskTypes
  <2>3. CASE d \in S
    <3>1. queue'[d] = Append(queue[d], Op(acts + 1)) /\ owed'[d] = owed[d] \union {acts + 1}
      BY <2>0, <2>3, <2>8
    <3>. QED BY <2>2, <2>8, <3>1, MirrorsOp
  <2>4. CASE d \notin S
    BY <2>0, <2>2, <2>4, <2>8
  <2>. QED BY <2>3, <2>4
<1>9. ASSUME BroadcastBeat PROVE Goal
  <2>. SUFFICES ASSUME NEW d \in peers' \ ended' PROVE Mirrors(queue'[d], owed'[d])
    BY DEF NoHoles
  <2>1. d \in peers \ ended /\ queue'[d] = Push(queue[d], Beat) /\ owed'[d] = owed[d]
    BY <1>9, BeatKeeps, SplitTypes DEF BroadcastBeat, Broadcast, RoomTypes
  <2>8. d \in Conns /\ queue[d] \in Seq(Messages) /\ owed[d] \subseteq 1..MaxActs
    BY <2>1, SplitTypes DEF QueueTypes, RoomTypes
  <2>2. Mirrors(queue[d], owed[d])
    BY <2>1 DEF NoHoles
  <2>. QED BY <2>1, <2>2, <2>8, MirrorsBeat
<1>10. ASSUME Finish PROVE Goal
  <2>. SUFFICES ASSUME NEW d \in peers' \ ended' PROVE Mirrors(queue'[d], owed'[d])
    BY DEF NoHoles
  <2>1. d \in peers \ ended /\ queue'[d] = queue[d] \o Lists /\ owed'[d] = owed[d] /\ Lists \in Seq({PeerList})
    BY <1>10, TellKeeps, SplitTypes DEF Finish, RoomTypes
  <2>8. d \in Conns /\ queue[d] \in Seq(Messages) /\ owed[d] \subseteq 1..MaxActs
    BY <2>1, SplitTypes DEF QueueTypes, RoomTypes
  <2>. QED BY <2>1, <2>8, MirrorsLists DEF NoHoles
<1>11. ASSUME NEW m \in Members, Kick(m) PROVE Goal
  <2>. SUFFICES ASSUME NEW d \in peers' \ ended' PROVE Mirrors(queue'[d], owed'[d])
    BY DEF NoHoles
  <2>1. d \in peers \ ended /\ queue'[d] = queue[d] /\ owed'[d] = owed[d]
    BY <1>11, SplitTypes DEF Kick, Becomes, Command, RoomTypes, QueueTypes
  <2>. QED BY <2>1 DEF NoHoles
<1>12. CASE UNCHANGED vars
  BY <1>12, SplitTypes DEF vars, claimVars, roomVars, NoHoles
<1>. QED
  BY <1>1, <1>2, <1>3, <1>4, <1>5, <1>6, <1>7, <1>8, <1>9, <1>10, <1>11, <1>12, SplitTypes
      DEF Next, TaskStep, Dial, Shut, Drop, Break, Hello, Goes, Claim, claimVars, roomVars,
      NoHoles

(* The welcomes of a queue are for d. *)
For(q, d) == \A i \in DOMAIN q : q[i].t = "welcome" => q[i].to = d

LEMMA ForOther ==
  ASSUME NEW q \in Seq(Messages), NEW d, For(q, d)
  PROVE  /\ \A m \in Messages : (m.t = "welcome" => m.to = d) => For(Append(q, m), d)
         /\ \A l \in Seq({PeerList}) : For(q \o l, d)
         /\ For(Push(q, Beat), d) /\ For(<<>>, d) /\ (q # <<>> => For(Tail(q), d))
<1>1. ASSUME NEW m \in Messages, m.t = "welcome" => m.to = d PROVE For(Append(q, m), d)
  BY <1>1 DEF For
<1>2. ASSUME NEW l \in Seq({PeerList}) PROVE For(q \o l, d)
  <2>1. l \in Seq(Messages) /\ DOMAIN q = 1..Len(q) /\ Len(q) \in Nat /\ Len(l) \in Nat
    BY MessagesTyped
  <2>2. DOMAIN (q \o l) = 1..Len(q) + Len(l)
    BY <2>1
  <2>3. \A i \in 1..Len(q) : (q \o l)[i] = q[i]
    BY <2>1
  <2>4. ASSUME NEW i \in 1..Len(q) + Len(l), i \notin 1..Len(q) PROVE (q \o l)[i] = PeerList
    <3>1. i - Len(q) \in 1..Len(l) /\ (q \o l)[i] = l[i - Len(q)]
      BY <2>1, <2>4
    <3>. QED BY <3>1
  <2> DEFINE p == q \o l
  <2>. HIDE DEF p
  <2>5. For(p, d)
    BY <2>1, <2>2, <2>3, <2>4 DEF For, PeerList, p
  <2>. QED BY <2>5 DEF p
<1>3. For(Push(q, Beat), d)
  BY BeatPushed DEF For, Beat
<1>4. For(<<>>, d)
  BY DEF For
<1>5. ASSUME q # <<>> PROVE For(Tail(q), d)
  BY <1>5 DEF For
<1>. QED BY <1>1, <1>2, <1>3, <1>4, <1>5

(* Welcomes *)
LEMMA WelcomesNext ==
  ASSUME TypeOK, RosterInv, PairInv, WelcomesFindTheirGuest, [Next]_vars
      PROVE WelcomesFindTheirGuest'
<1> DEFINE Goal == WelcomesFindTheirGuest'
<1>. USE RoomAssumption
<1>1. ASSUME NEW c \in Conns, Read(c) PROVE Goal
  <2>. SUFFICES ASSUME NEW d \in Conns PROVE For(queue'[d], d)
    BY DEF WelcomesFindTheirGuest, For
  <2>8. queue[d] \in Seq(Messages) /\ For(queue[d], d)
    BY SplitTypes DEF QueueTypes, WelcomesFindTheirGuest, For
  <2>1. queue'[d] = queue[d] \/ (queue[d] # <<>> /\ queue'[d] = Tail(queue[d]))
    BY <1>1, SplitTypes DEF Read, QueueTypes
  <2>. QED BY <2>1, <2>8, ForOther
<1>2. ASSUME NEW c \in Conns, WriterEnds(c) PROVE Goal
  <2>. SUFFICES ASSUME NEW d \in Conns PROVE For(queue'[d], d)
    BY DEF WelcomesFindTheirGuest, For
  <2>8. queue[d] \in Seq(Messages) /\ For(queue[d], d)
    BY SplitTypes DEF QueueTypes, WelcomesFindTheirGuest, For
  <2>1. queue'[d] \in {queue[d], <<>>}
    BY <1>2, SplitTypes DEF WriterEnds, RoomTypes, QueueTypes
  <2>. QED BY <2>1, <2>8, ForOther
<1>3. ASSUME NEW c \in Conns, Register(c) PROVE Goal
  <2>. SUFFICES ASSUME NEW d \in Conns PROVE For(queue'[d], d)
    BY DEF WelcomesFindTheirGuest, For
  <2>8. queue[d] \in Seq(Messages) /\ For(queue[d], d)
    BY SplitTypes DEF QueueTypes, WelcomesFindTheirGuest, For
  <2>1. queue'[d] \in {queue[d], <<>>}
    BY <1>3, SplitTypes DEF Register, Goes, Becomes, Ousted, RoomTypes, QueueTypes
  <2>. QED BY <2>1, <2>8, ForOther
<1>4. ASSUME NEW c \in Conns, Tell(c) PROVE Goal
  <2>. SUFFICES ASSUME NEW d \in Conns PROVE For(queue'[d], d)
    BY DEF WelcomesFindTheirGuest, For
  <2>8. queue[d] \in Seq(Messages) /\ For(queue[d], d)
    BY SplitTypes DEF QueueTypes, WelcomesFindTheirGuest, For
  <2>1. (queue'[d] = queue[d] \o Lists \/ queue'[d] = <<>>) /\ Lists \in Seq({PeerList})
    BY <1>4, TellKeeps DEF Tell, Goes
  <2>. QED BY <2>1, <2>8, ForOther
<1>5. ASSUME NEW c \in Conns, Goodbye(c) PROVE Goal
  <2>. SUFFICES ASSUME NEW d \in Conns PROVE For(queue'[d], d)
    BY DEF WelcomesFindTheirGuest, For
  <2>8. queue[d] \in Seq(Messages) /\ For(queue[d], d)
    BY SplitTypes DEF QueueTypes, WelcomesFindTheirGuest, For
  <2>1. queue'[d] \in {queue[d], <<>>}
    BY <1>5, SplitTypes DEF Goodbye, Goes, Becomes, RoomTypes, QueueTypes
  <2>. QED BY <2>1, <2>8, ForOther
<1>6. ASSUME NEW c \in Conns, Relay(c) PROVE Goal
  <2>0. PICK S \in SUBSET peers : Sent(S)
    BY <1>6, OpSent
  <2>. USE <2>0 DEF Sent
  <2>. SUFFICES ASSUME NEW d \in Conns PROVE For(queue'[d], d)
    BY DEF WelcomesFindTheirGuest, For
  <2>8. queue[d] \in Seq(Messages) /\ For(queue[d], d)
    BY SplitTypes DEF QueueTypes, WelcomesFindTheirGuest, For
  <2>1. queue'[d] \in {queue[d], <<>>, Append(queue[d], Op(acts + 1))}
    BY <2>0
  <2>2. Op(acts + 1) \in Messages /\ Op(acts + 1).t # "welcome"
    BY <2>0, MessagesTyped, SplitTypes DEF Op, TaskTypes
  <2>. QED BY <2>1, <2>2, <2>8, ForOther
<1>7. ASSUME NEW c \in Conns, Welcome(c) PROVE Goal
  <2>. SUFFICES ASSUME NEW d \in Conns PROVE For(queue'[d], d)
    BY DEF WelcomesFindTheirGuest, For
  <2>8. queue[d] \in Seq(Messages) /\ For(queue[d], d)
    BY SplitTypes DEF QueueTypes, WelcomesFindTheirGuest, For
  <2>1. queue'[d] = queue[d] \/ (queue'[d] = Push(queue[d], Note(c)) /\ Addressed(c, d))
    BY <1>7, <2>8, SplitTypes DEF Welcome, Shut, Command, QueueTypes
  <2>2. Push(queue[d], Note(c)) = Append(queue[d], Note(c)) /\ Note(c) \in Messages
        /\ Note(c).t = "welcome" /\ Note(c).to = c
    BY PushAppends, MessagesTyped DEF Note
  <2>3. Addressed(c, d) => d = c
    BY <1>7 DEF Welcome, Shut, Command, PairInv, Addressed
  <2>. QED BY <2>1, <2>2, <2>3, <2>8, ForOther
<1>8. ASSUME BroadcastOp PROVE Goal
  <2>0. PICK S \in SUBSET peers : Sent(S)
    BY <1>8, OpSent
  <2>. USE <2>0 DEF Sent
  <2>. SUFFICES ASSUME NEW d \in Conns PROVE For(queue'[d], d)
    BY DEF WelcomesFindTheirGuest, For
  <2>8. queue[d] \in Seq(Messages) /\ For(queue[d], d)
    BY SplitTypes DEF QueueTypes, WelcomesFindTheirGuest, For
  <2>1. queue'[d] \in {queue[d], <<>>, Append(queue[d], Op(acts + 1))}
    BY <2>0
  <2>2. Op(acts + 1) \in Messages /\ Op(acts + 1).t # "welcome"
    BY <2>0, MessagesTyped, SplitTypes DEF Op, TaskTypes
  <2>. QED BY <2>1, <2>2, <2>8, ForOther
<1>9. ASSUME BroadcastBeat PROVE Goal
  <2>. SUFFICES ASSUME NEW d \in Conns PROVE For(queue'[d], d)
    BY DEF WelcomesFindTheirGuest, For
  <2>8. queue[d] \in Seq(Messages) /\ For(queue[d], d)
    BY SplitTypes DEF QueueTypes, WelcomesFindTheirGuest, For
  <2>1. queue'[d] \in {<<>>, Push(queue[d], Beat)}
    BY <1>9, BeatKeeps DEF BroadcastBeat, Broadcast
  <2>. QED BY <2>1, <2>8, ForOther
<1>10. ASSUME Finish PROVE Goal
  <2>. SUFFICES ASSUME NEW d \in Conns PROVE For(queue'[d], d)
    BY DEF WelcomesFindTheirGuest, For
  <2>8. queue[d] \in Seq(Messages) /\ For(queue[d], d)
    BY SplitTypes DEF QueueTypes, WelcomesFindTheirGuest, For
  <2>1. (queue'[d] = queue[d] \o Lists \/ queue'[d] = <<>>) /\ Lists \in Seq({PeerList})
    BY <1>10, TellKeeps DEF Finish
  <2>. QED BY <2>1, <2>8, ForOther
<1>11. ASSUME NEW m \in Members, Kick(m) PROVE Goal
  <2>. SUFFICES ASSUME NEW d \in Conns PROVE For(queue'[d], d)
    BY DEF WelcomesFindTheirGuest, For
  <2>8. queue[d] \in Seq(Messages) /\ For(queue[d], d)
    BY SplitTypes DEF QueueTypes, WelcomesFindTheirGuest, For
  <2>1. queue'[d] \in {queue[d], <<>>}
    BY <1>11, SplitTypes DEF Kick, Becomes, Command, RoomTypes, QueueTypes
  <2>. QED BY <2>1, <2>8, ForOther
<1>12. CASE UNCHANGED vars
  BY <1>12, SplitTypes DEF vars, claimVars, roomVars, WelcomesFindTheirGuest
<1>. QED
  BY <1>1, <1>2, <1>3, <1>4, <1>5, <1>6, <1>7, <1>8, <1>9, <1>10, <1>11, <1>12, SplitTypes
      DEF Next, TaskStep, Dial, Shut, Drop, Break, Hello, Goes, Claim, claimVars, roomVars,
      WelcomesFindTheirGuest

(* Lists *)
LEMMA ListInvNext ==
  ASSUME TypeOK, RosterInv, RosterHolds, ListInv, [Next]_vars PROVE ListInv'
<1> DEFINE Goal == ListInv'
<1>. USE RoomAssumption
<1>1. ASSUME NEW g \in Guests, Dial(g) PROVE Goal
  <2>. SUFFICES ASSUME ~Telling' PROVE \A d \in peers' : told'[d] = peers'
    BY DEF ListInv
  <2>1. peers' = peers /\ told' = told /\ calling' = calling
    BY <1>1 DEF Dial, Shut
  <2>2. Len(owner) + 1 \in Conns /\ task[Len(owner) + 1] = "idle"
    BY <1>1, SplitTypes DEF Dial, Shut, TaskTypes, Conns, RosterInv, StageInv
  <2>3. \A d \in Conns : d # Len(owner) + 1 => task'[d] = task[d] /\ line'[d] = line[d]
    BY <1>1, SplitTypes DEF Dial, Shut, TaskTypes
  <2>4. ~Telling
    BY <2>1, <2>2, <2>3 DEF Telling
  <2>. QED BY <2>1, <2>4 DEF ListInv
<1>2. ASSUME NEW c \in Conns, Drop(c) PROVE Goal
  <2>. SUFFICES ASSUME ~Telling' PROVE \A d \in peers' : told'[d] = peers'
    BY DEF ListInv
  <2>1. peers' = peers /\ told' = told /\ calling' = calling
    BY <1>2 DEF Drop, roomVars
  <2>2. \A d \in Conns : (task[d] \in {"tell", "tellgone", "reading"} => task'[d] = task[d])
                         /\ (line[d] = "closed" => line'[d] = "closed")
    BY <1>2, SplitTypes DEF Drop, TaskTypes, Conns, RosterInv, StageInv, roomVars
  <2>3. ~Telling
    BY <2>1, <2>2 DEF Telling
  <2>. QED BY <2>1, <2>3 DEF ListInv
<1>3. ASSUME NEW c \in Conns, Break(c) PROVE Goal
  <2>. SUFFICES ASSUME ~Telling' PROVE \A d \in peers' : told'[d] = peers'
    BY DEF ListInv
  <2>1. peers' = peers /\ told' = told /\ calling' = calling
    BY <1>3 DEF Break, Shut, roomVars
  <2>2. \A d \in Conns : (task[d] \in {"tell", "tellgone", "reading"} => task'[d] = task[d])
                         /\ (line[d] = "closed" => line'[d] = "closed")
    BY <1>3, SplitTypes DEF Break, Shut, TaskTypes, Conns, RosterInv, StageInv, roomVars
  <2>3. ~Telling
    BY <2>1, <2>2 DEF Telling
  <2>. QED BY <2>1, <2>3 DEF ListInv
<1>4. ASSUME NEW c \in Conns, Hello(c) PROVE Goal
  <2>. SUFFICES ASSUME ~Telling' PROVE \A d \in peers' : told'[d] = peers'
    BY DEF ListInv
  <2>1. peers' = peers /\ told' = told /\ calling' = calling
    BY <1>4 DEF Hello, Goes, Shut, roomVars
  <2>2. \A d \in Conns : (task[d] \in {"tell", "tellgone", "reading"} => task'[d] = task[d])
                         /\ (line[d] = "closed" => line'[d] = "closed")
    BY <1>4, SplitTypes DEF Hello, Goes, Shut, TaskTypes, Conns, RosterInv, StageInv, roomVars
  <2>3. ~Telling
    BY <2>1, <2>2 DEF Telling
  <2>. QED BY <2>1, <2>3 DEF ListInv
<1>5. ASSUME NEW c \in Conns, Claim(c) PROVE Goal
  <2>. SUFFICES ASSUME ~Telling' PROVE \A d \in peers' : told'[d] = peers'
    BY DEF ListInv
  <2>1. peers' = peers /\ told' = told /\ calling' = calling
    BY <1>5 DEF Claim, Goes, roomVars
  <2>2. \A d \in Conns : (task[d] \in {"tell", "tellgone", "reading"} => task'[d] = task[d])
                         /\ (line[d] = "closed" => line'[d] = "closed")
    BY <1>5, SplitTypes DEF Claim, Goes, TaskTypes, Conns, RosterInv, StageInv, roomVars
  <2>3. ~Telling
    BY <2>1, <2>2 DEF Telling
  <2>. QED BY <2>1, <2>3 DEF ListInv
<1>6. ASSUME NEW c \in Conns, Register(c) PROVE Goal
  <2>1. CASE task'[c] = "tell"
    BY <2>1 DEF ListInv, Telling
  <2>2. CASE task'[c] # "tell"
    <3>1. /\ Cardinality(peers \ Ousted(c)) >= MaxPeers /\ task[c] = "register" /\ task' = [task EXCEPT ![c] = "done"]
          /\ Becomes(peers \ Ousted(c), Ousted(c) \union {c}, queue, owed, told)
      BY <1>6, <2>2, SplitTypes DEF Register, Goes, TaskTypes
    <3>2. Ousted(c) = {}
      <4>. SUFFICES ASSUME NEW p \in Ousted(c) PROVE FALSE
        OBVIOUS
      <4>1. p \in peers /\ peers \in SUBSET Conns /\ peers \ Ousted(c) \subseteq peers \ {p}
        BY SplitTypes DEF Ousted, RoomTypes
      <4>2. Cardinality(peers \ {p}) = Cardinality(peers) - 1 /\ Cardinality(peers) \in Nat
        BY <4>1, RosterFinite, FS_RemoveElement
      <4>3. Cardinality(peers \ Ousted(c)) <= Cardinality(peers \ {p})
        BY <4>1, RosterFinite, FS_Subset
      <4>4. Cardinality(peers \ Ousted(c)) \in Nat
        BY <4>1, RosterFinite
      <4>. QED BY <3>1, <4>2, <4>3, <4>4, RoomAssumption DEF RosterHolds
    <3>3. peers' = peers /\ \A d \in Conns : (line[d] = "closed" => line'[d] = "closed") /\ (d \in peers => told'[d] = told[d])
      BY <3>1, <3>2, SplitTypes DEF Becomes, RoomTypes
    <3>4. \A d \in Conns : d # c => task'[d] = task[d]
      BY <3>1, SplitTypes DEF TaskTypes
    <3>5. calling' = calling
      BY <1>6 DEF Register
    <3>6. Telling => Telling'
      BY <3>1, <3>3, <3>4, <3>5 DEF Telling
    <3>. QED BY <3>3, <3>6, SplitTypes DEF ListInv, RoomTypes
  <2>. QED BY <2>1, <2>2
<1>7. ASSUME NEW c \in Conns, Tell(c) PROVE Goal
  <2>1. \A d \in peers' : told'[d] = peers'
    BY <1>7, TellKeeps, SplitTypes DEF Tell, Goes, RoomTypes
  <2>. QED BY <2>1 DEF ListInv
<1>8. ASSUME NEW c \in Conns, Goodbye(c) PROVE Goal
  <2>1. task'[c] = "tellgone"
    BY <1>8, SplitTypes DEF Goodbye, Goes, Becomes, TaskTypes
  <2>. QED BY <2>1 DEF ListInv, Telling
<1>9. ASSUME NEW c \in Conns, Relay(c) PROVE Goal
  <2>0. PICK S \in SUBSET peers : Sent(S)
    BY <1>9, OpSent
  <2>. USE <2>0 DEF Sent
  <2>. SUFFICES ASSUME ~Telling' PROVE \A d \in peers' : told'[d] = peers'
    BY DEF ListInv
  <2>1. Dropped(S, Op(acts + 1)) = {}
    <3>. SUFFICES ASSUME NEW d \in Dropped(S, Op(acts + 1)) PROVE FALSE
      OBVIOUS
    <3>1. d \in peers /\ d \in Conns /\ task[d] \in {"tell", "reading"}
      BY SplitTypes DEF Dropped, RoomTypes, RosterInv, InInv
    <3>2. line'[d] = "closed" /\ task' = task
      BY <2>0, <3>1
    <3>. QED BY <3>1, <3>2 DEF Telling
  <2>2. peers' = peers /\ \A d \in Conns : line'[d] = line[d] /\ (d \in peers => told'[d] = told[d])
    BY <2>0, <2>1, SplitTypes DEF RoomTypes
  <2>3. calling => calling'
    BY <1>9, <2>0 DEF Relay
  <2>4. ~Telling
    BY <2>0, <2>2, <2>3 DEF Telling
  <2>. QED BY <2>2, <2>4, SplitTypes DEF ListInv, RoomTypes
<1>10. ASSUME NEW c \in Conns, Welcome(c) PROVE Goal
  <2>. SUFFICES ASSUME ~Telling' PROVE \A d \in peers' : told'[d] = peers'
    BY DEF ListInv
  <2>1. peers' = peers /\ told' = told /\ calling' = calling
    BY <1>10 DEF Welcome, Shut, Command, roomVars
  <2>2. \A d \in Conns : (task[d] \in {"tell", "tellgone", "reading"} => task'[d] = task[d])
                         /\ (line[d] = "closed" => line'[d] = "closed")
    BY <1>10, SplitTypes DEF Welcome, Shut, Command, TaskTypes, Conns, RosterInv, StageInv,
        roomVars
  <2>3. ~Telling
    BY <2>1, <2>2 DEF Telling
  <2>. QED BY <2>1, <2>3 DEF ListInv
<1>11. ASSUME BroadcastOp PROVE Goal
  <2>0. PICK S \in SUBSET peers : Sent(S)
    BY <1>11, OpSent
  <2>. USE <2>0 DEF Sent
  <2>. SUFFICES ASSUME ~Telling' PROVE \A d \in peers' : told'[d] = peers'
    BY DEF ListInv
  <2>1. Dropped(S, Op(acts + 1)) = {}
    <3>. SUFFICES ASSUME NEW d \in Dropped(S, Op(acts + 1)) PROVE FALSE
      OBVIOUS
    <3>1. d \in peers /\ d \in Conns /\ task[d] \in {"tell", "reading"}
      BY SplitTypes DEF Dropped, RoomTypes, RosterInv, InInv
    <3>2. line'[d] = "closed" /\ task' = task
      BY <2>0, <3>1
    <3>. QED BY <3>1, <3>2 DEF Telling
  <2>2. peers' = peers /\ \A d \in Conns : line'[d] = line[d] /\ (d \in peers => told'[d] = told[d])
    BY <2>0, <2>1, SplitTypes DEF RoomTypes
  <2>3. calling => calling'
    BY <1>11, <2>0 DEF BroadcastOp, Broadcast, Command
  <2>4. ~Telling
    BY <2>0, <2>2, <2>3 DEF Telling
  <2>. QED BY <2>2, <2>4, SplitTypes DEF ListInv, RoomTypes
<1>12. ASSUME BroadcastBeat PROVE Goal
  <2>. SUFFICES ASSUME ~Telling' PROVE \A d \in peers' : told'[d] = peers'
    BY DEF ListInv
  <2>1. Dropped(peers, Beat) = {}
    BY <1>12 DEF BroadcastBeat, Broadcast, Telling
  <2>2. peers' = peers /\ \A d \in Conns : line'[d] = line[d] /\ (d \in peers => told'[d] = told[d])
    BY <1>12, <2>1, BeatKeeps, SplitTypes DEF BroadcastBeat, Broadcast, RoomTypes
  <2>3. ~Telling /\ task' = task
    BY <1>12, <2>2 DEF BroadcastBeat, Broadcast, Telling
  <2>. QED BY <2>2, <2>3, SplitTypes DEF ListInv, RoomTypes
<1>13. ASSUME Finish PROVE Goal
  <2>1. \A d \in peers' : told'[d] = peers'
    BY <1>13, TellKeeps, SplitTypes DEF Finish, RoomTypes
  <2>. QED BY <2>1 DEF ListInv
<1>14. ASSUME NEW m \in Members, Kick(m) PROVE Goal
  <2>. QED BY <1>14 DEF Kick, Becomes, Command, ListInv, Telling
<1>15. CASE UNCHANGED vars
  BY <1>15, SplitTypes DEF vars, claimVars, roomVars, ListInv, Telling
<1>. QED
  BY <1>1, <1>2, <1>3, <1>4, <1>5, <1>6, <1>7, <1>8, <1>9, <1>10, <1>11, <1>12, <1>13, <1>14,
      <1>15, SplitTypes DEF Next, TaskStep, Read, WriterEnds, claimVars, roomVars, ListInv,
      Telling

-----------------------------------------------------------------------------
(* The theorems *)

RoomInv ==
  /\ TypeOK /\ RosterInv /\ MintInv /\ PairInv /\ OwedInv
  /\ RosterHolds /\ NoHoles /\ ListInv /\ WelcomesFindTheirGuest

LEMMA InitRoom == Init => RoomInv
<1>. SUFFICES ASSUME Init PROVE RoomInv
  OBVIOUS
<1>. USE RoomAssumption
<1>1. TypeOK
  <2>1. TaskTypes
    <3>1. owner \in Seq(Guests) /\ Len(owner) <= MaxConns
      BY DEF Init
    <3>2. task \in [Conns -> Stages] /\ line \in [Conns -> {"idle", "up", "lost", "closed"}]
      BY DEF Init, Stages
    <3>3. calling \in BOOLEAN /\ acts \in 0..MaxActs /\ failures \in 0..MaxFailures
      <4>1. calling = FALSE /\ acts = 0 /\ failures = 0
        BY DEF Init
      <4>2. 0 \in 0..MaxActs /\ 0 \in 0..MaxFailures
        OBVIOUS
      <4>. QED BY <4>1, <4>2
    <3>. QED BY <3>1, <3>2, <3>3 DEF TaskTypes
  <2>2. ClaimTypes
    BY DEF Init, ClaimTypes, Nobody
  <2>3. QueueTypes
    BY DEF Init, QueueTypes
  <2>4. RoomTypes
    BY DEF Init, RoomTypes
  <2>. QED BY <2>1, <2>2, <2>3, <2>4, SplitTypes
<1>2. Claimed = {} /\ Cardinality({}) = 0
  BY FS_EmptySet DEF Init, Claimed
<1>3. RosterInv /\ PairInv /\ OwedInv /\ ListInv /\ WelcomesFindTheirGuest
  BY DEF Init, RosterInv, StageInv, InInv, OutInv, PairInv, OwedInv, ListInv,
      WelcomesFindTheirGuest
<1>4. MintInv /\ RosterHolds /\ NoHoles
  BY <1>2 DEF Init, MintInv, RosterHolds, NoHoles
<1>. QED BY <1>1, <1>3, <1>4 DEF RoomInv

LEMMA NextRoom == RoomInv /\ [Next]_vars => RoomInv'
<1>. SUFFICES ASSUME RoomInv, [Next]_vars PROVE RoomInv'
  OBVIOUS
<1>. USE DEF RoomInv
<1>1. TypeOK'
  <2>1. TaskTypes' /\ ClaimTypes' /\ QueueTypes' /\ RoomTypes'
    BY TaskTypesNext, ClaimTypesNext, QueueTypesNext, RoomTypesNext
  <2>. QED BY <2>1 DEF TypeOK, TaskTypes, ClaimTypes, QueueTypes, RoomTypes
<1>2. RosterInv' /\ MintInv' /\ PairInv' /\ OwedInv'
  BY StageInvNext, InInvNext, OutInvNext, MintInvNext, PairInvNext, OwedInvNext DEF RosterInv
<1>3. RosterHolds' /\ NoHoles' /\ ListInv' /\ WelcomesFindTheirGuest'
  BY RosterHoldsNext, NoHolesNext, ListInvNext, WelcomesNext
<1>. QED BY <1>1, <1>2, <1>3

LEMMA RoomInvariant == Spec => []RoomInv
BY InitRoom, NextRoom, PTL DEF Spec

(* Every variable keeps its type (session.rs, HostShared and PeerConn). *)
THEOREM RoomTypeCorrect == Spec => []TypeOK
<1>1. RoomInv => TypeOK
  BY DEF RoomInv
<1>. QED BY <1>1, RoomInvariant, PTL

(* The roster keeps to the room's places and has every member once, whichever
   handshakes overlap (session.rs:1394-1413). *)
THEOREM TheRoomHolds == Spec => []RosterHolds
<1>1. RoomInv => RosterHolds
  BY DEF RoomInv
<1>. QED BY <1>1, RoomInvariant, PTL

(* No guest that stays misses an operation or gets two in the other order,
   whatever else fills its queue (session_outbox.rs:21-34). *)
THEOREM NothingIsSkipped == Spec => []NoHoles
<1>1. RoomInv => NoHoles
  BY DEF RoomInv
<1>. QED BY <1>1, RoomInvariant, PTL

(* Once nobody is left who sends a peer list, every guest's latest one is the
   roster (session.rs:2120-2144). *)
THEOREM ListsAreTrue == Spec => []ListsSettle
<1>1. RoomInv => ListsSettle
  BY DEF RoomInv, ListInv, ListsSettle
<1>. QED BY <1>1, RoomInvariant, PTL

(* A welcome reaches the connection it was made for or none
   (session.rs:1161-1179). *)
THEOREM WelcomesArrive == Spec => []WelcomesFindTheirGuest
<1>1. RoomInv => WelcomesFindTheirGuest
  BY DEF RoomInv
<1>. QED BY <1>1, RoomInvariant, PTL
=============================================================================
