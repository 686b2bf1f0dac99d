----------------------------- MODULE SessionRoom -----------------------------
(***************************************************************************)
(* The host's room: who is in it and what each of them is sent.            *)
(*                                                                         *)
(* Every connection has a task on the host (handle_peer_conn) that greets  *)
(* it, gives it a member id, puts it into the roster, relays its lines and *)
(* takes it out again; a bounded queue with a writer carries what the room *)
(* sends to it.  The tasks share the roster behind a lock they release     *)
(* between steps.  A guest that was cut off dials again while the host may *)
(* still believe in its old connection.                                    *)
(*                                                                         *)
(* A connection stands for its pair (member, epoch) in rosters and peer    *)
(* lists; the host's window may welcome any pair that ever was in the      *)
(* roster, and Welcome looks the pair up again.  One host command is under *)
(* way at a time (calling).  Not modelled: review grants, the presenter    *)
(* and the NDI publication, the substreams, and the end of the room.       *)
(***************************************************************************)
EXTENDS Naturals, FiniteSets, Sequences, FiniteSetsExt

CONSTANTS
  Guests,
  Installs,    \* the guests that send an install id (older builds send none)
  MaxPeers,    \* MAX_PEERS
  MaxPending,  \* MAX_PENDING_HANDSHAKES
  MaxItems,    \* MAX_ITEMS of a connection's queue
  MaxConns,    \* bound: connections dialled
  MaxActs,     \* bound: operations relayed and commands of the host
  MaxFailures  \* bound: lines that fail by themselves or are left

Conns == 1..MaxConns
Members == 1..MaxConns
Nobody == 0     \* no connection, no member

ASSUME RoomAssumption ==
  /\ Installs \subseteq Guests
  /\ MaxPeers \in Nat \ {0} /\ MaxItems \in Nat \ {0}
  /\ MaxPending \in Nat /\ MaxPending > MaxPeers
  /\ MaxConns \in Nat /\ MaxActs \in Nat /\ MaxFailures \in Nat

VARIABLES
  owner,       \* owner[c]: the guest that dialled c, in the order of dialling
  line,        \* line[c]: "idle", "up", "lost" (only the guest knows), "closed"
  task,        \* task[c]: where the host's task for c stands
  member,      \* member[c], epoch[c]: what the task got for c
  epoch,
  queue,       \* queue[c]: control lines that wait for c's writer
  ended,       \* connections of the roster whose writer has stopped
  peers,       \* the roster: the connections that are in it
  installs,    \* installs[g]: the member id this install got
  epochs,      \* epochs[m]: how often member id m was claimed
  minted,      \* member ids given out
  calling,     \* a host command that still has to send the peer list
  owed,        \* owed[c]: operations relayed since c came that it has not read
  told,        \* told[c]: the roster in the latest peer list queued for c
  acts,        \* operations relayed and commands of the host, so far
  failures     \* lines that failed, so far

claimVars == <<member, epoch, installs, epochs, minted>>
roomVars  == <<peers, queue, line, ended, owed, told>>
vars == <<owner, task, claimVars, roomVars, calling, acts, failures>>

-----------------------------------------------------------------------------
(* The queues and the roster *)

Op(n) == [t |-> "op", n |-> n]
PeerList == [t |-> "list"]
Note(c) == [t |-> "welcome", to |-> c]
Beat == [t |-> "beat"]

(* The messages that replace an older one of their kind in a queue. *)
Replaceable(m) == m.t = "beat"
Replaces(m, old) == Replaceable(m) /\ old.t = m.t

(* Mutant: a full queue makes room by dropping its oldest line. *)
PushDroppingOldest(q, m) == Append(IF Len(q) >= MaxItems THEN Tail(q) ELSE q, m)

(* A queue after m: in the place of the line m replaces, or at the end. *)
Push(q, m) ==
  IF \E i \in DOMAIN q : Replaces(m, q[i])
    THEN [i \in DOMAIN q |-> IF Replaces(m, q[i]) THEN m ELSE q[i]]
    ELSE Append(q, m)

Refuses(c, m) == c \in ended \/ Len(Push(queue[c], m)) > MaxItems

(* What the holder of the roster lock leaves behind: stay is the roster, the *)
(* lines of cut are closed, q, o and t are what those who stay have.  Nobody *)
(* reads the queue of a connection that is out of the roster.                *)
Becomes(stay, cut, q, o, t) ==
  LET kept(f, none) == [c \in Conns |-> IF c \in stay THEN f[c] ELSE none] IN
  /\ peers' = stay /\ ended' = ended \intersect stay
  /\ line' = [c \in Conns |-> IF c \in cut THEN "closed" ELSE line[c]]
  /\ queue' = kept(q, <<>>) /\ owed' = kept(o, {}) /\ told' = kept(t, {})

(* m is queued for every one of S; who cannot take it is closed and dropped. *)
Dropped(S, m) == {c \in S : Refuses(c, m)}
Give(S, m, o) ==
  Becomes(peers \ Dropped(S, m), Dropped(S, m),
          [c \in Conns |-> IF c \in S THEN Push(queue[c], m) ELSE queue[c]], o, told)

(* An operation is owed to everybody it is relayed to. *)
Relayed(S, n) ==
  Give(S, Op(n), [c \in Conns |-> IF c \in S THEN owed[c] \union {n} ELSE owed[c]])

(* How many peer lists the queue of c still takes. *)
Places(c) == IF c \in ended THEN 0 ELSE MaxItems - Len(queue[c])

(* broadcast_peer_list: again and again until a pass drops nobody.  Each     *)
(* pass gives one list to all that are left, so pass n drops those that had  *)
(* exactly n - 1 places, and the first n for which there are none is the     *)
(* last.  Who stays has n lists more, and the last of them names who stays.  *)
Passes == Min({n \in 1..MaxItems + 2 : \A c \in peers : Places(c) # n - 1})
Staying == {c \in peers : Places(c) >= Passes}
TellAll ==
  Becomes(Staying, peers \ Staying,
          [c \in Conns |-> queue[c] \o [i \in 1..Passes |-> PeerList]],
          owed, [c \in Conns |-> Staying])

Goes(c, from, to) == task[c] = from /\ task' = [task EXCEPT ![c] = to]
Pending == Cardinality({c \in Conns : task[c] \notin {"idle", "done"}})
Shut(c) == line' = [line EXCEPT ![c] = "closed"]

-----------------------------------------------------------------------------
(* Guests and the network *)

(* session_join: a guest dials, again once its last connection is over for *)
(* it, and says Hello right away.                                           *)
Dial(g) ==
  LET c == Len(owner) + 1 IN
  /\ c \in Conns /\ \A p \in DOMAIN owner : owner[p] = g => line[p] # "up"
  /\ owner' = Append(owner, g)
  /\ IF Pending < MaxPending
       THEN line' = [line EXCEPT ![c] = "up"] /\ task' = [task EXCEPT ![c] = "hello"]
       ELSE Shut(c) /\ task' = [task EXCEPT ![c] = "done"]
  /\ UNCHANGED <<claimVars, peers, queue, ended, owed, told, calling, acts, failures>>

(* The guest leaves, or the line dies or stalls; the host does not know yet. *)
Drop(c) ==
  /\ line[c] = "up" /\ line' = [line EXCEPT ![c] = "lost"]
  /\ failures < MaxFailures /\ failures' = failures + 1
  /\ UNCHANGED <<owner, task, claimVars, peers, queue, ended, owed, told, calling, acts>>

(* Idle timeout, write timeout, or the guest's close arrives. *)
Break(c) ==
  /\ line[c] = "lost" /\ Shut(c)
  /\ UNCHANGED <<owner, task, claimVars, peers, queue, ended, owed, told, calling, acts, failures>>

(* The guest reads one line. *)
Read(c) ==
  LET m == Head(queue[c]) IN
  /\ line[c] = "up" /\ queue[c] # <<>>
  /\ queue' = [queue EXCEPT ![c] = Tail(@)]
  /\ owed' = [owed EXCEPT ![c] = IF m.t = "op" THEN @ \ {m.n} ELSE @]
  /\ UNCHANGED <<owner, task, claimVars, peers, line, ended, told, calling, acts, failures>>

(* The writer notices that its connection is closed and empties the queue. *)
WriterEnds(c) ==
  /\ line[c] = "closed" /\ c \in peers \ ended
  /\ ended' = ended \union {c} /\ queue' = [queue EXCEPT ![c] = <<>>]
  /\ UNCHANGED <<owner, task, claimVars, peers, line, owed, told, calling, acts, failures>>

-----------------------------------------------------------------------------
(* The host's task for one connection, step by step *)

(* Hello is read, then the room must not be full. *)
Hello(c) ==
  /\ \/ line[c] # "closed" /\ Cardinality(peers) < MaxPeers /\ Goes(c, "hello", "claim") /\ UNCHANGED line
     \/ (line[c] = "closed" \/ Cardinality(peers) >= MaxPeers) /\ Goes(c, "hello", "done") /\ Shut(c)
  /\ UNCHANGED <<owner, claimVars, peers, queue, ended, owed, told, calling, acts, failures>>

(* The member id of the install, or a new one, and its next epoch; then the *)
(* Welcome line is written straight to the stream.                          *)
Claim(c) ==
  LET g == owner[c]
      known == g \in Installs /\ installs[g] # Nobody
      m == IF known THEN installs[g] ELSE minted + 1
  IN
  /\ Goes(c, "claim", IF line[c] = "closed" THEN "done" ELSE "register")
  /\ minted' = IF known THEN minted ELSE minted + 1
  /\ installs' = IF g \in Installs THEN [installs EXCEPT ![g] = m] ELSE installs
  /\ epochs' = [epochs EXCEPT ![m] = @ + 1]
  /\ member' = [member EXCEPT ![c] = m] /\ epoch' = [epoch EXCEPT ![c] = epochs[m] + 1]
  /\ UNCHANGED <<owner, roomVars, calling, acts, failures>>

(* The other connections of the member that c claims to be. *)
Ousted(c) == {p \in peers : member[p] = member[c]}

(* Mutant: the places were counted once, before the handshake's awaits. *)
RegisterUnchecked(c) ==
  /\ Goes(c, "register", "tell")
  /\ Becomes((peers \ Ousted(c)) \union {c}, Ousted(c), queue, owed, told)
  /\ UNCHANGED <<owner, claimVars, calling, acts, failures>>

(* Under the roster lock: out with the member's other connections, then in  *)
(* if there is room.                                                        *)
Register(c) ==
  LET left == peers \ Ousted(c) IN
  /\ \/ /\ Cardinality(left) < MaxPeers /\ Goes(c, "register", "tell")
        /\ Becomes(left \union {c}, Ousted(c), queue, owed, told)
     \/ /\ Cardinality(left) >= MaxPeers /\ Goes(c, "register", "done")
        /\ Becomes(left, Ousted(c) \union {c}, queue, owed, told)
  /\ UNCHANGED <<owner, claimVars, calling, acts, failures>>

(* broadcast_peer_list, on the way in and on the way out. *)
Tell(c) ==
  /\ \/ Goes(c, "tell", "reading")
     \/ Goes(c, "tellgone", "done")
  /\ TellAll
  /\ UNCHANGED <<owner, claimVars, calling, acts, failures>>

(* A review operation of c, relayed to everybody else; lines that arrived   *)
(* before the end are still read after it.                                  *)
Relay(c) ==
  /\ task[c] = "reading" /\ acts < MaxActs /\ acts' = acts + 1
  /\ Relayed(peers \ {c}, acts + 1)
  /\ UNCHANGED <<owner, task, claimVars, calling, failures>>

(* Mutant: nobody is told that c left. *)
GoodbyeUntold(c) ==
  /\ line[c] = "closed" /\ Goes(c, "reading", "done")
  /\ Becomes(peers \ {c}, {}, queue, owed, told)
  /\ UNCHANGED <<owner, claimVars, calling, acts, failures>>

(* End of the stream: c leaves the roster. *)
Goodbye(c) ==
  /\ line[c] = "closed" /\ Goes(c, "reading", "tellgone")
  /\ Becomes(peers \ {c}, {}, queue, owed, told)
  /\ UNCHANGED <<owner, claimVars, calling, acts, failures>>

-----------------------------------------------------------------------------
(* The host's own commands *)

Command == acts < MaxActs /\ acts' = acts + 1 /\ UNCHANGED <<owner, task, claimVars, failures>>

(* session_broadcast: whoever could not take the line is dropped, and then  *)
(* the others are told.                                                     *)
Broadcast(m) == ~calling /\ calling' = (Dropped(peers, m) # {})
BroadcastOp == Command /\ Broadcast(Op(acts + 1)) /\ Relayed(peers, acts + 1)
BroadcastBeat ==
  /\ Broadcast(Beat) /\ Give(peers, Beat, owed)
  /\ UNCHANGED <<owner, task, claimVars, acts, failures>>

(* session_kick: the member's connections, if any, are closed and taken out. *)
Kick(m) ==
  LET gone == {p \in peers : member[p] = m} IN
  /\ Command /\ gone # {} /\ ~calling /\ calling' = TRUE
  /\ Becomes(peers \ gone, gone, queue, owed, told)

(* The peer list that both of them send at the end. *)
Finish ==
  /\ calling /\ calling' = FALSE /\ TellAll
  /\ UNCHANGED <<owner, task, claimVars, acts, failures>>

(* session_send_to: the window's welcome for the pair of c goes to the       *)
(* connection that has that pair now, if any; a full queue closes it.       *)

(* Mutant: whoever is the member now gets it. *)
AddressedByMember(c, p) == member[p] = member[c]

Addressed(c, p) == member[p] = member[c] /\ epoch[p] = epoch[c]

Welcome(c) ==
  /\ Command /\ task[c] \in {"tell", "reading", "tellgone", "done"} /\ member[c] # Nobody
  /\ \E p \in peers :
       /\ Addressed(c, p)
       /\ IF Refuses(p, Note(c))
            THEN Shut(p) /\ UNCHANGED queue
            ELSE queue' = [queue EXCEPT ![p] = Push(@, Note(c))] /\ UNCHANGED line
  /\ UNCHANGED <<peers, ended, owed, told, calling>>

-----------------------------------------------------------------------------
Init ==
  /\ owner = <<>>
  /\ line = [c \in Conns |-> "idle"] /\ task = [c \in Conns |-> "idle"]
  /\ member = [c \in Conns |-> Nobody] /\ epoch = [c \in Conns |-> 0]
  /\ queue = [c \in Conns |-> <<>>] /\ ended = {}
  /\ peers = {} /\ installs = [g \in Guests |-> Nobody]
  /\ epochs = [m \in Members |-> 0] /\ minted = 0 /\ calling = FALSE
  /\ owed = [c \in Conns |-> {}] /\ told = [c \in Conns |-> {}]
  /\ acts = 0 /\ failures = 0

TaskStep(c) ==
  \/ Hello(c) \/ Claim(c) \/ Register(c) \/ Tell(c) \/ Goodbye(c)

Next ==
  \/ \E g \in Guests : Dial(g)
  \/ \E c \in Conns : Drop(c) \/ Break(c) \/ Read(c)
  \/ \E c \in Conns : WriterEnds(c) \/ TaskStep(c) \/ Relay(c) \/ Welcome(c)
  \/ BroadcastOp \/ BroadcastBeat \/ Finish
  \/ \E m \in Members : Kick(m)

Spec == Init /\ [][Next]_vars

-----------------------------------------------------------------------------
(* Properties *)

Messages == [t : {"op"}, n : 1..MaxActs] \union {PeerList, Beat}
            \union [t : {"welcome"}, to : Conns]
Stages == {"idle", "hello", "claim", "register", "tell", "reading", "tellgone", "done"}

(* Every variable keeps its type (session.rs, HostShared and PeerConn). *)
TypeOK ==
  /\ owner \in Seq(Guests) /\ Len(owner) <= MaxConns
  /\ line \in [Conns -> {"idle", "up", "lost", "closed"}] /\ task \in [Conns -> Stages]
  /\ member \in [Conns -> Members \union {Nobody}] /\ epoch \in [Conns -> Nat]
  /\ queue \in [Conns -> Seq(Messages)] /\ \A c \in Conns : Len(queue[c]) <= MaxItems
  /\ peers \subseteq Conns /\ ended \subseteq peers
  /\ installs \in [Guests -> Members \union {Nobody}]
  /\ epochs \in [Members -> Nat] /\ minted \in 0..MaxConns /\ calling \in BOOLEAN
  /\ owed \in [Conns -> SUBSET (1..MaxActs)] /\ told \in [Conns -> SUBSET Conns]
  /\ acts \in 0..MaxActs /\ failures \in 0..MaxFailures

(* The roster never holds more connections than the room has places, nor    *)
(* two of one member, although the place is checked before the handshake's  *)
(* awaits and the member may still be in the roster with a line that died.  *)
RosterHolds ==
  /\ Cardinality(peers) <= MaxPeers
  /\ \A p, q \in peers : member[p] = member[q] => p = q

(* Every operation relayed since a guest entered, except its own, is either *)
(* read or waits in its queue, once and in the order of the relay: peer     *)
(* lists, beats and welcomes that fill the queue never push one out.        *)
Mirrors(q, o) ==
  LET ops == {i \in DOMAIN q : q[i].t = "op"} IN
  /\ {q[i].n : i \in ops} = o
  /\ \A i, j \in ops : i < j => q[i].n < q[j].n
NoHoles == \A c \in peers \ ended : Mirrors(queue[c], owed[c])

(* When no task and no command has a peer list left to send, the latest one *)
(* every guest was sent names exactly who is in the room.                   *)
Telling == calling \/ \E c \in Conns :
  task[c] \in {"tell", "tellgone"} \/ (task[c] = "reading" /\ line[c] = "closed")
ListsSettle == ~Telling => \A c \in peers : told[c] = peers

(* A welcome prepared for one connection of a member is never sent to       *)
(* another connection of that member, however late the command arrives.     *)
WelcomesFindTheirGuest ==
  \A c \in Conns : \A i \in DOMAIN queue[c] : queue[c][i].t = "welcome" => queue[c][i].to = c

(* The next two do not hold.  A task that registers late evicts a newer     *)
(* connection of its member, whose line is up.                              *)
NewestClaimStays ==
  [][\A c \in peers : line[c] = "up" /\ c \notin peers' =>
       \A d \in peers' : member[d] = member[c] => epoch[d] > epoch[c]]_vars

(* A guest is told that the room is full while the place it would take over *)
(* is its own.                                                              *)
OwnPlaceIsFree ==
  [][\A c \in Conns : task[c] = "hello" /\ line[c] = "up" /\ task'[c] = "done" =>
       \A p \in peers : owner[p] # owner[c] \/ owner[c] \notin Installs]_vars
=============================================================================
