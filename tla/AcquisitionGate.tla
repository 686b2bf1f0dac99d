--------------------------- MODULE AcquisitionGate ---------------------------
(***************************************************************************)
(* The gate before yt-dlp (acquisition_gate.rs): callers that ask for the   *)
(* same source share one slot, and with it one fetch and its result, also   *)
(* when it failed.  A slot is an Arc: the table lets go of those that       *)
(* nobody else holds when it is full, and who holds one keeps it.           *)
(*                                                                          *)
(* Time is what the gate asks of it: whether two seconds, or the minute of  *)
(* a rate limit, have passed since a slot's result.                         *)
(***************************************************************************)
EXTENDS Naturals, FiniteSets

CONSTANTS
  Keys,      \* sources, with the browser whose sign-in they use
  Callers,   \* calls that may be under way at once
  Limit,     \* slots the table may have: 32 in the code
  Slots,     \* the slots in memory, at least one for each that is held or listed
  NoSlot, NoKey

ASSUME GateAssumption ==
  /\ Limit \in Nat \ {0} /\ NoSlot \notin Slots /\ NoKey \notin Keys
  /\ IsFiniteSet(Keys) /\ IsFiniteSet(Callers) /\ IsFiniteSet(Slots)
  /\ Cardinality(Slots) >= Limit + Cardinality(Callers)

VARIABLES
  table,    \* the slot of each source
  call,     \* each call: its source, its slot and how far it is
  result    \* what a slot remembers, and how long ago

gateVars == <<table, call, result>>

Gone == [at |-> "out", key |-> NoKey, slot |-> NoSlot]
Unasked == [is |-> "nothing", age |-> "new"]

GateTypeOK ==
  /\ table \in [Keys -> Slots \cup {NoSlot}]
  /\ call \in [Callers -> [at : {"out", "waits", "fetches"}, key : Keys \cup {NoKey},
                           slot : Slots \cup {NoSlot}]]
  /\ result \in [Slots -> [is : {"nothing", "answer", "limited"}, age : {"new", "seconds", "minute"}]]

GateInit ==
  /\ table = [k \in Keys |-> NoSlot]
  /\ call = [c \in Callers |-> Gone]
  /\ result = [s \in Slots |-> Unasked]

-----------------------------------------------------------------------------
Listed(t) == {k \in Keys : t[k] # NoSlot}
Held == {call[c].slot : c \in Callers}
Fresh == CHOOSE s \in Slots : s \notin Held /\ \A k \in Keys : table[k] # s

\* Mutant: a full table forgets every slot.
RetainsNone(t) == [k \in Keys |-> NoSlot]

\* Only the slots that a call holds stay.
Retained(t) == [k \in Keys |-> IF t[k] \in Held THEN t[k] ELSE NoSlot]

Full(t, k) == t[k] = NoSlot /\ Cardinality(Listed(t)) >= Limit

\* Under the table's lock: make room, refuse, or take the slot of the source.
Acquires(c, k) ==
  LET room == IF Full(table, k) THEN Retained(table) ELSE table
      refused == Full(room, k)
  IN
  /\ call[c].at = "out"
  /\ IF refused THEN table' = room /\ UNCHANGED <<call, result>>
     ELSE LET s == IF room[k] = NoSlot THEN Fresh ELSE room[k] IN
            /\ table' = [room EXCEPT ![k] = s]
            /\ call' = [call EXCEPT ![c] = [at |-> "waits", key |-> k, slot |-> s]]
            /\ result' = [x \in Slots |-> IF x \in Held \/ \E j \in Keys : room[j] = x THEN result[x] ELSE Unasked]

Remembers(s) ==
  \/ result[s].is = "answer" /\ result[s].age = "new"
  \/ result[s].is = "limited" /\ result[s].age # "minute"

\* The slot's own lock: who gets it takes the result that is there, or fetches.
Unlocked(s) == \A c \in Callers : ~(call[c].at = "fetches" /\ call[c].slot = s)

Enters(c) ==
  LET s == call[c].slot IN
  /\ call[c].at = "waits" /\ Unlocked(s)
  /\ call' = [call EXCEPT ![c] = IF Remembers(s) THEN Gone ELSE [@ EXCEPT !.at = "fetches"]]
  /\ UNCHANGED <<table, result>>

Fetches(c) ==
  /\ call[c].at = "fetches"
  /\ call' = [call EXCEPT ![c] = Gone]
  /\ \E r \in {"answer", "limited"} : result' = [result EXCEPT ![call[c].slot] = [is |-> r, age |-> "new"]]
  /\ UNCHANGED table

\* Two seconds, or a minute, since a result.
Ages(s) ==
  /\ result[s].is # "nothing" /\ result[s].age # "minute"
  /\ result' = [result EXCEPT ![s].age = IF @ = "new" THEN "seconds" ELSE "minute"]
  /\ UNCHANGED <<table, call>>

GateNext ==
  \/ \E c \in Callers : Enters(c) \/ Fetches(c) \/ \E k \in Keys : Acquires(c, k)
  \/ \E s \in Slots : Ages(s)

GateSpec == GateInit /\ [][GateNext]_gateVars

-----------------------------------------------------------------------------
(* Properties *)

\* One fetch of a source at a time, however often the table was full between two
\* calls for it: what is let go of is never somebody's slot.
OneFetchAtATime ==
  \A c, d \in Callers :
    call[c].at = "fetches" /\ call[d].at = "fetches" /\ call[c].key = call[d].key => c = d

\* Violated: "respect a server rate-limit for at least a minute".  A full table
\* lets go of the result together with the slot.
RateLimitStands ==
  [][\A k \in Keys :
       table[k] # NoSlot /\ result[table[k]].is = "limited" /\ result[table[k]].age # "minute" =>
         table'[k] = table[k]]_gateVars
=============================================================================
