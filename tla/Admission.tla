------------------------------ MODULE Admission ------------------------------
(***************************************************************************)
(* Review links: the file of issued links (review_grant.rs), the handshakes *)
(* that ask it for admission and the roster they enter (session.rs), and    *)
(* the host's commands that issue a link, withdraw one, or close the room   *)
(* to everybody without one.                                                *)
(*                                                                          *)
(* Handshakes and commands run on threads of their own.  Each reads the     *)
(* whole file and writes the whole file back under one lock; what may come  *)
(* between is everything that does not take that lock.                      *)
(***************************************************************************)
EXTENDS Naturals

CONSTANTS
  Links,       \* the links that may be issued
  Arrivals,    \* connections that knock, each again and again
  Commands,    \* how many of the host's commands may be under way, as a set
  Nobody, NoLink

ASSUME AdmissionAssumption ==
  Nobody \notin Arrivals \cup Commands /\ Arrivals \cap Commands = {} /\ NoLink \notin Links

VARIABLES
  grants,      \* review-grants.json: every link, and `invited_only`
  readable,    \* whether it can be read
  lock,        \* who holds GRANT_WRITES
  copy,        \* what the holder has read
  arrival,     \* each connection: the link it presents and how far it is
  command,     \* each command: what it is about and how far it is
  hosting,     \* a room is open
  swept,       \* the links whose withdrawal has been answered
  overtaken    \* the handshakes that were admitted, and not yet in, at such a sweep

admissionVars == <<grants, readable, lock, copy, arrival, command, hosting, swept, overtaken>>

GrantFile == [link : [Links -> {"unknown", "live", "withdrawn"}], invitedOnly : BOOLEAN]
Absent == [link |-> [g \in Links |-> "unknown"], invitedOnly |-> FALSE]
Out == [at |-> "out", link |-> NoLink]
Rest == [at |-> "idle", op |-> "none", link |-> NoLink]

AdmissionTypeOK ==
  /\ grants \in GrantFile /\ copy \in GrantFile
  /\ readable \in BOOLEAN /\ hosting \in BOOLEAN
  /\ lock \in Arrivals \cup Commands \cup {Nobody}
  /\ arrival \in [Arrivals -> [at : {"out", "knocks", "granted", "closed", "admitted", "in"},
                               link : Links \cup {NoLink}]]
  /\ command \in [Commands -> [at : {"idle", "asked", "holds", "marked"},
                               op : {"none", "create", "withdraw", "close", "open"},
                               link : Links \cup {NoLink}]]
  /\ swept \subseteq Links /\ overtaken \subseteq Arrivals

AdmissionInit ==
  /\ grants = Absent /\ readable = TRUE /\ copy = Absent
  /\ lock = Nobody
  /\ arrival = [a \in Arrivals |-> Out]
  /\ command = [c \in Commands |-> Rest]
  /\ hosting = FALSE
  /\ swept = {} /\ overtaken = {}

fileVars == <<grants, readable>>
history == <<swept, overtaken>>

-----------------------------------------------------------------------------
(* Handshakes *)

Stands(a, at) == arrival' = [arrival EXCEPT ![a].at = at]
TurnsAway(a) == arrival' = [arrival EXCEPT ![a] = Out]

\* Hello, with the link's secret or without one.
Knocks(a) ==
  /\ hosting /\ arrival[a] = Out
  /\ \E g \in Links \cup {NoLink} : arrival' = [arrival EXCEPT ![a] = [at |-> "knocks", link |-> g]]
  /\ UNCHANGED <<fileVars, lock, copy, command, hosting, history>>

Uninvited(file, g) == g = NoLink /\ ~file.invitedOnly
Invited(file, g) == g \in Links /\ file.link[g] = "live"

\* Mutant: an admission that does not take the lock.
DecidesUnlocked(a) ==
  /\ arrival[a].at = "knocks"
  /\ IF readable /\ Invited(grants, arrival[a].link)
       THEN Stands(a, "granted") /\ copy' = grants
       ELSE UNCHANGED copy /\ IF readable /\ Uninvited(grants, arrival[a].link)
                                THEN Stands(a, "admitted") ELSE TurnsAway(a)
  /\ UNCHANGED <<fileVars, lock, command, hosting, history>>

\* admit_at: only a link that is live is written back, with the time it was seen.
Decides(a) ==
  /\ arrival[a].at = "knocks" /\ lock = Nobody
  /\ IF readable /\ Invited(grants, arrival[a].link)
       THEN Stands(a, "granted") /\ lock' = a /\ copy' = grants
       ELSE UNCHANGED <<lock, copy>> /\ IF readable /\ Uninvited(grants, arrival[a].link)
                                          THEN Stands(a, "admitted") ELSE TurnsAway(a)
  /\ UNCHANGED <<fileVars, command, hosting, history>>

Writes(file) == grants' = file /\ readable' = TRUE

\* The time is best effort: the connection is admitted whether it was written or not.
Stamps(a) ==
  /\ arrival[a].at \in {"granted", "closed"}
  /\ Writes(copy) \/ UNCHANGED fileVars
  /\ lock' = Nobody
  /\ IF arrival[a].at = "granted" THEN Stands(a, "admitted") ELSE TurnsAway(a)
  /\ UNCHANGED <<copy, command, hosting, history>>

\* Past the Welcome: onto the roster, or off for want of a place.
Registers(a) ==
  /\ arrival[a].at = "admitted"
  /\ Stands(a, "in")
  /\ UNCHANGED <<fileVars, lock, copy, command, hosting, history>>

\* The connection ends, or the handshake fails; a file in hand is still written.
Drops(a) ==
  /\ arrival[a].at \in {"knocks", "admitted", "in"} /\ TurnsAway(a)
  /\ overtaken' = overtaken \ {a}
  /\ UNCHANGED <<fileVars, lock, copy, command, hosting, swept>>

-----------------------------------------------------------------------------
(* The host *)

Orders(c) ==
  /\ command[c] = Rest
  /\ \E op \in {"create", "withdraw", "close", "open"}, g \in Links :
       command' = [command EXCEPT ![c] = [at |-> "asked", op |-> op, link |-> g]]
  /\ UNCHANGED <<fileVars, lock, copy, arrival, hosting, history>>

\* A new link has an id of its own; a withdrawal names one of the list.
Applies(c) ==
  LET g == command[c].link
  IN  IF command[c].op = "create" THEN grants.link[g] = "unknown"
      ELSE command[c].op = "withdraw" => grants.link[g] # "unknown"

\* update: lock and read.  A file that cannot be read is left alone.
Takes(c) ==
  /\ command[c].at = "asked" /\ lock = Nobody
  /\ IF readable /\ Applies(c)
       THEN command' = [command EXCEPT ![c].at = "holds"] /\ lock' = c /\ copy' = grants
       ELSE command' = [command EXCEPT ![c] = Rest] /\ UNCHANGED <<lock, copy>>
  /\ UNCHANGED <<fileVars, arrival, hosting, history>>

Changed(file, c) ==
  CASE command[c].op = "create" -> [file EXCEPT !.link[command[c].link] = "live"]
    [] command[c].op = "withdraw" -> [file EXCEPT !.link[command[c].link] = "withdrawn"]
    [] OTHER -> [file EXCEPT !.invitedOnly = (command[c].op = "close")]

\* update: change, write and unlock; only a withdrawal has more to do.
Saves(c) ==
  /\ command[c].at = "holds"
  /\ lock' = Nobody
  /\ \/ /\ Writes(Changed(copy, c))
        /\ command' = [command EXCEPT ![c] = IF @.op = "withdraw" THEN [@ EXCEPT !.at = "marked"]
                                                                  ELSE Rest]
     \/ UNCHANGED fileVars /\ command' = [command EXCEPT ![c] = Rest]
  /\ UNCHANGED <<copy, arrival, hosting, history>>

Holding(g, at) == {a \in Arrivals : arrival[a].link = g /\ arrival[a].at = at}

\* Mutant: marking alone, which turns the holder away the next time.
SweepsNobody(c) ==
  /\ command[c].at = "marked"
  /\ command' = [command EXCEPT ![c] = Rest]
  /\ swept' = swept \cup {command[c].link}
  /\ overtaken' = overtaken \cup Holding(command[c].link, "admitted")
  /\ UNCHANGED <<fileVars, lock, copy, arrival, hosting>>

\* disconnect_grant, and the command's answer.
Sweeps(c) ==
  /\ command[c].at = "marked"
  /\ command' = [command EXCEPT ![c] = Rest]
  /\ LET g == command[c].link IN
       /\ arrival' = [a \in Arrivals |-> IF a \in Holding(g, "in") THEN Out ELSE arrival[a]]
       /\ swept' = swept \cup {g}
       /\ overtaken' = (overtaken \cup Holding(g, "admitted")) \ Holding(g, "in")
  /\ UNCHANGED <<fileVars, lock, copy, hosting>>

\* session_start asks for the settings first.
OpensRoom ==
  /\ ~hosting /\ readable /\ hosting' = TRUE
  /\ UNCHANGED <<fileVars, lock, copy, arrival, command, history>>

ClosesRoom ==
  /\ hosting /\ hosting' = FALSE
  /\ arrival' = [a \in Arrivals |-> IF arrival[a].at \in {"granted", "closed"}
                                      THEN [arrival[a] EXCEPT !.at = "closed"] ELSE Out]
  /\ overtaken' = {}
  /\ UNCHANGED <<fileVars, lock, copy, command, swept>>

\* The file is written beside and renamed: a crash leaves the old one or the new.
Quits ==
  /\ hosting' = FALSE /\ lock' = Nobody
  /\ arrival' = [a \in Arrivals |-> Out] /\ command' = [c \in Commands |-> Rest]
  /\ overtaken' = {}
  /\ UNCHANGED <<fileVars, copy, swept>>

\* Something outside takes the right to read the file away, or gives it back.
AccessChanges ==
  /\ readable' = ~readable
  /\ UNCHANGED <<grants, lock, copy, arrival, command, hosting, history>>

AdmissionNext ==
  \/ \E a \in Arrivals : Knocks(a) \/ Decides(a) \/ Stamps(a) \/ Registers(a) \/ Drops(a)
  \/ \E c \in Commands : Orders(c) \/ Takes(c) \/ Saves(c) \/ Sweeps(c)
  \/ OpensRoom \/ ClosesRoom \/ Quits \/ AccessChanges

AdmissionSpec == AdmissionInit /\ [][AdmissionNext]_admissionVars

-----------------------------------------------------------------------------
(* What the host was told *)

\* What a command changed is changed by nothing but another command: no arrival
\* overwrites a withdrawal with its older snapshot, no fault loses the file.
OnlyTheHostChangesLinks ==
  [][/\ \A g \in Links : grants'.link[g] # grants.link[g] =>
          \E c \in Commands : command[c].at = "holds" /\ command[c].link = g
     /\ grants'.invitedOnly # grants.invitedOnly =>
          \E c \in Commands : command[c].at = "holds" /\ command[c].op \in {"close", "open"}
    ]_admissionVars

\* Nobody is in the room with a link whose withdrawal was answered, except those
\* who had been admitted and were not yet registered when it swept the roster.
WithdrawnAreOut ==
  \A a \in Arrivals : arrival[a].at = "in" /\ arrival[a].link \in swept => a \in overtaken

\* Violated: nobody is ("AND disconnect anyone holding it, right now").
WithdrawnAreOutAtOnce ==
  \A a \in Arrivals : arrival[a].at = "in" => arrival[a].link \notin swept
=============================================================================
