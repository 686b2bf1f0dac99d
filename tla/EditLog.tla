------------------------------ MODULE EditLog ------------------------------
(***************************************************************************)
(* The undo log of one string out (edit_log.rs), from its creation on, and *)
(* the page's sessions that work on it: the editors mounted for it one     *)
(* after another (use-edit-session.ts) and a bite sent to it from another  *)
(* string out (EditSendTo.tsx), which asks for the head and commits.       *)
(*                                                                         *)
(* A command runs alone, on the thread that runs all of them; what can     *)
(* come between is a failed statement, a crash, or another session's       *)
(* command between a session's question and its next.                      *)
(***************************************************************************)
EXTENDS Naturals, Sequences, FiniteSetsExt

CONSTANTS
  Every,       \* CHECKPOINT_EVERY
  Changes,     \* what can be changed in a document
  MaxStates,   \* how many states the log may hold, a bound
  Sessions,    \* how many sessions there are between restarts, a bound
  Behind       \* how many operations may be queued when an editor closes, a bound

ASSUME EditAssumption ==
  /\ {MaxStates, Sessions, Behind} \subseteq Nat
  /\ Every \in Nat \ {0} /\ MaxStates > 0

Session == 1 .. Sessions
Document == SUBSET Changes
NoState == 0

VARIABLES
  log,       \* the tables of the edit, with what each state was given (`said`)
  back,      \* the states undone since the head last moved otherwise
  session,   \* each session's mount: its `current` ref and its queue
  call       \* what each session waits for, or the answer on its way

editVars == <<log, back, session, call>>

State == 1 .. log.count
Unseen == [state |-> NoState, doc |-> {}]

\* JSON Patch: the difference of two documents, and its application.
Diff(base, next) == [add |-> next \ base, del |-> base \ next]
Patched(base, patch) == (base \ patch.del) \cup patch.add

\* A row per state, `parent` NoState for the root; `saved` is its checkpoint.
Row(parent, depth, group, patch, saved, said) ==
  [parent |-> parent, depth |-> depth, group |-> group, patch |-> patch,
   saved |-> saved, pinned |-> FALSE, said |-> said]

\* A session: "new", "open", or "closed" with operations left in its queue.
NewSession == [mode |-> "new", seen |-> Unseen, left |-> 0]
NoCall == [op |-> "none"]

EditTypeOK ==
  /\ log.count \in 1 .. MaxStates /\ log.head \in State
  /\ \A s \in State :
       /\ log.rows[s].parent \in 0 .. (s - 1)
       /\ log.rows[s].parent = NoState => log.rows[s].saved # {}
       /\ log.rows[s].depth = IF log.rows[s].parent = NoState THEN 0
                              ELSE log.rows[log.rows[s].parent].depth + 1
       /\ log.redo[s] # NoState => log.redo[s] \in State /\ log.rows[log.redo[s]].parent = s
  /\ \A e \in Session :
       /\ session[e].mode \in {"new", "open", "closed"} /\ session[e].left \in 0 .. Behind
       /\ session[e].seen.state \in 0 .. log.count /\ session[e].seen.doc \in Document
       /\ call[e].op \in {"none", "head", "commit", "undo", "redo", "jump", "pin",
                          "failed", "reply"}

\* edit_create: the root, with the whole document.
EditInit ==
  /\ log = [count |-> 1, head |-> 1, redo |-> <<NoState>>,
            rows |-> <<Row(NoState, 0, "none", Diff({}, {}), {{}}, {})>>]
  /\ back = <<>>
  /\ session = [e \in Session |-> NewSession]
  /\ call = [e \in Session |-> NoCall]

-----------------------------------------------------------------------------
(* The log: what its operations compute.                                   *)

Children(l, s) == {c \in 1 .. l.count : l.rows[c].parent = s}

\* document_at: the nearest checkpoint above, then the patches down from it.
DocumentAt(l, state) ==
  LET at[s \in 1 .. l.count] ==
        IF l.rows[s].saved # {} THEN CHOOSE d \in l.rows[s].saved : TRUE
        ELSE Patched(at[l.rows[s].parent], l.rows[s].patch)
  IN at[state]

\* redo_target: the child last come from, else the newest, else none.
RedoTarget(l, s) ==
  IF l.redo[s] # NoState \/ Children(l, s) = {} THEN l.redo[s] ELSE Max(Children(l, s))

\* Mutant: repeats that are merged into a state a person has pinned.
CoalescesPinned(l, group) ==
  LET row == l.rows[l.head] IN
  /\ group # "none" /\ row.group = group
  /\ Children(l, l.head) = {} /\ row.parent # NoState

\* Whether a commit may be merged into the head, if it comes within the window.
\* The window is one of the wall clock, which may be set: it is left to chance.
Coalesces(l, group) ==
  LET row == l.rows[l.head] IN
  /\ group # "none" /\ row.group = group
  /\ Children(l, l.head) = {} /\ ~row.pinned /\ row.parent # NoState

\* Mutant: a merge that leaves the head's checkpoint as it was.
MergedRowOnly(l, doc) ==
  LET row == l.rows[l.head] IN
  [l EXCEPT !.rows[l.head] =
     [row EXCEPT !.patch = Diff(DocumentAt(l, row.parent), doc), !.said = doc]]

Merged(l, doc) ==
  LET row == l.rows[l.head] IN
  [l EXCEPT !.rows[l.head] =
     [row EXCEPT !.patch = Diff(DocumentAt(l, row.parent), doc),
                 !.saved = IF @ = {} THEN {} ELSE {doc}, !.said = doc]]

\* A new state under the head, with a checkpoint at every Every-th depth.
Appended(l, group, doc) ==
  LET s == l.count + 1
      depth == l.rows[l.head].depth + 1
      row == Row(l.head, depth, group, Diff(DocumentAt(l, l.head), doc),
                 IF depth % Every = 0 THEN {doc} ELSE {}, doc)
  IN [count |-> s, head |-> s, redo |-> Append([l.redo EXCEPT ![l.head] = s], NoState),
      rows |-> Append(l.rows, row)]

\* The logs a commit may leave.  An unchanged document records no step.
Committed(l, group, doc) ==
  {Merged(l, doc) : x \in {y \in {group} : Coalesces(l, y)}}
    \cup (IF DocumentAt(l, l.head) = doc THEN {l} ELSE {Appended(l, group, doc)})

\* Mutant: an undo that leaves redo to the newest child.
UndoForgets(l) == l

\* undo's first statement: redo is to come back here.
UndoRemembers(l) ==
  LET parent == l.rows[l.head].parent IN
  IF parent = NoState THEN l ELSE [l EXCEPT !.redo[parent] = l.head]

\* jump's transaction: redo is to follow the path from the root to the state.
JumpRemembers(l, state) ==
  LET on[s \in 1 .. l.count] ==   \* is s on that path?
        \/ s = state
        \/ \E c \in Children(l, s) : on[c]
  IN [l EXCEPT !.redo = [s \in 1 .. l.count |->
        IF \E c \in Children(l, s) : on[c]
          THEN CHOOSE c \in Children(l, s) : on[c] ELSE l.redo[s]]]

MoveHead(l, state) == [l EXCEPT !.head = state]

-----------------------------------------------------------------------------
(* A session's operations, one at a time and in the order they were asked.  *)

\* The editor mounts and asks for the head.
OpenEdit(e) ==
  /\ session[e].mode = "new"
  /\ session' = [session EXCEPT ![e].mode = "open"]
  /\ call' = [call EXCEPT ![e] = [op |-> "head"]]
  /\ UNCHANGED <<log, back>>

\* It unmounts; what its queue still holds goes on.
CloseEdit(e) ==
  /\ session[e].mode = "open"
  /\ \E left \in 0 .. Behind :
       session' = [session EXCEPT ![e].mode = "closed", ![e].left = left]
  /\ UNCHANGED <<log, back, call>>

\* The next operation begins: a commit reads the session's own head here.
Begins(e, request) ==
  /\ call[e].op = "none"
  /\ session[e].mode = "open" \/ session[e].left > 0
  /\ session' = [session EXCEPT ![e].left = IF @ > 0 THEN @ - 1 ELSE @]
  /\ call' = [call EXCEPT ![e] = request]
  /\ UNCHANGED <<log, back>>

\* `change` makes one change in the document shown; with none shown, or none
\* to make, there is no step.
AskCommit(e) ==
  \E c \in Changes, group \in {"none", "repeat"} :
    LET seen == session[e].seen.doc IN
    Begins(e, IF session[e].seen.state = NoState THEN NoCall
              ELSE [op |-> "commit", group |-> group,
                    doc |-> IF c \in seen THEN seen \ {c} ELSE seen \cup {c}])

AskUndo(e) == Begins(e, [op |-> "undo"])
AskRedo(e) == Begins(e, [op |-> "redo"])
AskJump(e) == \E s \in State : Begins(e, [op |-> "jump", to |-> s])
AskPin(e) == \E s \in State : Begins(e, [op |-> "pin", to |-> s])

\* The answer of a command: the head it leaves.
Answer(l) == [op |-> "reply", state |-> l.head, doc |-> DocumentAt(l, l.head)]
Answered(e) == call' = [call EXCEPT ![e] = Answer(log')] /\ UNCHANGED session

RunHead(e) ==
  /\ call[e].op = "head"
  /\ UNCHANGED <<log, back>>
  /\ Answered(e)

RunCommit(e) ==
  /\ call[e].op = "commit"
  /\ log' \in Committed(log, call[e].group, call[e].doc)
  /\ log'.count <= MaxStates
  /\ back' = IF log'.count = log.count THEN back ELSE <<>>
  /\ Answered(e)

RunUndo(e) ==
  /\ call[e].op = "undo"
  /\ LET parent == log.rows[log.head].parent IN
     IF parent = NoState
       THEN UNCHANGED <<log, back>>
       ELSE /\ log' = MoveHead(UndoRemembers(log), parent)
            /\ back' = <<log.head>> \o back
  /\ Answered(e)

RunRedo(e) ==
  /\ call[e].op = "redo"
  /\ LET child == RedoTarget(log, log.head) IN
     IF child = NoState
       THEN UNCHANGED <<log, back>>
       ELSE log' = MoveHead(log, child) /\ back' = IF back = <<>> THEN back ELSE Tail(back)
  /\ Answered(e)

RunJump(e) ==
  /\ call[e].op = "jump"
  /\ log' = MoveHead(JumpRemembers(log, call[e].to), call[e].to)
  /\ back' = <<>>
  /\ Answered(e)

\* A pin answers with no head, and the history is read again.
RunPin(e) ==
  /\ call[e].op = "pin"
  /\ log' = [log EXCEPT !.rows[call[e].to].pinned = ~@]
  /\ call' = [call EXCEPT ![e] = NoCall]
  /\ UNCHANGED <<back, session>>

\* What of a command has been written when it fails, or the program is killed:
\* all of a transaction or none, but undo and jump move the head in a second one.
CutShort(e) ==
  \/ UNCHANGED <<log, back>>
  \/ call[e].op = "undo" /\ log' = UndoRemembers(log) /\ UNCHANGED back
  \/ call[e].op = "jump" /\ log' = JumpRemembers(log, call[e].to) /\ back' = <<>>

Fails(e) ==
  /\ call[e].op \notin {"none", "reply", "failed"}
  /\ CutShort(e)
  /\ call' = [call EXCEPT ![e] = [op |-> "failed"]]
  /\ UNCHANGED session

Restart ==
  /\ \/ UNCHANGED <<log, back>>
     \/ \E e \in Session : call[e].op \in {"undo", "jump"} /\ CutShort(e)
  /\ session' = [e \in Session |-> NewSession]
  /\ call' = [e \in Session |-> NoCall]
  /\ call' # call \/ session' # session

\* setHead, and its render: nothing is rendered any more once unmounted.
Delivered(e) ==
  /\ call[e].op \in {"reply", "failed"}
  /\ call' = [call EXCEPT ![e] = NoCall]
  /\ session' = [session EXCEPT ![e].seen =
       IF session[e].mode = "open" /\ call[e].op = "reply"
         THEN [state |-> call[e].state, doc |-> call[e].doc] ELSE @]
  /\ UNCHANGED <<log, back>>

EditNext ==
  \/ Restart
  \/ \E e \in Session :
       \/ OpenEdit(e) \/ CloseEdit(e)
       \/ AskCommit(e) \/ AskUndo(e) \/ AskRedo(e) \/ AskJump(e) \/ AskPin(e)
       \/ RunHead(e) \/ RunCommit(e) \/ RunUndo(e) \/ RunRedo(e) \/ RunJump(e) \/ RunPin(e)
       \/ Fails(e) \/ Delivered(e)

EditSpec == EditInit /\ [][EditNext]_editVars

-----------------------------------------------------------------------------
(* What the log and the editor promise.                                    *)

\* Every state replays to the document it was last given, through merges,
\* checkpoints and branches, whichever sessions wrote it.
ReplaysExactly == \A s \in State : DocumentAt(log, s) = log.rows[s].said

\* A state that has steps after it, or a name, is never changed, and no state
\* ever goes: nothing is lost by going back.
StepsAreKept ==
  [][\A s \in State :
       s <= log'.count /\ (Children(log, s) # {} \/ log.rows[s].pinned
                             => DocumentAt(log', s) = DocumentAt(log, s))]_editVars

\* Redo brings back the steps undone, last first, on whatever branch they are
\* and wherever a failure or a crash has cut an undo short.
RedoRetraces ==
  back # <<>> => /\ RedoTarget(log, log.head) = Head(back)
                 /\ \A i \in 1 .. (Len(back) - 1) : RedoTarget(log, back[i]) = back[i + 1]

\* Violated: a step is made from the head of the log as it is then ("Apply a
\* change to the CURRENT head (not the one this render saw)").
StepsStartFromTheHead ==
  \A e \in Session : call[e].op = "commit" =>
    \E c \in Changes : log.rows[log.head].said \in {call[e].doc \ {c}, call[e].doc \cup {c}}
=============================================================================
