------------------------------ MODULE ClipQueue ------------------------------
(***************************************************************************)
(* Exporting clips: the queue of marked ranges and the runner that works it *)
(* off (use-clip-queue.ts), the Export button's own export and the listener *)
(* both share (use-clip-export.ts, use-clip-export-listeners.ts), Stop and  *)
(* the opening of another source (App.tsx), and the jobs behind them        *)
(* (media.rs, system.rs).                                                   *)
(*                                                                          *)
(* A queued clip of the web is a job whose end arrives as an event; a clip  *)
(* of a file is converted in the page under a token.  The page has one job  *)
(* id, one resolver and one token, whoever is exporting.  React is taken to *)
(* render before the next event is heard.                                   *)
(***************************************************************************)
EXTENDS Naturals, FiniteSets

CONSTANTS
  WebClips, FileClips,   \* the ranges that may be marked, by where they are from
  JobIds,                \* ids of jobs; one is used again when nothing refers to it
  NoClip, NoJob, Button, \* no clip, no job, and the Export button's own clip
  Crossed                  \* the orders of events admitted, see Crossings

Clips == WebClips \cup FileClips
\* "overlap": the Export button is used while the queue runs, or the other way
\* round.  "refused": the queue is refused an attempt it has given up.
Crossings == {"overlap", "refused"}

ASSUME ClipQueueAssumption ==
  /\ {NoClip, Button} \cap Clips = {} /\ NoClip # Button /\ NoJob \notin JobIds
  /\ Crossed \subseteq Crossings

VARIABLES
  rows,      \* the queue: each clip's row, if it has one
  run,       \* the runner: where it is, its item, its job and what that came to
  left,      \* the eligible clips it has not come to
  stopped,   \* queueStopRef
  button,    \* the Export button's own export: a job, or a file
  jobId,     \* the job the page listens to
  awaited,   \* the job whose promise queueResolverRef resolves
  token,     \* localExportCancelRef: whose conversion Stop reaches
  converts,  \* the conversions in the page; one may be left from another source
  jobs,      \* create_clip: what each is for and how far it is
  written,   \* the file of the runner's item has been written
  status     \* the page's status

exports == <<run, left, stopped, button, jobId, awaited, token, converts, jobs, written>>
clipVars == <<rows, exports, status>>

RowState == {"none", "queued", "running", "done", "error"}
Resting == [at |-> "off", item |-> NoClip, job |-> NoJob, cookies |-> FALSE, came |-> "none"]
Free == [for |-> NoClip, at |-> "none"]
Conversions == {"queue", "button", "earlier"}
Outcomes == {"ok", "failed", "cancelled", "refused"}

ClipTypeOK ==
  /\ rows \in [Clips -> RowState]
  /\ run \in [at : {"off", "next", "web", "file", "settled"}, item : Clips \cup {NoClip},
              job : JobIds \cup {NoJob}, cookies : BOOLEAN, came : Outcomes \cup {"none"}]
  /\ left \subseteq Clips /\ {written, stopped} \subseteq BOOLEAN
  /\ button \in {"idle", "file"} \cup JobIds
  /\ {jobId, awaited} \subseteq JobIds \cup {NoJob}
  /\ token \in {"none", "queue", "button"}
  /\ converts \in [Conversions -> {"idle", "converts", "cancelled", "writes"}]
  /\ jobs \in [JobIds -> [for : Clips \cup {NoClip, Button},
                          at : {"none", "waits", "child"} \cup Outcomes]]
  /\ status \in {"loaded", "exporting", "other"}

ClipInit ==
  /\ rows = [c \in Clips |-> "none"]
  /\ run = Resting /\ left = {} /\ stopped = FALSE /\ button = "idle"
  /\ jobId = NoJob /\ awaited = NoJob /\ token = "none"
  /\ converts = [v \in Conversions |-> "idle"]
  /\ jobs = [j \in JobIds |-> Free] /\ written = FALSE
  /\ status = "other"

Exporting == run.at # "off"
Becomes(c, row) == rows' = [rows EXCEPT ![c] = row]

-----------------------------------------------------------------------------
(* Rows *)

\* A new row has an id of its own, so nothing is left of a clip before it is used again.
Unknown(c) ==
  /\ rows[c] = "none" /\ c \notin left \cup {run.item}
  /\ \A j \in JobIds : jobs[j].for # c

Mark(c) ==
  /\ status \in {"loaded", "exporting"} /\ Unknown(c) /\ Becomes(c, "queued")
  /\ UNCHANGED <<exports, status>>

\* The row that is running has no icon to remove it; redo removes it all the same.
RemoveRow(c) ==
  /\ rows[c] # "none" /\ Becomes(c, "none")
  /\ UNCHANGED <<exports, status>>

Retry(c) ==
  /\ rows[c] = "error" /\ Becomes(c, "queued")
  /\ UNCHANGED <<exports, status>>

ClearAll ==
  /\ ~Exporting /\ rows' = [c \in Clips |-> "none"]
  /\ UNCHANGED <<exports, status>>

ClearDone ==
  /\ rows' = [c \in Clips |-> IF rows[c] = "done" THEN "none" ELSE rows[c]]
  /\ UNCHANGED <<exports, status>>

-----------------------------------------------------------------------------
(* The runner: what it does without awaiting anything comes before the next event *)

Due == run.at \in {"settled", "next"}

Spare(j) ==
  jobs[j].at = "none" /\ j \notin {awaited, button} /\ (run.at = "web" => j # run.job)

ExportQueue ==
  /\ ~Exporting /\ token = "none" /\ (\E j \in JobIds : Spare(j))
  /\ ("overlap" \in Crossed \/ button = "idle")
  /\ ("refused" \in Crossed \/ ~\E j \in JobIds : jobs[j].at = "refused")
  /\ LET eligible == {c \in Clips : rows[c] = "queued"} IN
       /\ eligible # {} /\ left' = eligible
  /\ run' = [Resting EXCEPT !.at = "next"] /\ stopped' = FALSE /\ status' = "exporting"
  /\ UNCHANGED <<rows, button, jobId, awaited, token, converts, jobs, written>>

\* runClip: each attempt is a job of its own.
RunsClip(c, cookies) ==
  \E j \in JobIds :
    /\ Spare(j)
    /\ jobs' = [jobs EXCEPT ![j] = [for |-> c, at |-> "waits"]]
    /\ jobId' = j /\ awaited' = j
    /\ run' = [at |-> "web", item |-> c, job |-> j, cookies |-> cookies, came |-> "none"]

StartsItem(c) ==
  /\ Becomes(c, "running") /\ written' = FALSE
  /\ \/ /\ c \in WebClips /\ RunsClip(c, TRUE)
        /\ UNCHANGED <<token, converts>>
     \/ /\ c \in FileClips
        /\ run' = [Resting EXCEPT !.at = "file", !.item = c]
        /\ token' = "queue" /\ converts' = [converts EXCEPT !["queue"] = "converts"]
        /\ UNCHANGED <<jobs, jobId, awaited>>
  /\ UNCHANGED status

\* The status is given back by whoever still has it.
RunEnds ==
  /\ run' = Resting /\ left' = {}
  /\ IF status = "exporting" THEN status' \in {"loaded", "other"} ELSE UNCHANGED status
  /\ written' = FALSE
  /\ UNCHANGED <<token, converts, jobs, jobId, awaited>>

\* The head of the loop: Stop first, then the next row that is still there.
NextItem ==
  /\ run.at = "next"
  /\ LET there == {c \in left : rows[c] # "none"} IN
       IF stopped \/ there = {}
         THEN RunEnds /\ UNCHANGED rows
         ELSE \E c \in there : left' = left \ {c} /\ StartsItem(c)
  /\ UNCHANGED <<stopped, button>>

\* setClipQueue's map: a row that is gone stays gone.
Shows(c, row) == IF rows[c] = "none" THEN UNCHANGED rows ELSE Becomes(c, row)

\* A failure may be tried again without cookies; a cancelled item is queued
\* again and ends the run; anything else is the row's end.
Proceeds ==
  /\ run.at = "settled"
  /\ \/ /\ run.came \in {"failed", "refused"} /\ run.cookies /\ RunsClip(run.item, FALSE)
        /\ UNCHANGED <<rows, left, status, token, converts, written>>
     \/ /\ run.came # "cancelled" /\ run' = [Resting EXCEPT !.at = "next"]
        /\ Shows(run.item, IF run.came = "ok" THEN "done" ELSE "error")
        /\ UNCHANGED <<left, status, token, converts, jobs, jobId, awaited, written>>
     \/ run.came = "cancelled" /\ RunEnds /\ Shows(run.item, "queued")
  /\ UNCHANGED <<stopped, button>>

Comes(came) == run' = [run EXCEPT !.at = "settled", !.came = came]

\* The promise of job j is resolved; the runner is there only if it awaits it.
Resolves(j, came) == IF run.at = "web" /\ run.job = j THEN Comes(came) ELSE UNCHANGED run

-----------------------------------------------------------------------------
(* The Export button *)

\* The palette offers it whatever is exporting.
MayExport ==
  \/ status = "loaded" /\ ~Exporting /\ button = "idle"
  \/ "overlap" \in Crossed /\ status \in {"loaded", "exporting"}

ExportFile ==
  /\ MayExport /\ converts["button"] = "idle"
  /\ button' = "file" /\ status' = "exporting"
  /\ token' = "button" /\ converts' = [converts EXCEPT !["button"] = "converts"]
  /\ UNCHANGED <<rows, run, left, stopped, jobId, awaited, jobs, written>>

ExportWeb ==
  /\ MayExport /\ status' = "exporting"
  /\ \E j \in JobIds :
       /\ Spare(j)
       /\ jobs' = [jobs EXCEPT ![j] = [for |-> Button, at |-> "waits"]]
       /\ jobId' = j /\ button' = j
  /\ UNCHANGED <<rows, run, left, stopped, awaited, token, converts, written>>

-----------------------------------------------------------------------------
(* Conversions in the page *)

Converted(v) ==
  /\ converts[v] = "converts" /\ converts' = [converts EXCEPT ![v] = "writes"]
  /\ UNCHANGED <<rows, run, left, stopped, button, jobId, awaited, token, jobs, written, status>>

\* finally: the token is released by its owner.
Releases(v) == token' = IF token = v THEN "none" ELSE token

\* What has begun to be written is; what was cancelled before is not.
ConversionEnds(v) ==
  /\ converts[v] # "idle" /\ converts' = [converts EXCEPT ![v] = "idle"]
  /\ Releases(v)
  /\ \E came \in CASE converts[v] = "cancelled" -> {"cancelled"}
                   [] converts[v] = "converts" -> {"failed"}
                   [] OTHER -> {"ok", "failed"} :
       /\ IF v = "queue" THEN Comes(came) ELSE UNCHANGED run
       /\ written' = (written \/ (v = "queue" /\ came = "ok"))
       /\ IF v = "button" THEN button' = "idle" /\ status' = "loaded"
                          ELSE UNCHANGED <<button, status>>
  /\ UNCHANGED <<rows, left, stopped, jobId, awaited, jobs>>

-----------------------------------------------------------------------------
(* Jobs *)

Spawns(j) ==
  /\ jobs[j].at = "waits" /\ jobs' = [jobs EXCEPT ![j].at = "child"]
  /\ UNCHANGED <<rows, run, left, stopped, button, jobId, awaited, token, converts, written, status>>

\* Mutant: a listener that does not ask which job has ended.
ListensToAll(j) == TRUE

ListensTo(j) == jobId = j

\* create_clip refuses, or lets the job go on in the background; with a copy in
\* the cache there is no child.  Nothing comes of an end the page does not listen to.
ClipJobEnds(j) ==
  /\ jobs[j].at \in {"waits", "child"}
  /\ \E at \in {"ok", "failed"} \cup IF jobs[j].at = "waits" THEN {"refused"} ELSE {} :
       /\ at = "refused" => \/ jobs[j].for = Button \/ awaited = j
                             \/ "refused" \in Crossed
       /\ jobs' = [jobs EXCEPT ![j] = IF at = "refused" \/ ListensTo(j)
                                         THEN [@ EXCEPT !.at = at] ELSE Free]
       /\ written' = (written \/ (at = "ok" /\ jobs[j].for = run.item))
  /\ UNCHANGED <<rows, run, left, stopped, button, jobId, awaited, token, converts, status>>

\* cancel_job kills the child that is registered; without one the job goes on.
KillsChild(j) ==
  IF j # NoJob /\ jobs[j].at = "child" THEN [jobs EXCEPT ![j].at = "cancelled"] ELSE jobs

\* clip-done: to the runner if it awaits one, else the button's.
ClipDone(j) ==
  /\ jobs[j].at \in {"ok", "failed", "cancelled"}
  /\ jobs' = [jobs EXCEPT ![j] = Free]
  /\ IF ~ListensTo(j) THEN UNCHANGED <<run, awaited, button, status>>
     ELSE IF awaited # NoJob
       THEN /\ Resolves(awaited, jobs[j].at) /\ awaited' = NoJob
            /\ UNCHANGED <<button, status>>
       ELSE status' = "loaded" /\ button' = "idle" /\ UNCHANGED <<run, awaited>>
  /\ UNCHANGED <<rows, left, stopped, jobId, token, converts, written>>

\* The rejection of the command: the runner's takes the resolver away whosever it
\* is, the button's asks nothing.
RefusalHeard(j) ==
  /\ jobs[j].at = "refused" /\ jobs' = [jobs EXCEPT ![j] = Free]
  /\ IF jobs[j].for = Button
       THEN /\ status' = "loaded" /\ button' = IF button = j THEN "idle" ELSE button
            /\ UNCHANGED <<run, awaited>>
       ELSE /\ IF awaited = NoJob THEN UNCHANGED run ELSE Resolves(j, "refused")
            /\ awaited' = NoJob /\ UNCHANGED <<button, status>>
  /\ UNCHANGED <<rows, left, stopped, jobId, token, converts, written>>

-----------------------------------------------------------------------------
(* Stop, another source, the end of the application *)

Cancels(v) == [converts EXCEPT ![v] = IF @ = "converts" THEN "cancelled" ELSE @]

StopExport ==
  /\ Exporting \/ token # "none" \/ jobId # NoJob
  /\ stopped' = (stopped \/ Exporting)
  /\ converts' = IF token = "none" THEN converts ELSE Cancels(token)
  /\ jobs' = KillsChild(jobId)
  /\ UNCHANGED <<rows, run, left, button, jobId, awaited, token, written, status>>

\* Mutant: the job is cancelled and the runner is left waiting for its end.
LeavesRunner == UNCHANGED <<run, awaited>>

SettlesRunner ==
  /\ IF awaited = NoJob THEN UNCHANGED run ELSE Resolves(awaited, "cancelled")
  /\ awaited' = NoJob

\* resetForNewSource, and what its callers set at once.  The button's conversion
\* goes on without its page.
OtherSource ==
  /\ converts["earlier"] = "idle"
  /\ LET cut == IF token = "none" THEN converts ELSE Cancels(token) IN
       converts' = [cut EXCEPT !["button"] = "idle", !["earlier"] = cut["button"]]
  /\ token' = "none" /\ button' = "idle"
  /\ jobs' = KillsChild(jobId) /\ jobId' = NoJob
  /\ SettlesRunner
  /\ status' \in {"loaded", "other"}
  /\ UNCHANGED <<rows, left, stopped, written>>

SourceOpens ==
  /\ status = "other" /\ status' = "loaded"
  /\ UNCHANGED <<rows, exports>>

\* saveClipQueue keeps what is still owed; the children die with the application.
Quit ==
  /\ rows' = [c \in Clips |-> IF rows[c] \in {"queued", "running"} THEN "queued" ELSE "none"]
  /\ run' = Resting /\ left' = {} /\ stopped' = FALSE /\ button' = "idle"
  /\ jobId' = NoJob /\ awaited' = NoJob /\ token' = "none"
  /\ converts' = [v \in Conversions |-> "idle"]
  /\ jobs' = [j \in JobIds |-> Free] /\ written' = FALSE
  /\ status' = "other"

Runner == NextItem \/ Proceeds

ClipNext ==
  \/ Runner
  \/ /\ ~Due
     /\ \/ \E c \in Clips : Mark(c) \/ RemoveRow(c) \/ Retry(c)
        \/ ClearAll \/ ClearDone \/ ExportQueue \/ ExportFile \/ ExportWeb
        \/ \E v \in Conversions : Converted(v) \/ ConversionEnds(v)
        \/ \E j \in JobIds : Spawns(j) \/ ClipJobEnds(j) \/ ClipDone(j) \/ RefusalHeard(j)
        \/ StopExport \/ OtherSource \/ SourceOpens \/ Quit

\* What is under way comes to an end, and is heard.
Ending ==
  \/ \E v \in Conversions : ConversionEnds(v)
  \/ \E j \in JobIds : ClipJobEnds(j) \/ ClipDone(j) \/ RefusalHeard(j)

ClipFairness == WF_clipVars(Runner) /\ WF_clipVars(~Due /\ Ending)

ClipSpec == ClipInit /\ [][ClipNext]_clipVars /\ ClipFairness

-----------------------------------------------------------------------------
(* What the rows and the buttons say *)

\* The row that is running is the runner's, and it is done when its file was
\* written, not another clip's.
RowsAreTrue ==
  /\ \A c \in Clips : (rows[c] = "running" => Exporting /\ run.item = c)
  /\ (run.at = "settled" /\ run.came = "ok" => written)

\* Stop reaches every conversion of this source, and none is left with a token.
ConversionsAreStoppable ==
  /\ \A v \in {"queue", "button"} : converts[v] = "converts" => token = v
  /\ (token # "none" => converts[token] # "idle")

\* The page is not left exporting with nothing under way.
NothingIsStuck == status = "exporting" => Exporting \/ button # "idle"

QueueIsTrue == RowsAreTrue /\ ConversionsAreStoppable /\ NothingIsStuck

\* What the runner awaits is on its way: the page listens to its job, the job's end
\* goes to its promise and no other's, and a conversion it awaits is going on.
RunnerIsAnswered ==
  /\ (run.at = "web" =>
       /\ awaited = run.job /\ jobId = run.job
       /\ jobs[run.job].for = run.item /\ jobs[run.job].at # "none")
  /\ (run.at = "file" => converts["queue"] # "idle")
  /\ (awaited # NoJob => run.at = "web")

\* A run that was started ends: it never waits for an event that will not come.
QueueEnds == Exporting ~> ~Exporting
=============================================================================
