--------------------------- MODULE TranscriptJob ---------------------------
(***************************************************************************)
(* One transcription job and the registry that can stop it: the three      *)
(* entry points of transcript.rs (a URL, a local file, a prepared WAV),    *)
(* the diarizer that runs beside whisper on a task of its own, and         *)
(* JobRegistry with cancel_job (system.rs).                                *)
(*                                                                         *)
(* A process is spawned and registered in two steps, and Stop raises the   *)
(* job's flag and sweeps the registry in two more.  Jobs share no key      *)
(* (belongs_to_job), so one job is the general case.                       *)
(***************************************************************************)
EXTENDS Naturals

CONSTANTS SourceStep, Whisper, Diarizer, NoChild   \* the processes of a job

ASSUME ChildAssumption ==
  /\ SourceStep # Whisper /\ SourceStep # Diarizer /\ Whisper # Diarizer
  /\ NoChild \notin {SourceStep, Whisper, Diarizer}

Child == {SourceStep, Whisper, Diarizer}
Key == {"job", "job::diarize"}

VARIABLES
  entry,       \* which command runs the job
  detect,      \* speaker detection was asked for
  at,          \* the await at which the pipeline's task is suspended
  diarize,     \* the same for the diarizer's task
  child,       \* what has become of each process
  registry,    \* the process registered under each key of the job
  flagged,     \* the job is in `cancelled`
  stop         \* the Stop in progress, or answered

jobVars == <<entry, detect, at, diarize, child, registry, flagged, stop>>

JobTypeOK ==
  /\ entry \in {"url", "local", "prepared"} /\ detect \in BOOLEAN
  /\ at \in {"idle", "source", "sourceUp", "sourceRuns", "gate", "early", "spawn",
             "whisperUp", "whisperRuns", "merge", "finish", "sweep", "done"}
  /\ diarize \in {"off", "starting", "spawned", "registered", "running", "ended"}
  /\ child \in [Child -> {"none", "alive", "ok", "failed", "killed"}]
  /\ registry \in [Key -> Child \cup {NoChild}]
  /\ flagged \in BOOLEAN
  /\ stop \in {"none", "marked", "acknowledged"}

JobInit ==
  /\ entry = "url" /\ detect = FALSE
  /\ at = "idle"
  /\ diarize = "off"
  /\ child = [c \in Child |-> "none"]
  /\ registry = [k \in Key |-> NoChild]
  /\ flagged = FALSE
  /\ stop = "none"

Alive(c) == c \in Child /\ child[c] = "alive"
Registered(c) == \E k \in Key : registry[k] = c
Insert(k, c) == registry' = [registry EXCEPT ![k] = c]
TakeKey(k) == registry' = [registry EXCEPT ![k] = NoChild]

\* take_job, and the kill of everything it took.
SweepRegistry ==
  /\ child' = [c \in Child |-> IF Registered(c) /\ Alive(c) THEN "killed" ELSE child[c]]
  /\ registry' = [k \in Key |-> NoChild]

\* A process exits by itself, well or badly; which, its pipeline reads later.
Exits(c) ==
  /\ Alive(c)
  /\ \E how \in {"ok", "failed"} : child' = [child EXCEPT ![c] = how]
  /\ UNCHANGED <<entry, detect, at, diarize, registry, flagged, stop>>

-----------------------------------------------------------------------------
(* The pipeline.                                                           *)

Goes(to) == at' = to /\ UNCHANGED <<entry, detect, stop>>

\* One of the three commands is invoked.
BeginJob ==
  /\ at = "idle"
  /\ entry' \in {"url", "local", "prepared"} /\ detect' \in BOOLEAN
  /\ at' = IF entry' = "prepared" THEN "gate" ELSE "source"
  /\ UNCHANGED <<diarize, child, registry, flagged, stop>>

\* yt-dlp for a URL, ffmpeg for a local file.  A refused spawn ends the job.
SpawnSource ==
  /\ at = "source"
  /\ \/ Goes("sourceUp") /\ child' = [child EXCEPT ![SourceStep] = "alive"]
     \/ Goes(IF entry = "url" THEN "done" ELSE "finish") /\ UNCHANGED child
  /\ UNCHANGED <<diarize, registry, flagged>>

RegisterSource ==
  /\ at = "sourceUp"
  /\ Goes("sourceRuns") /\ Insert("job", SourceStep)
  /\ UNCHANGED <<diarize, child, flagged>>

\* Terminated.  What follows may still fail: the conversion, an empty WAV.
SourceEnds ==
  /\ at = "sourceRuns" /\ child[SourceStep] \notin {"none", "alive"}
  /\ \/ child[SourceStep] = "ok" /\ Goes("gate")
     \/ Goes(IF entry = "url" THEN "done" ELSE "finish")
  /\ TakeKey("job")
  /\ UNCHANGED <<diarize, child, flagged>>

\* extract_wav_16k_tracked: a source silent for too long is taken and killed.
SourceStalls ==
  /\ at = "sourceRuns" /\ entry = "local" /\ Alive(SourceStep)
  /\ child' = [child EXCEPT ![SourceStep] = IF Registered(SourceStep) THEN "killed" ELSE @]
  /\ TakeKey("job")
  /\ Goes("finish") /\ UNCHANGED <<diarize, flagged>>

\* The poll of the flag after the VAD fetch, the last before whisper.
Gate ==
  /\ at = "gate"
  /\ Goes(IF flagged THEN "finish" ELSE IF entry = "local" THEN "spawn" ELSE "early")
  /\ UNCHANGED <<diarize, child, registry, flagged>>

\* start_diarizer_early: before whisper, or after it for a local file.
StartDiarizerEarly ==
  /\ at = "early"
  /\ diarize' = IF detect /\ ~flagged THEN "starting" ELSE diarize
  /\ Goes(IF entry = "local" THEN "whisperRuns" ELSE "spawn")
  /\ UNCHANGED <<child, registry, flagged>>

\* A whisper that cannot be found or spawned ends the job without finish_job.
SpawnWhisper ==
  /\ at = "spawn"
  /\ \/ Goes("whisperUp") /\ child' = [child EXCEPT ![Whisper] = "alive"]
     \/ Goes("done") /\ UNCHANGED child
  /\ UNCHANGED <<diarize, registry, flagged>>

RegisterWhisper ==
  /\ at = "whisperUp"
  /\ Insert("job", Whisper)
  /\ Goes(IF entry = "local" THEN "early" ELSE "whisperRuns")
  /\ UNCHANGED <<diarize, child, flagged>>

\* Terminated: merge the speakers if whisper wrote its SRT and nobody stopped.
WhisperEnds ==
  /\ at = "whisperRuns" /\ ~Alive(Whisper)
  /\ TakeKey("job")
  /\ \/ child[Whisper] = "ok" /\ detect /\ ~flagged /\ Goes("merge")
     \/ Goes("finish")
  /\ UNCHANGED <<diarize, child, flagged>>

\* run_diarize_and_merge adopts the early task and waits for it.
Merge ==
  /\ at = "merge" /\ diarize = "ended"
  /\ Goes("finish") /\ UNCHANGED <<diarize, child, registry, flagged>>

\* finish_job: the flag, then the registry under its own lock; then done.
ClearFlag ==
  /\ at = "finish"
  /\ flagged' = FALSE
  /\ Goes("sweep") /\ UNCHANGED <<diarize, child, registry>>

FinishSweep ==
  /\ at = "sweep"
  /\ SweepRegistry
  /\ Goes("done") /\ UNCHANGED <<diarize, flagged>>

-----------------------------------------------------------------------------
(* run_diarizer, on its detached task.                                     *)

Diarize(to) == diarize' = to /\ UNCHANGED <<entry, detect, at, flagged, stop>>

SpawnDiarizer ==
  /\ diarize = "starting"
  /\ \/ Diarize("spawned") /\ child' = [child EXCEPT ![Diarizer] = "alive"]
     \/ Diarize("ended") /\ UNCHANGED child
  /\ UNCHANGED registry

\* Mutant: the diarizer registered under the bare job id, as whisper is.
RegisterUnderJob ==
  /\ diarize = "spawned"
  /\ Diarize("registered") /\ Insert("job", Diarizer)
  /\ UNCHANGED child

RegisterDiarizer ==
  /\ diarize = "spawned"
  /\ Diarize("registered") /\ Insert("job::diarize", Diarizer)
  /\ UNCHANGED child

\* Mutant: a diarizer that relies on the caller's poll of the flag.
RecheckNothing ==
  /\ diarize = "registered"
  /\ Diarize("running") /\ UNCHANGED <<child, registry>>

\* The second look at the flag, once Stop's sweep can reach the process.
Recheck ==
  /\ diarize = "registered"
  /\ IF flagged
       THEN /\ child' = [child EXCEPT ![Diarizer] =
                           IF Alive(Diarizer) /\ Registered(Diarizer) THEN "killed" ELSE @]
            /\ TakeKey("job::diarize")
            /\ Diarize("ended")
       ELSE Diarize("running") /\ UNCHANGED <<child, registry>>

\* Mutant: a loop that takes a kill for one more line of output.
EndsUnlessKilled ==
  /\ diarize = "running" /\ child[Diarizer] \in {"ok", "failed"}
  /\ Diarize("ended") /\ TakeKey("job::diarize") /\ UNCHANGED child

DiarizerEnds ==
  /\ diarize = "running" /\ ~Alive(Diarizer)
  /\ Diarize("ended") /\ TakeKey("job::diarize") /\ UNCHANGED child

-----------------------------------------------------------------------------
(* cancel_job, for as long as the job is shown.                            *)

MarkCancelled ==
  /\ stop # "marked" /\ at \notin {"idle", "done"}
  /\ flagged' = TRUE /\ stop' = "marked"
  /\ UNCHANGED <<entry, detect, at, diarize, child, registry>>

TakeJob ==
  /\ stop = "marked"
  /\ SweepRegistry
  /\ stop' = "acknowledged"
  /\ UNCHANGED <<entry, detect, at, diarize, flagged>>

Pipeline ==
  \/ SpawnSource \/ RegisterSource \/ SourceEnds \/ SourceStalls \/ Gate
  \/ StartDiarizerEarly \/ SpawnWhisper \/ RegisterWhisper \/ WhisperEnds
  \/ Merge \/ ClearFlag \/ FinishSweep

DiarizerTask == SpawnDiarizer \/ RegisterDiarizer \/ Recheck \/ DiarizerEnds

JobNext ==
  \/ BeginJob \/ Pipeline \/ DiarizerTask \/ MarkCancelled \/ TakeJob
  \/ \E c \in Child : Exits(c)

JobSpec == JobInit /\ [][JobNext]_jobVars

\* Both tasks are polled, a Stop is carried through, and processes end.
JobFairness ==
  /\ WF_jobVars(Pipeline) /\ WF_jobVars(DiarizerTask) /\ WF_jobVars(TakeJob)
  /\ \A c \in Child : WF_jobVars(Exits(c))

-----------------------------------------------------------------------------
(* What Stop and the end of a job promise.                                 *)

\* The awaits between the spawn of a process and its registration.
BeingRegistered(c) ==
  \/ c = SourceStep /\ at = "sourceUp"
  \/ c = Whisper /\ at = "whisperUp"
  \/ c = Diarizer /\ diarize = "spawned"

\* No live process is out of reach of Stop and of the sweep at exit: outside
\* the instant of its spawn each is in the registry, under a key of its own.
EveryChildIsReachable ==
  \A c \in Child : Alive(c) => Registered(c) \/ BeingRegistered(c)

\* While the job's flag stands, a diarizer that has looked at it does not
\* outlive an acknowledged Stop, however Stop and its registration interleave.
StopReachesTheDiarizer ==
  flagged /\ stop = "acknowledged" /\ diarize = "running" => ~Alive(Diarizer)

\* Every job ends and reports it, stopped or not: nothing waits for a process
\* that was killed or for a task that gave up.
JobEnds == at # "idle" ~> at = "done"

\* Violated: a job that has reported its end runs nothing any more
\* (finish_job "KILL[S] what is swept", run_diarizer "closes the window").
OverRunsNothing ==
  at = "done" /\ diarize \in {"running", "ended"} => \A c \in Child : ~Alive(c)
=============================================================================
