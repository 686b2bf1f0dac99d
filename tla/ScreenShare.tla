---------------------------- MODULE ScreenShare ----------------------------
(***************************************************************************)
(* One screen share after another: the ShareController of the page         *)
(* (share-machine.ts, share-stream.ts), the share route of the native      *)
(* proxy that serves its stream (stream_proxy.rs) and the registry that    *)
(* owns the capture and encoder processes (share_attempt.rs).              *)
(*                                                                         *)
(* The page's stop call names no attempt: it stops whatever the registry   *)
(* holds.  Everything here turns on an attempt's late calls never meeting  *)
(* its replacement.                                                        *)
(***************************************************************************)
EXTENDS Naturals

CONSTANT Attempts    \* how often a share may be started, a bound: 1..Attempts

ASSUME AttemptsAssumption == Attempts \in Nat

Attempt == 1 .. Attempts
None == 0            \* no attempt: null, or a promise already resolved

VARIABLES
  attempt,     \* the controller's attempt, None when idle
  phase,       \* the controller's state
  retiring,    \* whose cleanup promise `retiring` is
  stage,       \* the await at which each start() is suspended
  began,       \* the attempts that got as far as calling native start
  awaits,      \* the cleanup each start() waits for
  cleanup,     \* how far each attempt's cleanup has got
  behind,      \* the cleanup each cleanup waits for
  again,       \* the attempts whose cleanup has to stop native a second time
  override,    \* whose track the peers are sent, None for the camera
  current,     \* the registry's attempt
  cancelled,   \* the native attempts shut down
  owned,       \* the processes and the audio FIFO each native attempt owns
  serve        \* how far the share route has got with each attempt's request

pageVars == <<attempt, phase, retiring, stage, began, awaits, cleanup, behind,
              again, override>>
nativeVars == <<current, cancelled, owned, serve>>
shareVars == <<pageVars, nativeVars>>

Stage == {"new", "waiting", "starting", "granted", "opening", "opened", "settled"}
Step == {"none", "stop", "wait", "stopAgain", "done"}
Part == {"fifo", "capture", "encoder"}
Serve == {"none", "queued", "claimed", "metadata", "streaming", "ended"}

ShareTypeOK ==
  /\ {attempt, retiring, override, current} \subseteq Attempt \cup {None}
  /\ phase \in {"idle", "starting", "sharing"}
  /\ stage \in [Attempt -> Stage]
  /\ cleanup \in [Attempt -> Step]
  /\ {awaits, behind} \subseteq [Attempt -> Attempt \cup {None}]
  /\ {began, again, cancelled} \subseteq SUBSET Attempt
  /\ owned \in [Attempt -> SUBSET Part]
  /\ serve \in [Attempt -> Serve]

ShareInit ==
  /\ attempt = None /\ retiring = None /\ override = None /\ current = None
  /\ phase = "idle"
  /\ stage = [a \in Attempt |-> "new"]
  /\ cleanup = [a \in Attempt |-> "none"]
  /\ awaits = [a \in Attempt |-> None]
  /\ behind = [a \in Attempt |-> None]
  /\ began = {} /\ again = {} /\ cancelled = {}
  /\ owned = [a \in Attempt |-> {}]
  /\ serve = [a \in Attempt |-> "none"]

-----------------------------------------------------------------------------
(* The page.                                                               *)

Retired(a) == a # None => cleanup[a] = "done"

\* cleanup(): invalidate, restore the camera, and leave the rest to native.
CleanupAttempt(a, pending) ==
  /\ attempt' = None
  /\ phase' = "idle"
  /\ override' = None
  /\ behind' = [behind EXCEPT ![a] = retiring]
  /\ retiring' = a
  /\ cleanup' = [cleanup EXCEPT ![a] = IF a \in began THEN "stop" ELSE "wait"]
  /\ again' = IF pending /\ a \in began THEN again \cup {a} ELSE again

KeepControls == UNCHANGED <<attempt, phase, retiring, cleanup, behind, again, override>>

Start(a) ==
  /\ phase = "idle"
  /\ stage[a] = "new" /\ \A b \in 1 .. (a - 1) : stage[b] # "new"
  /\ attempt' = a
  /\ phase' = "starting"
  /\ stage' = [stage EXCEPT ![a] = "waiting"]
  /\ awaits' = [awaits EXCEPT ![a] = retiring]
  /\ UNCHANGED <<retiring, began, cleanup, behind, again, override, nativeVars>>

\* Mutant: a start that does not wait for its predecessor's cleanup.
AdmittedAtOnce(a) ==
  /\ stage[a] = "waiting"
  /\ stage' = [stage EXCEPT ![a] = IF attempt = a THEN "starting" ELSE "settled"]
  /\ began' = IF attempt = a THEN began \cup {a} ELSE began
  /\ UNCHANGED <<awaits, nativeVars>> /\ KeepControls

\* The predecessor's cleanup has resolved: call native start, unless retired.
Admitted(a) ==
  /\ stage[a] = "waiting"
  /\ Retired(awaits[a])
  /\ stage' = [stage EXCEPT ![a] = IF attempt = a THEN "starting" ELSE "settled"]
  /\ began' = IF attempt = a THEN began \cup {a} ELSE began
  /\ UNCHANGED <<awaits, nativeVars>> /\ KeepControls

\* The URL of start_screen_share arrives.
Granted(a) ==
  /\ stage[a] = "granted"
  /\ stage' = [stage EXCEPT ![a] = IF attempt = a THEN "opening" ELSE "settled"]
  /\ UNCHANGED <<began, awaits, nativeVars>> /\ KeepControls

\* openShareStream asks for the stream once its MediaSource is open.
Fetch(a) ==
  /\ stage[a] = "opening" /\ cleanup[a] = "none" /\ serve[a] = "none"
  /\ serve' = [serve EXCEPT ![a] = "queued"]
  /\ UNCHANGED <<pageVars, current, cancelled, owned>>

\* The first picture is decoded; start() has yet to be resumed.
OpenResolves(a) ==
  /\ stage[a] = "opening" /\ cleanup[a] = "none" /\ serve[a] = "streaming"
  /\ stage' = [stage EXCEPT ![a] = "opened"]
  /\ UNCHANGED <<began, awaits, nativeVars>> /\ KeepControls

\* Mutant: a start() that does not look again whether it was retired meanwhile.
OpenShares(a) ==
  /\ stage[a] = "opened"
  /\ stage' = [stage EXCEPT ![a] = "settled"]
  /\ override' = a /\ phase' = "sharing"
  /\ UNCHANGED <<attempt, retiring, began, awaits, cleanup, behind, again, nativeVars>>

\* start() resumes with the stream: share it, or close it if retired meanwhile.
OpenContinues(a) ==
  /\ stage[a] = "opened"
  /\ stage' = [stage EXCEPT ![a] = "settled"]
  /\ IF attempt = a
       THEN override' = a /\ phase' = "sharing"
       ELSE UNCHANGED <<override, phase>>
  /\ UNCHANGED <<attempt, retiring, began, awaits, cleanup, behind, again, nativeVars>>

\* The awaited call rejects: refusal, HTTP error, 15 seconds, abort, no mix.
StartFails(a) ==
  /\ stage[a] \in {"starting", "opening", "opened"}
  /\ stage' = [stage EXCEPT ![a] = "settled"]
  /\ IF attempt = a THEN CleanupAttempt(a, FALSE) ELSE KeepControls
  /\ UNCHANGED <<began, awaits, nativeVars>>

\* Mutant: a cleanup that takes one stop of the native side to be enough.
StopOnce(a) ==
  /\ attempt = a
  /\ CleanupAttempt(a, FALSE)
  /\ UNCHANGED <<stage, began, awaits, nativeVars>>

\* The bar's button, or the end of the session.
Stop(a) ==
  /\ attempt = a
  /\ CleanupAttempt(a, stage[a] # "settled")
  /\ UNCHANGED <<stage, began, awaits, nativeVars>>

\* The stream ends under an open share: onPipelineDied.
Died(a) ==
  /\ attempt = a /\ stage[a] \in {"opened", "settled"}
  /\ CleanupAttempt(a, stage[a] # "settled")
  /\ UNCHANGED <<stage, began, awaits, nativeVars>>

\* Mutant: a cleanup that waits for `retiring` as it is then: its own, or a later one.
SettlesBehindItself(a) ==
  /\ cleanup[a] = "wait" /\ Retired(retiring) /\ stage[a] = "settled"
  /\ cleanup' = [cleanup EXCEPT ![a] = IF a \in again THEN "stopAgain" ELSE "done"]
  /\ UNCHANGED <<attempt, phase, retiring, stage, began, awaits, behind, again,
                 override, nativeVars>>

\* A cleanup goes on when the one before it and its own start() have settled.
Settles(a) ==
  /\ cleanup[a] = "wait" /\ Retired(behind[a]) /\ stage[a] = "settled"
  /\ cleanup' = [cleanup EXCEPT ![a] = IF a \in again THEN "stopAgain" ELSE "done"]
  /\ UNCHANGED <<attempt, phase, retiring, stage, began, awaits, behind, again,
                 override, nativeVars>>

-----------------------------------------------------------------------------
(* The native side.                                                        *)

\* State::shutdown of the attempt the registry holds, and what replaces it.
Replace(next) ==
  /\ cancelled' = cancelled \cup ({current} \ {None})
  /\ owned' = [b \in Attempt |-> IF b = current THEN {} ELSE owned[b]]
  /\ current' = next

\* start_screen_share reserves the attempt.
Reserve(a) ==
  /\ stage[a] = "starting"
  /\ stage' = [stage EXCEPT ![a] = "granted"]
  /\ Replace(a)
  /\ UNCHANGED <<began, awaits, serve>> /\ KeepControls

\* stop_screen_share, for either of the two stops of a's cleanup.
StopNative(a) ==
  /\ cleanup[a] \in {"stop", "stopAgain"}
  /\ cleanup' = [cleanup EXCEPT ![a] = IF @ = "stop" THEN "wait" ELSE "done"]
  /\ Replace(None)
  /\ UNCHANGED <<attempt, phase, retiring, stage, began, awaits, behind, again,
                 override, serve>>

\* serve_share claims the attempt its URL names, or refuses the request.
Claim(a) ==
  /\ serve[a] = "queued"
  /\ serve' = [serve EXCEPT ![a] = IF current = a THEN "claimed" ELSE "ended"]
  /\ UNCHANGED <<pageVars, current, cancelled, owned>>

\* Mutant: a spawn that does not look at `cancelled` under the attempt's lock.
TakeUnchecked(a, part, from, to) ==
  /\ serve[a] = from
  /\ owned' = [owned EXCEPT ![a] = @ \cup {part}]
  /\ serve' = [serve EXCEPT ![a] = to]
  /\ UNCHANGED <<pageVars, current, cancelled>>

\* Lease::spawn and own_fifo: taken and registered in one step, unless cancelled.
Take(a, part, from, to) ==
  /\ serve[a] = from
  /\ a \notin cancelled
  /\ owned' = [owned EXCEPT ![a] = @ \cup {part}]
  /\ serve' = [serve EXCEPT ![a] = to]
  /\ UNCHANGED <<pageVars, current, cancelled>>

OwnFifo(a) == Take(a, "fifo", "claimed", "claimed")
SpawnCapture(a) == Take(a, "capture", "claimed", "metadata")
SpawnEncoder(a) == Take(a, "encoder", "metadata", "streaming")
SpawnFallback(a) == Take(a, "encoder", "claimed", "streaming")   \* avfoundation

\* The handler returns (no metadata, end of file, client gone): Lease::finish.
Finish(a) ==
  /\ serve[a] \in {"claimed", "metadata", "streaming"}
  /\ serve' = [serve EXCEPT ![a] = "ended"]
  /\ cancelled' = cancelled \cup {a}
  /\ owned' = [owned EXCEPT ![a] = {}]
  /\ current' = IF current = a THEN None ELSE current
  /\ UNCHANGED pageVars

PageStep(a) ==
  \/ Start(a) \/ Admitted(a) \/ Granted(a) \/ Fetch(a)
  \/ OpenResolves(a) \/ OpenContinues(a) \/ StartFails(a)
  \/ Stop(a) \/ Died(a) \/ Settles(a)

NativeStep(a) ==
  \/ Reserve(a) \/ StopNative(a) \/ Claim(a) \/ OwnFifo(a) \/ SpawnCapture(a)
  \/ SpawnEncoder(a) \/ SpawnFallback(a) \/ Finish(a)

ShareNext == \E a \in Attempt : PageStep(a) \/ NativeStep(a)

ShareSpec == ShareInit /\ [][ShareNext]_shareVars

\* The event loop and the command handlers run; an aborted open rejects.
ShareFairness ==
  \A a \in Attempt :
    /\ WF_shareVars(Admitted(a) \/ Granted(a) \/ OpenContinues(a))
    /\ WF_shareVars(Settles(a) \/ StopNative(a))
    /\ WF_shareVars(Reserve(a))
    /\ WF_shareVars(StartFails(a) /\ cleanup[a] # "none" /\ stage[a] = "opening")

-----------------------------------------------------------------------------
(* What the two sides promise.                                             *)

\* The native stop of one attempt's cleanup finds that attempt or nothing: it
\* never reaches the share that replaced it (the comment on `retiring`).
StopsOnlyItsOwn ==
  \A a \in Attempt : cleanup[a] \in {"stop", "stopAgain"} => current \in {a, None}

\* A cleaned-up attempt has left nothing behind and can start nothing: its
\* start() has settled, no process of it runs and its URL is dead.
RetiredIsGone ==
  \A a \in Attempt :
    cleanup[a] = "done" => stage[a] = "settled" /\ owned[a] = {} /\ current # a

\* Processes belong to the registry's attempt, so one stop call reaches every
\* one of them, in any order of stop, replacement, claim and spawn.
NoOrphanCapture == \A a \in Attempt : owned[a] # {} => current = a

\* The peers see a track only of the attempt the controller holds, and a share
\* the room takes to be stopped is shown to nobody.
OnlyTheLiveTrack ==
  override # None => override = attempt /\ phase = "sharing" /\ cleanup[override] = "none"

\* Every cleanup ends, so a start that waits for it is let in.
CleanupEnds ==
  \A a \in Attempt : cleanup[a] # "none" ~> cleanup[a] = "done"
=============================================================================
