--------------------------- MODULE Machines_proofs ---------------------------
(* What the machines promise: the screen share, the transcription job, the player
   of web sources and the undo log of an edit. *)
EXTENDS ScreenShare, TranscriptJob, WebPlayback, EditLog, WellFoundedInduction, TLAPS

-----------------------------------------------------------------------------
(***************************************************************************)
(* What ScreenShare promises, for any number of attempts.                  *)
(*                                                                         *)
(* The argument is that attempts are retired in the order in which they    *)
(* were started: each start and each cleanup waits for the attempt before  *)
(* (Ordered), an attempt reaches the native side only once all before it   *)
(* are done (Admission), and one that is done has left it (Gone).          *)
(***************************************************************************)

Before(a) == 1 .. (a - 1)

\* The page holds one attempt at a time, the last one started; every other
\* one has a cleanup, and waits for the one before it.
Ordered ==
  /\ phase = "idle" <=> attempt = None
  /\ attempt # None => stage[attempt] # "new" /\ cleanup[attempt] = "none"
  /\ retiring # None => cleanup[retiring] # "none"
  /\ \A a \in Attempt :
       /\ stage[a] # "new" =>
            /\ \A b \in Before(a) : stage[b] # "new" /\ cleanup[b] # "none"
            /\ a # attempt => cleanup[a] # "none"
            /\ awaits[a] = a - 1
       /\ cleanup[a] # "none" => /\ stage[a] # "new" /\ retiring >= a
                                 /\ behind[a] = a - 1

\* An attempt that calls the native side has only done ones before it.
Admission ==
  /\ again \subseteq began
  /\ current # None => current \in began
  /\ \A a \in Attempt :
       /\ stage[a] \in {"starting", "granted", "opening", "opened"} => a \in began
       /\ cleanup[a] \in {"stop", "stopAgain"} => a \in began
       /\ a \in began => stage[a] # "new" /\ \A b \in Before(a) : cleanup[b] = "done"
       /\ cleanup[a] \in {"stopAgain", "done"} =>
            stage[a] = "settled" /\ \A b \in Before(a) : cleanup[b] = "done"
       /\ cleanup[a] # "none" /\ a \in began /\ stage[a] # "settled" => a \in again

\* The second stop is enough: without one to come, the registry has let go.
LetGo ==
  \A a \in Attempt :
    \/ cleanup[a] = "done"
    \/ cleanup[a] = "wait" /\ stage[a] = "settled" /\ a \notin again
    => current # a

\* Processes are owned under a lease that the registry holds or has cancelled.
Leased ==
  \A a \in Attempt :
    /\ owned[a] # {} => current = a
    /\ serve[a] \in {"claimed", "metadata", "streaming"} => current = a \/ a \in cancelled

ShareInv == ShareTypeOK /\ Ordered /\ Admission /\ LetGo /\ Leased /\ OnlyTheLiveTrack

USE DEF Attempt, None

LEMMA ShareBegins == ShareInit => ShareInv
  BY AttemptsAssumption
  DEF ShareInit, ShareInv, ShareTypeOK, Ordered, Admission, LetGo, Leased,
      OnlyTheLiveTrack, Stage, Step, Part, Serve

LEMMA ShareTypeStep == ShareTypeOK /\ [ShareNext]_shareVars => ShareTypeOK'
<1> USE AttemptsAssumption DEF ShareTypeOK, Stage, Step, Part, Serve
<1> SUFFICES ASSUME ShareTypeOK, ShareNext \/ UNCHANGED shareVars
             PROVE  ShareTypeOK'
  OBVIOUS
<1>0. CASE UNCHANGED shareVars
  BY <1>0 DEF shareVars, pageVars, nativeVars
<1>1. ASSUME NEW a \in Attempt, Start(a) PROVE ShareTypeOK'
  BY <1>1 DEF Start, pageVars, nativeVars
<1>2. ASSUME NEW a \in Attempt, Admitted(a) PROVE ShareTypeOK'
  BY <1>2 DEF Admitted, KeepControls, pageVars, nativeVars
<1>3. ASSUME NEW a \in Attempt, Granted(a) PROVE ShareTypeOK'
  BY <1>3 DEF Granted, KeepControls, pageVars, nativeVars
<1>4. ASSUME NEW a \in Attempt, Fetch(a) PROVE ShareTypeOK'
  BY <1>4 DEF Fetch, pageVars, nativeVars
<1>5. ASSUME NEW a \in Attempt, OpenResolves(a) PROVE ShareTypeOK'
  BY <1>5 DEF OpenResolves, KeepControls, pageVars, nativeVars
<1>6. ASSUME NEW a \in Attempt, OpenContinues(a) PROVE ShareTypeOK'
  BY <1>6 DEF OpenContinues, pageVars, nativeVars
<1>7. ASSUME NEW a \in Attempt, StartFails(a) PROVE ShareTypeOK'
  <2>1. CASE attempt = a
    <3>1. stage' \in [Attempt -> Stage] /\ cleanup' \in [Attempt -> Step]
      BY <1>7, <2>1 DEF StartFails, CleanupAttempt
    <3>2. behind' \in [Attempt -> Attempt \cup {None}] /\ again' = again
      BY <1>7, <2>1 DEF StartFails, CleanupAttempt
    <3> QED
      BY <1>7, <2>1, <3>1, <3>2 DEF StartFails, CleanupAttempt, nativeVars
  <2>2. CASE attempt # a
    BY <1>7, <2>2 DEF StartFails, KeepControls, nativeVars
  <2> QED
    BY <2>1, <2>2
<1>8. ASSUME NEW a \in Attempt, Stop(a) PROVE ShareTypeOK'
  BY <1>8 DEF Stop, CleanupAttempt, pageVars, nativeVars
<1>9. ASSUME NEW a \in Attempt, Died(a) PROVE ShareTypeOK'
  BY <1>9 DEF Died, CleanupAttempt, pageVars, nativeVars
<1>10. ASSUME NEW a \in Attempt, Settles(a) PROVE ShareTypeOK'
  BY <1>10 DEF Settles, pageVars, nativeVars
<1>11. ASSUME NEW a \in Attempt, Reserve(a) PROVE ShareTypeOK'
  BY <1>11 DEF Reserve, Replace, KeepControls, pageVars, nativeVars
<1>12. ASSUME NEW a \in Attempt, StopNative(a) PROVE ShareTypeOK'
  BY <1>12 DEF StopNative, Replace, pageVars, nativeVars
<1>13. ASSUME NEW a \in Attempt, Claim(a) PROVE ShareTypeOK'
  BY <1>13 DEF Claim, pageVars, nativeVars
<1>14. ASSUME NEW a \in Attempt, OwnFifo(a) PROVE ShareTypeOK'
  BY <1>14 DEF OwnFifo, Take, pageVars, nativeVars
<1>15. ASSUME NEW a \in Attempt, SpawnCapture(a) PROVE ShareTypeOK'
  BY <1>15 DEF SpawnCapture, Take, pageVars, nativeVars
<1>16. ASSUME NEW a \in Attempt, SpawnEncoder(a) PROVE ShareTypeOK'
  BY <1>16 DEF SpawnEncoder, Take, pageVars, nativeVars
<1>17. ASSUME NEW a \in Attempt, SpawnFallback(a) PROVE ShareTypeOK'
  BY <1>17 DEF SpawnFallback, Take, pageVars, nativeVars
<1>18. ASSUME NEW a \in Attempt, Finish(a) PROVE ShareTypeOK'
  BY <1>18 DEF Finish, pageVars, nativeVars
<1> QED
  BY <1>0, <1>1, <1>2, <1>3, <1>4, <1>5, <1>6, <1>7, <1>8, <1>9, <1>10, <1>11, <1>12, <1>13, <1>14, <1>15, <1>16, <1>17, <1>18 DEF ShareNext, PageStep, NativeStep

LEMMA OrderedStep ==
  ASSUME ShareTypeOK, Ordered, [ShareNext]_shareVars PROVE Ordered'
<1> USE AttemptsAssumption DEF ShareTypeOK, Stage, Step, Ordered, Before
<1>0. CASE UNCHANGED shareVars
  BY <1>0 DEF shareVars, pageVars, nativeVars
<1>1. ASSUME NEW a \in Attempt, Start(a) PROVE Ordered'
  BY <1>1 DEF Start, pageVars, nativeVars
<1>2. ASSUME NEW a \in Attempt, Admitted(a) PROVE Ordered'
  BY <1>2 DEF Admitted, KeepControls, Retired, pageVars, nativeVars
<1>3. ASSUME NEW a \in Attempt, Granted(a) PROVE Ordered'
  BY <1>3 DEF Granted, KeepControls, pageVars, nativeVars
<1>4. ASSUME NEW a \in Attempt, Fetch(a) PROVE Ordered'
  BY <1>4 DEF Fetch, pageVars, nativeVars
<1>5. ASSUME NEW a \in Attempt, OpenResolves(a) PROVE Ordered'
  BY <1>5 DEF OpenResolves, KeepControls, pageVars, nativeVars
<1>6. ASSUME NEW a \in Attempt, OpenContinues(a) PROVE Ordered'
  BY <1>6 DEF OpenContinues, pageVars, nativeVars
<1>7. ASSUME NEW a \in Attempt, StartFails(a) PROVE Ordered'
  <2>1. CASE attempt = a
    <3>1. /\ phase' = "idle" /\ attempt' = None /\ retiring' = a /\ awaits' = awaits
          /\ behind' = [behind EXCEPT ![a] = retiring]
          /\ stage' = [stage EXCEPT ![a] = "settled"]
          /\ cleanup'[a] # "none" /\ \A b \in Attempt \ {a} : cleanup'[b] = cleanup[b]
      BY <1>7, <2>1 DEF StartFails, CleanupAttempt
    <3>2. retiring = a - 1 /\ stage[a] # "new"
      BY <2>1
    <3>3. \A b \in Attempt : stage'[b] # "new" <=> stage[b] # "new"
      BY <3>1, <3>2
    <3> QED
      BY <2>1, <3>1, <3>2, <3>3
  <2>2. CASE attempt # a
    BY <1>7, <2>2 DEF StartFails, KeepControls
  <2> QED
    BY <2>1, <2>2
<1>8. ASSUME NEW a \in Attempt, Stop(a) PROVE Ordered'
  BY <1>8 DEF Stop, CleanupAttempt, pageVars, nativeVars
<1>9. ASSUME NEW a \in Attempt, Died(a) PROVE Ordered'
  BY <1>9 DEF Died, CleanupAttempt, pageVars, nativeVars
<1>10. ASSUME NEW a \in Attempt, Settles(a) PROVE Ordered'
  BY <1>10 DEF Settles, Retired, pageVars, nativeVars
<1>11. ASSUME NEW a \in Attempt, Reserve(a) PROVE Ordered'
  BY <1>11 DEF Reserve, Replace, KeepControls, pageVars, nativeVars
<1>12. ASSUME NEW a \in Attempt, StopNative(a) PROVE Ordered'
  BY <1>12 DEF StopNative, Replace, pageVars, nativeVars
<1>13. ASSUME NEW a \in Attempt, Claim(a) PROVE Ordered'
  BY <1>13 DEF Claim, pageVars, nativeVars
<1>14. ASSUME NEW a \in Attempt, OwnFifo(a) PROVE Ordered'
  BY <1>14 DEF OwnFifo, Take, pageVars, nativeVars
<1>15. ASSUME NEW a \in Attempt, SpawnCapture(a) PROVE Ordered'
  BY <1>15 DEF SpawnCapture, Take, pageVars, nativeVars
<1>16. ASSUME NEW a \in Attempt, SpawnEncoder(a) PROVE Ordered'
  BY <1>16 DEF SpawnEncoder, Take, pageVars, nativeVars
<1>17. ASSUME NEW a \in Attempt, SpawnFallback(a) PROVE Ordered'
  BY <1>17 DEF SpawnFallback, Take, pageVars, nativeVars
<1>18. ASSUME NEW a \in Attempt, Finish(a) PROVE Ordered'
  BY <1>18 DEF Finish, pageVars, nativeVars
<1> QED
  BY <1>0, <1>1, <1>2, <1>3, <1>4, <1>5, <1>6, <1>7, <1>8, <1>9, <1>10, <1>11, <1>12, <1>13, <1>14, <1>15, <1>16, <1>17, <1>18 DEF ShareNext, PageStep, NativeStep

LEMMA AdmissionStep ==
  ASSUME ShareTypeOK, Ordered, Admission, [ShareNext]_shareVars PROVE Admission'
<1> USE AttemptsAssumption DEF ShareTypeOK, Stage, Step, Ordered, Admission, Before
<1>0. CASE UNCHANGED shareVars
  BY <1>0 DEF shareVars, pageVars, nativeVars
<1>1. ASSUME NEW a \in Attempt, Start(a) PROVE Admission'
  BY <1>1 DEF Start, pageVars, nativeVars
<1>2. ASSUME NEW a \in Attempt, Admitted(a) PROVE Admission'
  BY <1>2 DEF Admitted, KeepControls, Retired, pageVars, nativeVars
<1>3. ASSUME NEW a \in Attempt, Granted(a) PROVE Admission'
  BY <1>3 DEF Granted, KeepControls, pageVars, nativeVars
<1>4. ASSUME NEW a \in Attempt, Fetch(a) PROVE Admission'
  BY <1>4 DEF Fetch, pageVars, nativeVars
<1>5. ASSUME NEW a \in Attempt, OpenResolves(a) PROVE Admission'
  BY <1>5 DEF OpenResolves, KeepControls, pageVars, nativeVars
<1>6. ASSUME NEW a \in Attempt, OpenContinues(a) PROVE Admission'
  BY <1>6 DEF OpenContinues, pageVars, nativeVars
<1>7. ASSUME NEW a \in Attempt, StartFails(a) PROVE Admission'
  BY <1>7 DEF StartFails, CleanupAttempt, KeepControls, pageVars, nativeVars
<1>8. ASSUME NEW a \in Attempt, Stop(a) PROVE Admission'
  BY <1>8 DEF Stop, CleanupAttempt, pageVars, nativeVars
<1>9. ASSUME NEW a \in Attempt, Died(a) PROVE Admission'
  BY <1>9 DEF Died, CleanupAttempt, pageVars, nativeVars
<1>10. ASSUME NEW a \in Attempt, Settles(a) PROVE Admission'
  <2>1. behind[a] = a - 1 /\ stage[a] = "settled" /\ cleanup[a] = "wait"
    BY <1>10 DEF Settles
  <2>2. \A b \in Before(a) : cleanup[b] = "done"
    <3> SUFFICES ASSUME NEW b \in Before(a) PROVE cleanup[b] = "done"
      OBVIOUS
    <3>1. a - 1 \in Attempt /\ cleanup[a - 1] = "done" /\ b \in Attempt
      BY <1>10, <2>1 DEF Settles, Retired
    <3>2. \A d \in Before(a - 1) : cleanup[d] = "done"
      BY <3>1
    <3>3. b = a - 1 \/ b \in Before(a - 1)
      BY <3>1
    <3> QED
      BY <3>1, <3>2, <3>3
  <2> QED
    BY <1>10, <2>1, <2>2 DEF Settles, pageVars, nativeVars
<1>11. ASSUME NEW a \in Attempt, Reserve(a) PROVE Admission'
  BY <1>11 DEF Reserve, Replace, KeepControls, pageVars, nativeVars
<1>12. ASSUME NEW a \in Attempt, StopNative(a) PROVE Admission'
  BY <1>12 DEF StopNative, Replace, pageVars, nativeVars
<1>13. ASSUME NEW a \in Attempt, Claim(a) PROVE Admission'
  BY <1>13 DEF Claim, pageVars, nativeVars
<1>14. ASSUME NEW a \in Attempt, OwnFifo(a) PROVE Admission'
  BY <1>14 DEF OwnFifo, Take, pageVars, nativeVars
<1>15. ASSUME NEW a \in Attempt, SpawnCapture(a) PROVE Admission'
  BY <1>15 DEF SpawnCapture, Take, pageVars, nativeVars
<1>16. ASSUME NEW a \in Attempt, SpawnEncoder(a) PROVE Admission'
  BY <1>16 DEF SpawnEncoder, Take, pageVars, nativeVars
<1>17. ASSUME NEW a \in Attempt, SpawnFallback(a) PROVE Admission'
  BY <1>17 DEF SpawnFallback, Take, pageVars, nativeVars
<1>18. ASSUME NEW a \in Attempt, Finish(a) PROVE Admission'
  BY <1>18 DEF Finish, pageVars, nativeVars
<1> QED
  BY <1>0, <1>1, <1>2, <1>3, <1>4, <1>5, <1>6, <1>7, <1>8, <1>9, <1>10, <1>11, <1>12, <1>13, <1>14, <1>15, <1>16, <1>17, <1>18 DEF ShareNext, PageStep, NativeStep

LEMMA LetGoStep ==
  ASSUME ShareTypeOK, Ordered, Admission, LetGo, [ShareNext]_shareVars PROVE LetGo'
<1> USE AttemptsAssumption DEF ShareTypeOK, Stage, Step, Ordered, Admission, LetGo
<1>0. CASE UNCHANGED shareVars
  BY <1>0 DEF shareVars, pageVars, nativeVars
<1>1. ASSUME NEW a \in Attempt, Start(a) PROVE LetGo'
  BY <1>1 DEF Start, pageVars, nativeVars
<1>2. ASSUME NEW a \in Attempt, Admitted(a) PROVE LetGo'
  BY <1>2 DEF Admitted, KeepControls, Retired, pageVars, nativeVars
<1>3. ASSUME NEW a \in Attempt, Granted(a) PROVE LetGo'
  BY <1>3 DEF Granted, KeepControls, pageVars, nativeVars
<1>4. ASSUME NEW a \in Attempt, Fetch(a) PROVE LetGo'
  BY <1>4 DEF Fetch, pageVars, nativeVars
<1>5. ASSUME NEW a \in Attempt, OpenResolves(a) PROVE LetGo'
  BY <1>5 DEF OpenResolves, KeepControls, pageVars, nativeVars
<1>6. ASSUME NEW a \in Attempt, OpenContinues(a) PROVE LetGo'
  BY <1>6 DEF OpenContinues, pageVars, nativeVars
<1>7. ASSUME NEW a \in Attempt, StartFails(a) PROVE LetGo'
  BY <1>7 DEF StartFails, CleanupAttempt, KeepControls, pageVars, nativeVars
<1>8. ASSUME NEW a \in Attempt, Stop(a) PROVE LetGo'
  BY <1>8 DEF Stop, CleanupAttempt, pageVars, nativeVars
<1>9. ASSUME NEW a \in Attempt, Died(a) PROVE LetGo'
  BY <1>9 DEF Died, CleanupAttempt, pageVars, nativeVars
<1>10. ASSUME NEW a \in Attempt, Settles(a) PROVE LetGo'
  BY <1>10 DEF Settles, Retired, pageVars, nativeVars
<1>11. ASSUME NEW a \in Attempt, Reserve(a) PROVE LetGo'
  BY <1>11 DEF Reserve, Replace, KeepControls, pageVars, nativeVars
<1>12. ASSUME NEW a \in Attempt, StopNative(a) PROVE LetGo'
  BY <1>12 DEF StopNative, Replace, pageVars, nativeVars
<1>13. ASSUME NEW a \in Attempt, Claim(a) PROVE LetGo'
  BY <1>13 DEF Claim, pageVars, nativeVars
<1>14. ASSUME NEW a \in Attempt, OwnFifo(a) PROVE LetGo'
  BY <1>14 DEF OwnFifo, Take, pageVars, nativeVars
<1>15. ASSUME NEW a \in Attempt, SpawnCapture(a) PROVE LetGo'
  BY <1>15 DEF SpawnCapture, Take, pageVars, nativeVars
<1>16. ASSUME NEW a \in Attempt, SpawnEncoder(a) PROVE LetGo'
  BY <1>16 DEF SpawnEncoder, Take, pageVars, nativeVars
<1>17. ASSUME NEW a \in Attempt, SpawnFallback(a) PROVE LetGo'
  BY <1>17 DEF SpawnFallback, Take, pageVars, nativeVars
<1>18. ASSUME NEW a \in Attempt, Finish(a) PROVE LetGo'
  BY <1>18 DEF Finish, pageVars, nativeVars
<1> QED
  BY <1>0, <1>1, <1>2, <1>3, <1>4, <1>5, <1>6, <1>7, <1>8, <1>9, <1>10, <1>11, <1>12, <1>13, <1>14, <1>15, <1>16, <1>17, <1>18 DEF ShareNext, PageStep, NativeStep

LEMMA LeasedStep ==
  ASSUME ShareTypeOK, Leased, [ShareNext]_shareVars PROVE Leased'
<1> USE AttemptsAssumption DEF ShareTypeOK, Stage, Step, Leased
<1>0. CASE UNCHANGED shareVars
  BY <1>0 DEF shareVars, pageVars, nativeVars
<1>1. ASSUME NEW a \in Attempt, Start(a) PROVE Leased'
  BY <1>1 DEF Start, pageVars, nativeVars
<1>2. ASSUME NEW a \in Attempt, Admitted(a) PROVE Leased'
  BY <1>2 DEF Admitted, KeepControls, Retired, pageVars, nativeVars
<1>3. ASSUME NEW a \in Attempt, Granted(a) PROVE Leased'
  BY <1>3 DEF Granted, KeepControls, pageVars, nativeVars
<1>4. ASSUME NEW a \in Attempt, Fetch(a) PROVE Leased'
  BY <1>4 DEF Fetch, pageVars, nativeVars
<1>5. ASSUME NEW a \in Attempt, OpenResolves(a) PROVE Leased'
  BY <1>5 DEF OpenResolves, KeepControls, pageVars, nativeVars
<1>6. ASSUME NEW a \in Attempt, OpenContinues(a) PROVE Leased'
  BY <1>6 DEF OpenContinues, pageVars, nativeVars
<1>7. ASSUME NEW a \in Attempt, StartFails(a) PROVE Leased'
  BY <1>7 DEF StartFails, CleanupAttempt, KeepControls, pageVars, nativeVars
<1>8. ASSUME NEW a \in Attempt, Stop(a) PROVE Leased'
  BY <1>8 DEF Stop, CleanupAttempt, pageVars, nativeVars
<1>9. ASSUME NEW a \in Attempt, Died(a) PROVE Leased'
  BY <1>9 DEF Died, CleanupAttempt, pageVars, nativeVars
<1>10. ASSUME NEW a \in Attempt, Settles(a) PROVE Leased'
  BY <1>10 DEF Settles, Retired, pageVars, nativeVars
<1>11. ASSUME NEW a \in Attempt, Reserve(a) PROVE Leased'
  BY <1>11 DEF Reserve, Replace, KeepControls, pageVars, nativeVars
<1>12. ASSUME NEW a \in Attempt, StopNative(a) PROVE Leased'
  BY <1>12 DEF StopNative, Replace, pageVars, nativeVars
<1>13. ASSUME NEW a \in Attempt, Claim(a) PROVE Leased'
  BY <1>13 DEF Claim, pageVars, nativeVars
<1>14. ASSUME NEW a \in Attempt, OwnFifo(a) PROVE Leased'
  BY <1>14 DEF OwnFifo, Take, pageVars, nativeVars
<1>15. ASSUME NEW a \in Attempt, SpawnCapture(a) PROVE Leased'
  BY <1>15 DEF SpawnCapture, Take, pageVars, nativeVars
<1>16. ASSUME NEW a \in Attempt, SpawnEncoder(a) PROVE Leased'
  BY <1>16 DEF SpawnEncoder, Take, pageVars, nativeVars
<1>17. ASSUME NEW a \in Attempt, SpawnFallback(a) PROVE Leased'
  BY <1>17 DEF SpawnFallback, Take, pageVars, nativeVars
<1>18. ASSUME NEW a \in Attempt, Finish(a) PROVE Leased'
  BY <1>18 DEF Finish, pageVars, nativeVars
<1> QED
  BY <1>0, <1>1, <1>2, <1>3, <1>4, <1>5, <1>6, <1>7, <1>8, <1>9, <1>10, <1>11, <1>12, <1>13, <1>14, <1>15, <1>16, <1>17, <1>18 DEF ShareNext, PageStep, NativeStep

LEMMA OnlyTheLiveTrackStep ==
  ASSUME ShareTypeOK, Ordered, OnlyTheLiveTrack, [ShareNext]_shareVars PROVE OnlyTheLiveTrack'
<1> USE AttemptsAssumption DEF ShareTypeOK, Stage, Step, Ordered, OnlyTheLiveTrack
<1>0. CASE UNCHANGED shareVars
  BY <1>0 DEF shareVars, pageVars, nativeVars
<1>1. ASSUME NEW a \in Attempt, Start(a) PROVE OnlyTheLiveTrack'
  BY <1>1 DEF Start, pageVars, nativeVars
<1>2. ASSUME NEW a \in Attempt, Admitted(a) PROVE OnlyTheLiveTrack'
  BY <1>2 DEF Admitted, KeepControls, Retired, pageVars, nativeVars
<1>3. ASSUME NEW a \in Attempt, Granted(a) PROVE OnlyTheLiveTrack'
  BY <1>3 DEF Granted, KeepControls, pageVars, nativeVars
<1>4. ASSUME NEW a \in Attempt, Fetch(a) PROVE OnlyTheLiveTrack'
  BY <1>4 DEF Fetch, pageVars, nativeVars
<1>5. ASSUME NEW a \in Attempt, OpenResolves(a) PROVE OnlyTheLiveTrack'
  BY <1>5 DEF OpenResolves, KeepControls, pageVars, nativeVars
<1>6. ASSUME NEW a \in Attempt, OpenContinues(a) PROVE OnlyTheLiveTrack'
  BY <1>6 DEF OpenContinues, pageVars, nativeVars
<1>7. ASSUME NEW a \in Attempt, StartFails(a) PROVE OnlyTheLiveTrack'
  BY <1>7 DEF StartFails, CleanupAttempt, KeepControls, pageVars, nativeVars
<1>8. ASSUME NEW a \in Attempt, Stop(a) PROVE OnlyTheLiveTrack'
  BY <1>8 DEF Stop, CleanupAttempt, pageVars, nativeVars
<1>9. ASSUME NEW a \in Attempt, Died(a) PROVE OnlyTheLiveTrack'
  BY <1>9 DEF Died, CleanupAttempt, pageVars, nativeVars
<1>10. ASSUME NEW a \in Attempt, Settles(a) PROVE OnlyTheLiveTrack'
  BY <1>10 DEF Settles, Retired, pageVars, nativeVars
<1>11. ASSUME NEW a \in Attempt, Reserve(a) PROVE OnlyTheLiveTrack'
  BY <1>11 DEF Reserve, Replace, KeepControls, pageVars, nativeVars
<1>12. ASSUME NEW a \in Attempt, StopNative(a) PROVE OnlyTheLiveTrack'
  BY <1>12 DEF StopNative, Replace, pageVars, nativeVars
<1>13. ASSUME NEW a \in Attempt, Claim(a) PROVE OnlyTheLiveTrack'
  BY <1>13 DEF Claim, pageVars, nativeVars
<1>14. ASSUME NEW a \in Attempt, OwnFifo(a) PROVE OnlyTheLiveTrack'
  BY <1>14 DEF OwnFifo, Take, pageVars, nativeVars
<1>15. ASSUME NEW a \in Attempt, SpawnCapture(a) PROVE OnlyTheLiveTrack'
  BY <1>15 DEF SpawnCapture, Take, pageVars, nativeVars
<1>16. ASSUME NEW a \in Attempt, SpawnEncoder(a) PROVE OnlyTheLiveTrack'
  BY <1>16 DEF SpawnEncoder, Take, pageVars, nativeVars
<1>17. ASSUME NEW a \in Attempt, SpawnFallback(a) PROVE OnlyTheLiveTrack'
  BY <1>17 DEF SpawnFallback, Take, pageVars, nativeVars
<1>18. ASSUME NEW a \in Attempt, Finish(a) PROVE OnlyTheLiveTrack'
  BY <1>18 DEF Finish, pageVars, nativeVars
<1> QED
  BY <1>0, <1>1, <1>2, <1>3, <1>4, <1>5, <1>6, <1>7, <1>8, <1>9, <1>10, <1>11, <1>12, <1>13, <1>14, <1>15, <1>16, <1>17, <1>18 DEF ShareNext, PageStep, NativeStep

-----------------------------------------------------------------------------
(* The theorems.                                                           *)

LEMMA ShareHolds == ShareSpec => []ShareInv
<1>1. ShareInv /\ [ShareNext]_shareVars => ShareInv'
  BY ShareTypeStep, OrderedStep, AdmissionStep, LetGoStep, LeasedStep, OnlyTheLiveTrackStep
  DEF ShareInv
<1> QED
  BY ShareBegins, <1>1, PTL DEF ShareSpec

\* The state keeps its types, however often a share is started (ScreenShare).
THEOREM ShareTypes == ShareSpec => []ShareTypeOK
  BY ShareHolds, PTL DEF ShareInv

\* A late stop never reaches the share that replaced its own: the stop call,
\* which names no attempt, finds its own attempt or nothing.
THEOREM StopsAreTheirOwn == ShareSpec => []StopsOnlyItsOwn
<1>1. ShareInv => StopsOnlyItsOwn
  <2> SUFFICES ASSUME ShareInv, NEW a \in Attempt, cleanup[a] \in {"stop", "stopAgain"},
                      current # None, current # a
               PROVE  FALSE
    BY DEF StopsOnlyItsOwn
  <2> DEFINE b == current
  <2>1. a \in began /\ b \in began /\ b \in Attempt
    BY DEF ShareInv, ShareTypeOK, Admission
  <2>2. CASE b < a
    BY <2>1, <2>2, AttemptsAssumption DEF ShareInv, Admission, LetGo, Before
  <2>3. CASE b > a
    BY <2>1, <2>3, AttemptsAssumption DEF ShareInv, Admission, Before
  <2> QED
    BY <2>1, <2>2, <2>3, AttemptsAssumption
<1> QED
  BY ShareHolds, <1>1, PTL

\* What is cleaned up is gone on both sides: no start is under way, no process
\* runs and the URL is dead.
THEOREM RetiredAreGone == ShareSpec => []RetiredIsGone
<1>1. ShareInv => RetiredIsGone
  BY DEF ShareInv, ShareTypeOK, Admission, LetGo, Leased, RetiredIsGone, Step
<1> QED
  BY ShareHolds, <1>1, PTL

\* Every process that runs belongs to the attempt the registry holds, so one
\* stop call reaches all of them.
THEOREM NoCaptureIsOrphaned == ShareSpec => []NoOrphanCapture
<1>1. ShareInv => NoOrphanCapture
  BY DEF ShareInv, Leased, NoOrphanCapture
<1> QED
  BY ShareHolds, <1>1, PTL

\* The peers are sent a track only of the share under way.
THEOREM PeersSeeTheLiveTrack == ShareSpec => []OnlyTheLiveTrack
  BY ShareHolds, PTL DEF ShareInv

-----------------------------------------------------------------------------
(***************************************************************************)
(* What TranscriptJob promises, whatever the processes are.                *)
(*                                                                         *)
(* A process is under the key it was registered with until its own task    *)
(* has seen it end (Keyed), so no key is ever overwritten or taken while   *)
(* its process lives; that is what Stop and the last sweep rely on.        *)
(***************************************************************************)

\* Which process each key may hold, by where its task stands, and where the
\* pipeline stands once the diarizer's task has been started.
Keyed ==
  /\ registry["job"] # NoChild =>
       \/ registry["job"] = SourceStep /\ at = "sourceRuns"
       \/ registry["job"] = Whisper /\ (at = "whisperRuns" \/ (at = "early" /\ entry = "local"))
  /\ registry["job::diarize"] # NoChild =>
       registry["job::diarize"] = Diarizer /\ diarize \in {"registered", "running"}
  /\ diarize # "off" =>
       \/ at \in {"whisperRuns", "merge", "finish", "sweep", "done"}
       \/ at \in {"spawn", "whisperUp"} /\ entry # "local"

JobInv == JobTypeOK /\ Keyed /\ EveryChildIsReachable /\ StopReachesTheDiarizer

USE DEF Child, Key

LEMMA JobBegins == JobInit => JobInv
  BY ChildAssumption
  DEF JobInit, JobInv, JobTypeOK, Keyed, EveryChildIsReachable, StopReachesTheDiarizer,
      Alive, Registered, BeingRegistered

LEMMA JobTypeStep ==
  ASSUME JobTypeOK, [JobNext]_jobVars PROVE JobTypeOK'
<1> USE ChildAssumption DEF JobTypeOK, Alive, Registered
<1>0. CASE UNCHANGED jobVars
  BY <1>0 DEF jobVars
<1>1. CASE BeginJob
  BY <1>1 DEF BeginJob
<1>2. CASE SpawnSource
  BY <1>2 DEF SpawnSource, Goes
<1>3. CASE RegisterSource
  BY <1>3 DEF RegisterSource, Goes, Insert
<1>4. CASE SourceEnds
  BY <1>4 DEF SourceEnds, Goes, TakeKey
<1>5. CASE SourceStalls
  BY <1>5 DEF SourceStalls, Goes, TakeKey
<1>6. CASE Gate
  BY <1>6 DEF Gate, Goes
<1>7. CASE StartDiarizerEarly
  BY <1>7 DEF StartDiarizerEarly, Goes
<1>8. CASE SpawnWhisper
  BY <1>8 DEF SpawnWhisper, Goes
<1>9. CASE RegisterWhisper
  BY <1>9 DEF RegisterWhisper, Goes, Insert
<1>10. CASE WhisperEnds
  BY <1>10 DEF WhisperEnds, Goes, TakeKey
<1>11. CASE Merge
  BY <1>11 DEF Merge, Goes
<1>12. CASE ClearFlag
  BY <1>12 DEF ClearFlag, Goes
<1>13. CASE FinishSweep
  BY <1>13 DEF FinishSweep, Goes, SweepRegistry
<1>14. CASE SpawnDiarizer
  BY <1>14 DEF SpawnDiarizer, Diarize
<1>15. CASE RegisterDiarizer
  BY <1>15 DEF RegisterDiarizer, Diarize, Insert
<1>16. CASE Recheck
  BY <1>16 DEF Recheck, Diarize, TakeKey
<1>17. CASE DiarizerEnds
  BY <1>17 DEF DiarizerEnds, Diarize, TakeKey
<1>18. CASE MarkCancelled
  BY <1>18 DEF MarkCancelled
<1>19. CASE TakeJob
  BY <1>19 DEF TakeJob, SweepRegistry
<1>20. ASSUME NEW c \in Child, Exits(c) PROVE JobTypeOK'
  BY <1>20 DEF Exits
<1> QED
  BY <1>0, <1>1, <1>2, <1>3, <1>4, <1>5, <1>6, <1>7, <1>8, <1>9, <1>10, <1>11, <1>12, <1>13, <1>14, <1>15, <1>16, <1>17, <1>18, <1>19, <1>20 DEF JobNext, Pipeline, DiarizerTask

LEMMA KeyedStep ==
  ASSUME JobTypeOK, Keyed, [JobNext]_jobVars PROVE Keyed'
<1> USE ChildAssumption DEF JobTypeOK, Alive, Registered, Keyed
<1>0. CASE UNCHANGED jobVars
  BY <1>0 DEF jobVars
<1>1. CASE BeginJob
  BY <1>1 DEF BeginJob
<1>2. CASE SpawnSource
  BY <1>2 DEF SpawnSource, Goes
<1>3. CASE RegisterSource
  BY <1>3 DEF RegisterSource, Goes, Insert
<1>4. CASE SourceEnds
  BY <1>4 DEF SourceEnds, Goes, TakeKey
<1>5. CASE SourceStalls
  BY <1>5 DEF SourceStalls, Goes, TakeKey
<1>6. CASE Gate
  BY <1>6 DEF Gate, Goes
<1>7. CASE StartDiarizerEarly
  BY <1>7 DEF StartDiarizerEarly, Goes
<1>8. CASE SpawnWhisper
  BY <1>8 DEF SpawnWhisper, Goes
<1>9. CASE RegisterWhisper
  <2>1. /\ registry'["job"] = Whisper /\ registry'["job::diarize"] = registry["job::diarize"]
        /\ entry' = entry /\ diarize' = diarize
    BY <1>9 DEF RegisterWhisper, Goes, Insert
  <2>2. at' = IF entry = "local" THEN "early" ELSE "whisperRuns"
    BY <1>9 DEF RegisterWhisper, Goes
  <2>3. entry = "local" => diarize = "off"
    BY <1>9 DEF RegisterWhisper
  <2> QED
    BY <2>1, <2>2, <2>3
<1>10. CASE WhisperEnds
  BY <1>10 DEF WhisperEnds, Goes, TakeKey
<1>11. CASE Merge
  BY <1>11 DEF Merge, Goes
<1>12. CASE ClearFlag
  BY <1>12 DEF ClearFlag, Goes
<1>13. CASE FinishSweep
  BY <1>13 DEF FinishSweep, Goes, SweepRegistry
<1>14. CASE SpawnDiarizer
  BY <1>14 DEF SpawnDiarizer, Diarize
<1>15. CASE RegisterDiarizer
  BY <1>15 DEF RegisterDiarizer, Diarize, Insert
<1>16. CASE Recheck
  BY <1>16 DEF Recheck, Diarize, TakeKey
<1>17. CASE DiarizerEnds
  BY <1>17 DEF DiarizerEnds, Diarize, TakeKey
<1>18. CASE MarkCancelled
  BY <1>18 DEF MarkCancelled
<1>19. CASE TakeJob
  BY <1>19 DEF TakeJob, SweepRegistry
<1>20. ASSUME NEW c \in Child, Exits(c) PROVE Keyed'
  BY <1>20 DEF Exits
<1> QED
  BY <1>0, <1>1, <1>2, <1>3, <1>4, <1>5, <1>6, <1>7, <1>8, <1>9, <1>10, <1>11, <1>12, <1>13, <1>14, <1>15, <1>16, <1>17, <1>18, <1>19, <1>20 DEF JobNext, Pipeline, DiarizerTask

LEMMA ReachableStep ==
  ASSUME JobTypeOK, Keyed, EveryChildIsReachable, [JobNext]_jobVars PROVE EveryChildIsReachable'
<1> USE ChildAssumption DEF JobTypeOK, Alive, Registered, Keyed, EveryChildIsReachable, BeingRegistered
<1>0. CASE UNCHANGED jobVars
  BY <1>0 DEF jobVars
<1>1. CASE BeginJob
  BY <1>1 DEF BeginJob
<1>2. CASE SpawnSource
  BY <1>2 DEF SpawnSource, Goes
<1>3. CASE RegisterSource
  BY <1>3 DEF RegisterSource, Goes, Insert
<1>4. CASE SourceEnds
  BY <1>4 DEF SourceEnds, Goes, TakeKey
<1>5. CASE SourceStalls
  BY <1>5 DEF SourceStalls, Goes, TakeKey
<1>6. CASE Gate
  BY <1>6 DEF Gate, Goes
<1>7. CASE StartDiarizerEarly
  BY <1>7 DEF StartDiarizerEarly, Goes
<1>8. CASE SpawnWhisper
  BY <1>8 DEF SpawnWhisper, Goes
<1>9. CASE RegisterWhisper
  BY <1>9 DEF RegisterWhisper, Goes, Insert
<1>10. CASE WhisperEnds
  BY <1>10 DEF WhisperEnds, Goes, TakeKey
<1>11. CASE Merge
  BY <1>11 DEF Merge, Goes
<1>12. CASE ClearFlag
  BY <1>12 DEF ClearFlag, Goes
<1>13. CASE FinishSweep
  BY <1>13 DEF FinishSweep, Goes, SweepRegistry
<1>14. CASE SpawnDiarizer
  BY <1>14 DEF SpawnDiarizer, Diarize
<1>15. CASE RegisterDiarizer
  BY <1>15 DEF RegisterDiarizer, Diarize, Insert
<1>16. CASE Recheck
  BY <1>16 DEF Recheck, Diarize, TakeKey
<1>17. CASE DiarizerEnds
  BY <1>17 DEF DiarizerEnds, Diarize, TakeKey
<1>18. CASE MarkCancelled
  BY <1>18 DEF MarkCancelled
<1>19. CASE TakeJob
  BY <1>19 DEF TakeJob, SweepRegistry
<1>20. ASSUME NEW c \in Child, Exits(c) PROVE EveryChildIsReachable'
  BY <1>20 DEF Exits
<1> QED
  BY <1>0, <1>1, <1>2, <1>3, <1>4, <1>5, <1>6, <1>7, <1>8, <1>9, <1>10, <1>11, <1>12, <1>13, <1>14, <1>15, <1>16, <1>17, <1>18, <1>19, <1>20 DEF JobNext, Pipeline, DiarizerTask

LEMMA StopReachesStep ==
  ASSUME JobTypeOK, EveryChildIsReachable, StopReachesTheDiarizer, [JobNext]_jobVars PROVE StopReachesTheDiarizer'
<1> USE ChildAssumption DEF JobTypeOK, Alive, Registered, EveryChildIsReachable, BeingRegistered, StopReachesTheDiarizer
<1>0. CASE UNCHANGED jobVars
  BY <1>0 DEF jobVars
<1>1. CASE BeginJob
  BY <1>1 DEF BeginJob
<1>2. CASE SpawnSource
  BY <1>2 DEF SpawnSource, Goes
<1>3. CASE RegisterSource
  BY <1>3 DEF RegisterSource, Goes, Insert
<1>4. CASE SourceEnds
  BY <1>4 DEF SourceEnds, Goes, TakeKey
<1>5. CASE SourceStalls
  BY <1>5 DEF SourceStalls, Goes, TakeKey
<1>6. CASE Gate
  BY <1>6 DEF Gate, Goes
<1>7. CASE StartDiarizerEarly
  BY <1>7 DEF StartDiarizerEarly, Goes
<1>8. CASE SpawnWhisper
  BY <1>8 DEF SpawnWhisper, Goes
<1>9. CASE RegisterWhisper
  BY <1>9 DEF RegisterWhisper, Goes, Insert
<1>10. CASE WhisperEnds
  BY <1>10 DEF WhisperEnds, Goes, TakeKey
<1>11. CASE Merge
  BY <1>11 DEF Merge, Goes
<1>12. CASE ClearFlag
  BY <1>12 DEF ClearFlag, Goes
<1>13. CASE FinishSweep
  BY <1>13 DEF FinishSweep, Goes, SweepRegistry
<1>14. CASE SpawnDiarizer
  BY <1>14 DEF SpawnDiarizer, Diarize
<1>15. CASE RegisterDiarizer
  BY <1>15 DEF RegisterDiarizer, Diarize, Insert
<1>16. CASE Recheck
  BY <1>16 DEF Recheck, Diarize, TakeKey
<1>17. CASE DiarizerEnds
  BY <1>17 DEF DiarizerEnds, Diarize, TakeKey
<1>18. CASE MarkCancelled
  BY <1>18 DEF MarkCancelled
<1>19. CASE TakeJob
  BY <1>19 DEF TakeJob, SweepRegistry
<1>20. ASSUME NEW c \in Child, Exits(c) PROVE StopReachesTheDiarizer'
  BY <1>20 DEF Exits
<1> QED
  BY <1>0, <1>1, <1>2, <1>3, <1>4, <1>5, <1>6, <1>7, <1>8, <1>9, <1>10, <1>11, <1>12, <1>13, <1>14, <1>15, <1>16, <1>17, <1>18, <1>19, <1>20 DEF JobNext, Pipeline, DiarizerTask

-----------------------------------------------------------------------------
(* The theorems.                                                           *)

LEMMA JobHolds == JobSpec => []JobInv
<1>1. JobInv /\ [JobNext]_jobVars => JobInv'
  BY JobTypeStep, KeyedStep, ReachableStep, StopReachesStep DEF JobInv
<1> QED
  BY JobBegins, <1>1, PTL DEF JobSpec

\* A job's state keeps its types (TranscriptJob).
THEOREM JobTypes == JobSpec => []JobTypeOK
  BY JobHolds, PTL DEF JobInv

\* Stop and the sweep at exit can reach every process that lives, but for the
\* instant between its spawn and its registration.
THEOREM ChildrenAreReachable == JobSpec => []EveryChildIsReachable
  BY JobHolds, PTL DEF JobInv

\* An acknowledged Stop has ended the diarizer, however they interleave, while
\* the flag of the job stands.
THEOREM StopEndsTheDiarizer == JobSpec => []StopReachesTheDiarizer
  BY JobHolds, PTL DEF JobInv

-----------------------------------------------------------------------------
(***************************************************************************)
(* What WebPlayback promises about the source it plays, for any number of  *)
(* sources, downloads and requests.                                        *)
(*                                                                         *)
(* The reducer drops what is not the source's (Scoped); a refresh asks for *)
(* what is shown, so it must be shown that a source left behind is no      *)
(* longer on the screen when the next one is loaded (Current).             *)
(***************************************************************************)

\* What is on the screen, and what a presentation is wanted for, beside a
\* machine that plays the source opened last.
Current ==
  st.kind # "inactive" =>
    /\ shown.kind = "inactive" \/ shown.seq = source
    /\ wanted.seq \in {Nil, source}

PlaybackInv == PlaybackTypeOK /\ PlaysTheSource /\ Current

LEMMA PlaybackBegins == PlaybackInit => PlaybackInv
  BY PlaybackAssumption
  DEF PlaybackInit, PlaybackInv, PlaybackTypeOK, PlaysTheSource, Current, Inactive, Idle,
      PlayerState, Request, SomeSrc, SomeJob, Src, Job, Nil

\* The states the reducer enters are states of the player.
LEMMA EntersAState ==
  ASSUME NEW kind \in {"inactive", "resolving", "streaming", "downloading", "cached", "failed"},
         NEW s \in SomeSrc, NEW b \in BOOLEAN, NEW c \in BOOLEAN
  PROVE  /\ Inactive \in PlayerState
         /\ Entered(kind, s) \in PlayerState
         /\ [Entered(kind, s) EXCEPT !.of = s] \in PlayerState
         /\ [Entered(kind, s) EXCEPT !.fresh = b] \in PlayerState
         /\ [Entered(kind, s) EXCEPT !.cached = b, !.peer = c, !.of = s] \in PlayerState
  BY DEF Inactive, Entered, PlayerState, SomeSrc, Src, Nil

LEMMA ReducerKeepsTypes ==
  ASSUME st \in PlayerState, NEW s \in SomeSrc, NEW how
  PROVE  /\ Resolved(s, how) \in PlayerState
         /\ ResolveFailed(s) \in PlayerState
         /\ StreamFailed(s) \in PlayerState
         /\ \A kind \in {"cached", "failed"} : DownloadEnds(s, kind) \in PlayerState
         /\ Scoped(s, IF st.kind = "streaming" THEN [st EXCEPT !.ready = TRUE] ELSE st) \in PlayerState
<1>1. st.seq \in SomeSrc
  BY DEF PlayerState
<1>2. Resolved(s, how) \in PlayerState
  <2> DEFINE next == [Entered("streaming", st.seq) EXCEPT
                        !.cached = (how = "warm"), !.peer = FALSE, !.of = s]
  <2>1. next \in PlayerState
    BY <1>1 DEF Entered, Inactive, PlayerState, SomeSrc, Nil
  <2> QED BY <2>1 DEF Resolved, Scoped, IsPeerUrl
<1>3. ResolveFailed(s) \in PlayerState
  BY <1>1, EntersAState DEF ResolveFailed, Scoped
<1>4. StreamFailed(s) \in PlayerState
  BY <1>1, EntersAState DEF StreamFailed, Scoped
<1>5. ASSUME NEW kind \in {"cached", "failed"} PROVE DownloadEnds(s, kind) \in PlayerState
  <2>1. [Entered(kind, st.seq) EXCEPT !.of = s] \in PlayerState
    BY <1>1 DEF Entered, Inactive, PlayerState, SomeSrc, Nil
  <2> QED BY <2>1 DEF DownloadEnds, Scoped
<1>6. [st EXCEPT !.ready = TRUE] \in PlayerState
  BY DEF PlayerState
<1> QED
  BY <1>2, <1>3, <1>4, <1>5, <1>6 DEF Scoped

\* The download side of the state, as the type invariant has it.
JobState == [seq : SomeSrc, retry : BOOLEAN, state : {"idle", "invoked", "running"}]

DownloadTypes ==
  /\ jobRef \in SomeJob /\ resolver \in SomeJob
  /\ job \in [Job -> JobState]

LEMMA CancelKeepsTypes ==
  ASSUME DownloadTypes, CancelActiveJob PROVE DownloadTypes'
<1>1. Idle \in JobState
  BY DEF Idle, JobState, SomeSrc, Nil
<1> QED
  BY <1>1 DEF DownloadTypes, CancelActiveJob, SomeJob

LEMMA AttemptKeepsTypes ==
  ASSUME DownloadTypes, NEW s \in SomeSrc, NEW retry \in BOOLEAN, StartAttempt(s, retry)
  PROVE  DownloadTypes'
<1>1. [seq |-> s, retry |-> retry, state |-> "invoked"] \in JobState
  BY DEF JobState
<1> QED
  BY <1>1 DEF DownloadTypes, StartAttempt, SomeJob

LEMMA FailureKeepsTypes ==
  ASSUME DownloadTypes, st \in PlayerState, NEW j \in Job, AttemptFails(j)
  PROVE  DownloadTypes' /\ st' \in PlayerState
<1>1. Idle \in JobState /\ job[j].seq \in SomeSrc
  BY DEF Idle, JobState, SomeSrc, Nil, DownloadTypes
<1>2. CASE UNCHANGED st
  <2>1. CASE \E k \in Job :
              /\ jobRef' = k /\ resolver' = k
              /\ job' = [job EXCEPT ![j] = Idle,
                                   ![k] = [seq |-> job[j].seq, retry |-> TRUE, state |-> "invoked"]]
    <3>1. [seq |-> job[j].seq, retry |-> TRUE, state |-> "invoked"] \in JobState
      BY <1>1 DEF JobState
    <3> QED BY <1>1, <1>2, <2>1, <3>1 DEF DownloadTypes, SomeJob
  <2>2. CASE jobRef' = Nil /\ resolver' = Nil /\ job' = [job EXCEPT ![j] = Idle]
    BY <1>1, <1>2, <2>2 DEF DownloadTypes, SomeJob
  <2> QED BY <2>1, <2>2 DEF AttemptFails
<1>3. CASE /\ st' = DownloadEnds(job[j].seq, "failed")
           /\ jobRef' = Nil /\ resolver' = Nil /\ job' = [job EXCEPT ![j] = Idle]
  BY <1>1, <1>3, ReducerKeepsTypes DEF DownloadTypes, SomeJob
<1> QED
  BY <1>2, <1>3 DEF AttemptFails

LEMMA AskKeepsTypes ==
  ASSUME wanted \in Request, asked \subseteq Request, presented \in SomeSrc,
         NEW s \in SomeSrc, NEW refresh \in BOOLEAN, AskPresentation(s, refresh)
  PROVE  wanted' \in Request /\ asked' \subseteq Request /\ presented' \in SomeSrc
<1>1. wanted' \in Request
  BY DEF AskPresentation, Request
<1> QED
  BY <1>1 DEF AskPresentation, SomeSrc

\* PlaybackTypeOK, with the download side as one conjunct.
ScreenTypes ==
  /\ source \in SomeSrc
  /\ opened \in {"no", "stream", "warm", "download", "live", "cached", "peer"}
  /\ st \in PlayerState /\ shown \in PlayerState
  /\ resolve \in [seq : SomeSrc, how : {"none", "warm", "peer", "yt-dlp"}]
  /\ warm \in SomeSrc /\ peer \in SomeSrc /\ presented \in SomeSrc
  /\ DownloadTypes
  /\ wanted \in Request /\ asked \subseteq Request

LEMMA ScreenTypesAreTypes == ScreenTypes <=> PlaybackTypeOK
  BY DEF ScreenTypes, PlaybackTypeOK, DownloadTypes, JobState

LEMMA ScreenTypesStep ==
  ASSUME ScreenTypes, [PlaybackNext]_playbackVars PROVE ScreenTypes'
<1> USE PlaybackAssumption DEF ScreenTypes, stateVars, downloadVars, presentationVars
<1>a. /\ Nil \in SomeSrc /\ Nil \in SomeJob /\ Src \subseteq SomeSrc
      /\ shown.seq \in SomeSrc /\ st.seq \in SomeSrc
      /\ Inactive \in PlayerState
  BY EntersAState DEF SomeSrc, SomeJob, PlayerState
<1>b. [wanted EXCEPT !.seq = Nil] \in Request
  BY <1>a DEF Request
<1>c. UNCHANGED downloadVars => DownloadTypes'
  BY DEF DownloadTypes
<1>d. [seq |-> Nil, how |-> "none"] \in [seq : SomeSrc, how : {"none", "warm", "peer", "yt-dlp"}]
  BY <1>a
<1>0. CASE UNCHANGED playbackVars
  BY <1>0, <1>c DEF playbackVars
<1>1. CASE OpenSource
  <2>1. source' \in SomeSrc
    BY <1>1 DEF OpenSource, SomeSrc, Src, Nil
  <2> QED
    BY <1>1, <1>a, <1>b, <2>1, CancelKeepsTypes DEF OpenSource
<1>2. CASE PromoteLive
  <2>1. st' \in PlayerState
    BY <1>2, EntersAState DEF PromoteLive
  <2> QED
    BY <1>2, <1>a, <1>b, <2>1, CancelKeepsTypes DEF PromoteLive
<1>3. CASE StopDownload
  BY <1>3, <1>a, CancelKeepsTypes DEF StopDownload
<1>4. CASE Render
  <2>1. CASE StartsResolve
    <3>1. resolve' \in [seq : SomeSrc, how : {"none", "warm", "peer", "yt-dlp"}]
      BY <1>a, <2>1 DEF StartsResolve
    <3> QED
      BY <1>4, <1>a, <1>c, <2>1, <3>1 DEF Render, StartsResolve
  <2>2. CASE StartsDownload
    <3>1. DownloadTypes'
      BY <1>a, <2>2, AttemptKeepsTypes DEF StartsDownload
    <3> QED
      BY <1>4, <1>a, <1>d, <2>2, <3>1 DEF Render, StartsDownload
  <2>3. CASE StartsNoLoading
    <3>1. wanted' \in Request /\ asked' \subseteq Request /\ presented' \in SomeSrc
      BY <1>a, <2>3, AskKeepsTypes DEF StartsNoLoading
    <3> QED
      BY <1>4, <1>a, <1>c, <1>d, <2>3, <3>1 DEF Render, StartsNoLoading
  <2> QED
    BY <1>4, <1>c, <2>1, <2>2, <2>3 DEF Render
<1>5. CASE ResolveSettles
  <2>1. resolve.seq \in SomeSrc
    OBVIOUS
  <2> QED
    BY <1>5, <1>c, <1>d, <2>1, ReducerKeepsTypes DEF ResolveSettles
<1>6. CASE PlayerReady
  BY <1>6, <1>a, <1>c, ReducerKeepsTypes DEF PlayerReady
<1>7. CASE StreamDies
  BY <1>7, <1>a, <1>c, ReducerKeepsTypes DEF StreamDies
<1>8. CASE RefreshPresentation
  BY <1>8, <1>a, <1>c, AskKeepsTypes DEF RefreshPresentation
<1>9. ASSUME NEW how \in How, Load(how) PROVE ScreenTypes'
  <2>1. st' \in PlayerState
    <3>1. Entered("downloading", source) \in PlayerState /\ Entered("resolving", source) \in PlayerState
          /\ [Entered("cached", source) EXCEPT !.of = source] \in PlayerState
      BY EntersAState
    <3> QED BY <1>9, <3>1 DEF Load
  <2>2. wanted' \in Request /\ asked' \subseteq Request /\ presented' \in SomeSrc
    <3>1. CASE how = "cached"
      BY <1>9, <3>1, AskKeepsTypes DEF Load
    <3>2. CASE how # "cached"
      BY <1>9, <1>a, <3>2 DEF Load, Request
    <3> QED BY <3>1, <3>2
  <2>3. warm' \in SomeSrc /\ peer' \in SomeSrc
    BY <1>9, <1>a DEF Load
  <2> QED
    BY <1>9, <1>c, <2>1, <2>2, <2>3 DEF Load, How
<1>10. ASSUME NEW j \in Job, Spawned(j) PROVE ScreenTypes'
  <2>1. DownloadTypes'
    BY <1>10 DEF Spawned, DownloadTypes, JobState
  <2> QED BY <1>10, <2>1 DEF Spawned
<1>e. ASSUME NEW j \in Job PROVE job[j].seq \in SomeSrc
  BY <1>e DEF DownloadTypes, JobState
<1>i. Idle \in JobState
  BY <1>a DEF Idle, JobState
<1>11. ASSUME NEW j \in Job, Refused(j) PROVE ScreenTypes'
  <2>1. CASE AttemptFails(j)
    BY <1>11, <2>1, FailureKeepsTypes DEF Refused
  <2>2. CASE resolver' = Nil /\ job' = [job EXCEPT ![j] = Idle] /\ UNCHANGED <<st, jobRef>>
    <3>1. DownloadTypes'
      BY <1>a, <1>i, <2>2 DEF DownloadTypes
    <3> QED BY <1>11, <2>2, <3>1 DEF Refused
  <2> QED
    BY <1>11, <2>1, <2>2 DEF Refused
<1>12. ASSUME NEW j \in Job, Done(j) PROVE ScreenTypes'
  <2>1. CASE AttemptFails(j)
    BY <1>12, <2>1, FailureKeepsTypes DEF Done
  <2>2. CASE job' = [job EXCEPT ![j] = Idle] /\ resolver' \in {Nil, resolver} /\ UNCHANGED <<st, jobRef>>
    <3>1. DownloadTypes'
      BY <1>a, <1>i, <2>2 DEF DownloadTypes
    <3> QED BY <1>12, <2>2, <3>1 DEF Done
  <2>3. CASE /\ st' = DownloadEnds(job[j].seq, "cached")
             /\ jobRef' = Nil /\ resolver' = Nil /\ job' = [job EXCEPT ![j] = Idle]
    <3>1. DownloadTypes'
      BY <1>a, <1>i, <2>3 DEF DownloadTypes
    <3> QED BY <1>12, <1>e, <2>3, <3>1, ReducerKeepsTypes DEF Done
  <2> QED
    BY <1>12, <2>1, <2>2, <2>3 DEF Done
<1>13. ASSUME NEW r \in asked, PresentationResolved(r) PROVE ScreenTypes'
  <2>1. r.seq \in SomeSrc
    BY DEF Request
  <2> QED BY <1>13, <1>c, <2>1 DEF PresentationResolved
<1> QED
  BY <1>0, <1>1, <1>2, <1>3, <1>4, <1>5, <1>6, <1>7, <1>8, <1>9, <1>10, <1>11, <1>12, <1>13 DEF PlaybackNext

LEMMA PlaybackTypeStep ==
  ASSUME PlaybackTypeOK, [PlaybackNext]_playbackVars PROVE PlaybackTypeOK'
<1>1. ScreenTypes
  BY ScreenTypesAreTypes
<1>2. ScreenTypes'
  BY <1>1, ScreenTypesStep
<1>3. ScreenTypes' => PlaybackTypeOK'
  BY DEF ScreenTypes, PlaybackTypeOK, DownloadTypes, JobState
<1> QED
  BY <1>2, <1>3

LEMMA PlaysStep ==
  ASSUME PlaybackTypeOK, PlaysTheSource, Current, [PlaybackNext]_playbackVars PROVE PlaysTheSource'
<1> USE PlaybackAssumption
    DEF PlaybackTypeOK, PlayerState, Request, SomeSrc, SomeJob, Src, Job, Nil,
        Inactive, Entered, Idle, stateVars, downloadVars, presentationVars, PlaysTheSource, Current
<1>0. CASE UNCHANGED playbackVars
  BY <1>0 DEF playbackVars
<1>1. CASE OpenSource
  BY <1>1 DEF OpenSource, CancelActiveJob
<1>2. CASE PromoteLive
  BY <1>2 DEF PromoteLive, CancelActiveJob
<1>3. CASE StopDownload
  BY <1>3 DEF StopDownload, CancelActiveJob
<1>4. CASE Render
  BY <1>4 DEF Render, StartsResolve, StartsDownload, StartsNoLoading, StartAttempt, AskPresentation
<1>5. CASE ResolveSettles
  BY <1>5 DEF ResolveSettles, Resolved, ResolveFailed, Scoped, IsPeerUrl
<1>6. CASE PlayerReady
  BY <1>6 DEF PlayerReady, Scoped
<1>7. CASE StreamDies
  BY <1>7 DEF StreamDies, StreamFailed, Scoped
<1>8. CASE RefreshPresentation
  BY <1>8 DEF RefreshPresentation, AskPresentation
<1>9. ASSUME NEW how \in How, Load(how) PROVE PlaysTheSource'
  BY <1>9 DEF Load, How, AskPresentation
<1>10. ASSUME NEW j \in Job, Spawned(j) PROVE PlaysTheSource'
  BY <1>10 DEF Spawned
<1>11. ASSUME NEW j \in Job, Refused(j) PROVE PlaysTheSource'
  BY <1>11 DEF Refused, AttemptFails, DownloadEnds, Scoped
<1>12. ASSUME NEW j \in Job, Done(j) PROVE PlaysTheSource'
  BY <1>12 DEF Done, AttemptFails, DownloadEnds, Scoped
<1>13. ASSUME NEW r \in asked, PresentationResolved(r) PROVE PlaysTheSource'
  BY <1>13 DEF PresentationResolved
<1> QED
  BY <1>0, <1>1, <1>2, <1>3, <1>4, <1>5, <1>6, <1>7, <1>8, <1>9, <1>10, <1>11, <1>12, <1>13 DEF PlaybackNext

LEMMA CurrentStep ==
  ASSUME PlaybackTypeOK, PlaysTheSource, Current, [PlaybackNext]_playbackVars PROVE Current'
<1> USE PlaybackAssumption
    DEF PlaybackTypeOK, PlayerState, Request, SomeSrc, SomeJob, Src, Job, Nil,
        Inactive, Entered, Idle, stateVars, downloadVars, presentationVars, PlaysTheSource, Current
<1>0. CASE UNCHANGED playbackVars
  BY <1>0 DEF playbackVars
<1>1. CASE OpenSource
  BY <1>1 DEF OpenSource, CancelActiveJob
<1>2. CASE PromoteLive
  BY <1>2 DEF PromoteLive, CancelActiveJob
<1>3. CASE StopDownload
  BY <1>3 DEF StopDownload, CancelActiveJob
<1>4. CASE Render
  BY <1>4 DEF Render, StartsResolve, StartsDownload, StartsNoLoading, StartAttempt, AskPresentation
<1>5. CASE ResolveSettles
  BY <1>5 DEF ResolveSettles, Resolved, ResolveFailed, Scoped, IsPeerUrl
<1>6. CASE PlayerReady
  BY <1>6 DEF PlayerReady, Scoped
<1>7. CASE StreamDies
  BY <1>7 DEF StreamDies, StreamFailed, Scoped
<1>8. CASE RefreshPresentation
  BY <1>8 DEF RefreshPresentation, AskPresentation
<1>9. ASSUME NEW how \in How, Load(how) PROVE Current'
  BY <1>9 DEF Load, How, AskPresentation
<1>10. ASSUME NEW j \in Job, Spawned(j) PROVE Current'
  BY <1>10 DEF Spawned
<1>11. ASSUME NEW j \in Job, Refused(j) PROVE Current'
  BY <1>11 DEF Refused, AttemptFails, DownloadEnds, Scoped
<1>12. ASSUME NEW j \in Job, Done(j) PROVE Current'
  BY <1>12 DEF Done, AttemptFails, DownloadEnds, Scoped
<1>13. ASSUME NEW r \in asked, PresentationResolved(r) PROVE Current'
  BY <1>13 DEF PresentationResolved
<1> QED
  BY <1>0, <1>1, <1>2, <1>3, <1>4, <1>5, <1>6, <1>7, <1>8, <1>9, <1>10, <1>11, <1>12, <1>13 DEF PlaybackNext

-----------------------------------------------------------------------------
(* The theorems.                                                           *)

LEMMA PlaybackHolds == PlaybackSpec => []PlaybackInv
<1>1. PlaybackInv /\ [PlaybackNext]_playbackVars => PlaybackInv'
  BY PlaybackTypeStep, PlaysStep, CurrentStep DEF PlaybackInv
<1> QED
  BY PlaybackBegins, <1>1, PTL DEF PlaybackSpec

\* The player's state keeps its types (WebPlayback).
THEOREM PlaybackTypes == PlaybackSpec => []PlaybackTypeOK
  BY PlaybackHolds, PTL DEF PlaybackInv

\* The player plays the source opened last, whatever was asked for earlier
\* ones and whenever the answers come.
THEOREM OnlyTheSourceIsPlayed == PlaybackSpec => []PlaysTheSource
  BY PlaybackHolds, PTL DEF PlaybackInv

-----------------------------------------------------------------------------
(***************************************************************************)
(* What EditLog promises, for any number of states, changes and sessions.  *)
(*                                                                         *)
(* Each row of the log says how its own document comes from its parent's,  *)
(* and a parent is older than its children (Faithful): from this alone a   *)
(* state replays to what it was given, by the oldest row for which it      *)
(* could not.  A merge changes a row nobody comes from.                    *)
(***************************************************************************)

Patch == [add : Document, del : Document]
LogRow ==
  [parent : Nat, depth : Nat, group : {"none", "repeat"}, patch : Patch, saved : SUBSET Document,
   pinned : BOOLEAN, said : Document]
LogSet == [count : Nat, head : Nat, redo : Seq(Nat), rows : Seq(LogRow)]

\* A row has the document it was given, or what turns its parent's into it.
Faithful(l) ==
  \A s \in 1 .. l.count :
    /\ l.rows[s].parent \in 0 .. (s - 1)
    /\ l.rows[s].saved # {} => l.rows[s].saved = {l.rows[s].said}
    /\ l.rows[s].saved = {} =>
         l.rows[s].parent # NoState
           /\ l.rows[s].said = Patched(l.rows[l.rows[s].parent].said, l.rows[s].patch)

Depths(l) ==
  \A s \in 1 .. l.count :
    l.rows[s].depth = IF l.rows[s].parent = NoState THEN 0 ELSE l.rows[l.rows[s].parent].depth + 1

\* Redo leads to a child.
RedoLeadsDown(l) ==
  \A s \in 1 .. l.count :
    l.redo[s] # NoState => l.redo[s] \in 1 .. l.count /\ l.rows[l.redo[s]].parent = s

SoundLog(l) ==
  /\ l \in LogSet /\ Len(l.rows) = l.count /\ Len(l.redo) = l.count
  /\ l.count \in 1 .. MaxStates /\ l.head \in 1 .. l.count
  /\ Faithful(l) /\ Depths(l) /\ RedoLeadsDown(l)

HIDE DEF Attempt, None, Child, Key
USE EditAssumption DEF NoState

LEMMA LeastOf ==
  ASSUME NEW T, T \subseteq Nat, T # {}
  PROVE  \E n \in T : \A k \in T : n <= k
<1> DEFINE R == {ss \in Nat \X Nat : ss[1] < ss[2]}
<1>1. PICK n \in T : \A k \in T : ~(<<k, n>> \in R)
  <2>1. IsWellFoundedOn(R, Nat)
    BY NatLessThanWellFounded, Zenon DEF OpToRel
  <2> HIDE DEF R
  <2> QED BY <2>1, WFMin, Zenon
<1>2. ASSUME NEW k \in T PROVE n <= k
  <2>1. k \in Nat /\ n \in Nat /\ <<k, n>> \notin R
    BY <1>1
  <2> QED BY <2>1
<1> QED BY <1>2

LEMMA GreatestOf ==
  ASSUME NEW n \in Nat, NEW T, T \subseteq 1 .. n, T # {}
  PROVE  Max(T) \in T
<1> DEFINE U == {k \in Nat : \A x \in T : x <= k}
<1>1. n \in U /\ U \subseteq Nat
  OBVIOUS
<1>2. PICK m \in U : \A k \in U : m <= k
  <2> HIDE DEF U
  <2> QED BY <1>1, LeastOf
<1>3. m \in Nat /\ \A x \in T : x \in Nat /\ 1 <= x /\ x <= m
  BY <1>2
<1>4. m \in T
  <2> SUFFICES ASSUME m \notin T PROVE FALSE
    OBVIOUS
  <2>1. ASSUME NEW x \in T PROVE x <= m - 1 /\ m - 1 \in Nat
    <3>1. x # m /\ x \in Nat /\ 1 <= x /\ x <= m
      BY <1>3
    <3> QED BY <1>3, <3>1
  <2>2. m - 1 \in U
    BY <2>1
  <2>3. m <= m - 1
    <3> HIDE DEF U
    <3> QED BY <1>2, <2>2
  <2> QED BY <1>3, <2>3
<1>5. \A y \in T : m >= y
  BY <1>3
<1> QED BY <1>4, <1>5 DEF Max

\* What a state replays to.
LEMMA Replays ==
  ASSUME NEW l, l.count \in Nat, Faithful(l), NEW state \in 1 .. l.count
  PROVE  DocumentAt(l, state) = l.rows[state].said
<1> DEFINE Body(f) == [s \in 1 .. l.count |->
                         IF l.rows[s].saved # {} THEN CHOOSE d \in l.rows[s].saved : TRUE
                         ELSE Patched(f[l.rows[s].parent], l.rows[s].patch)]
           given == CHOOSE f : f = Body(f)
           said == [s \in 1 .. l.count |-> l.rows[s].said]
<1>1. DocumentAt(l, state) = given[state]
  BY DEF DocumentAt
<1>2. \A s \in 1 .. l.count : l.rows[s].saved = {} => l.rows[s].parent \in 1 .. l.count
  BY DEF Faithful
<1>3. said = Body(said)
  BY <1>2 DEF Faithful
<1>4. given = Body(given)
  <2> HIDE DEF Body, said
  <2> QED BY <1>3
<1>5. \A s \in 1 .. l.count : given[s] = l.rows[s].said
  <2> DEFINE T == {s \in 1 .. l.count : given[s] # l.rows[s].said}
  <2> SUFFICES ASSUME T # {} PROVE FALSE
    OBVIOUS
  <2>1. PICK s \in T : \A k \in T : s <= k
    <3>1. T \subseteq Nat
      OBVIOUS
    <3> HIDE DEF T
    <3> QED BY <3>1, LeastOf
  <2>2. s \in 1 .. l.count /\ given[s] # l.rows[s].said
    BY <2>1
  <2>3. given[s] = IF l.rows[s].saved # {} THEN CHOOSE d \in l.rows[s].saved : TRUE
                ELSE Patched(given[l.rows[s].parent], l.rows[s].patch)
    <3> HIDE DEF given
    <3> QED BY <1>4, <2>2
  <2>4. CASE l.rows[s].saved # {}
    BY <2>2, <2>3, <2>4 DEF Faithful
  <2>5. CASE l.rows[s].saved = {}
    <3>1. l.rows[s].parent \in 1 .. l.count /\ l.rows[s].parent \in 0 .. (s - 1)
      BY <1>2, <2>2, <2>5 DEF Faithful
    <3>2. l.rows[s].parent \notin T
      <4>1. ~(s <= l.rows[s].parent)
        BY <2>2, <3>1
      <4> HIDE DEF T
      <4> QED BY <2>1, <4>1
    <3>3. given[l.rows[s].parent] = l.rows[l.rows[s].parent].said
      BY <3>1, <3>2
    <3> HIDE DEF given, T
    <3> QED BY <2>2, <2>3, <2>5, <3>3 DEF Faithful
  <2> QED BY <2>4, <2>5
<1> QED BY <1>1, <1>5

(* What the log's operations keep, and what a command does to it. *)

\* States are never lost, and one with steps after it, or a name, never changes.
Keeps(l, m) ==
  /\ l.count <= m.count
  /\ \A s \in 1 .. l.count :
       Children(l, s) # {} \/ l.rows[s].pinned => m.rows[s].said = l.rows[s].said

LEMMA Patches ==
  ASSUME NEW base \in Document, NEW next \in Document
  PROVE  Diff(base, next) \in Patch /\ Patched(base, Diff(base, next)) = next
BY DEF Diff, Patch, Patched, Document

LEMMA SaidIsDocument ==
  ASSUME NEW l, SoundLog(l), NEW s \in 1 .. l.count
  PROVE  /\ l.rows[s] \in LogRow /\ l.rows[s].said \in Document
         /\ DocumentAt(l, s) = l.rows[s].said
<1>1. l.rows[s] \in LogRow /\ l.count \in Nat
  BY DEF SoundLog, LogSet
<1>2. DocumentAt(l, s) = l.rows[s].said
  BY <1>1, Replays DEF SoundLog
<1> QED BY <1>1, <1>2 DEF LogRow

\* A log whose rows are the same stays as it is, wherever redo leads in it.
LEMMA MovedLog ==
  ASSUME NEW l, SoundLog(l), NEW m, m \in LogSet, m.rows = l.rows, m.count = l.count,
         m.head \in 1 .. l.count, Len(m.redo) = l.count,
         \A s \in 1 .. l.count :
           m.redo[s] = l.redo[s] \/ (m.redo[s] \in 1 .. l.count /\ l.rows[m.redo[s]].parent = s)
  PROVE  SoundLog(m) /\ Keeps(l, m)
<1>1. Faithful(m) /\ Depths(m)
  BY DEF SoundLog, Faithful, Depths
<1>2. RedoLeadsDown(m)
  BY DEF SoundLog, RedoLeadsDown
<1>3. l.count \in Nat /\ l.count <= m.count
  BY DEF SoundLog, LogSet
<1> QED BY <1>1, <1>2, <1>3 DEF SoundLog, Keeps

LEMMA MovesHead ==
  ASSUME NEW l, SoundLog(l), NEW s \in 1 .. l.count
  PROVE  LET m == MoveHead(l, s) IN
         /\ SoundLog(m) /\ Keeps(l, m)
         /\ m.rows = l.rows /\ m.count = l.count /\ m.redo = l.redo /\ m.head = s
<1> DEFINE m == MoveHead(l, s)
<1>1. m \in LogSet /\ m.rows = l.rows /\ m.count = l.count /\ m.redo = l.redo /\ m.head = s
  <2>1. s \in Nat /\ l \in LogSet
    BY DEF SoundLog, LogSet
  <2> QED BY <2>1 DEF MoveHead, LogSet
<1> HIDE DEF m
<1>2. SoundLog(m) /\ Keeps(l, m)
  BY <1>1, MovedLog DEF SoundLog
<1> QED BY <1>1, <1>2 DEF m

LEMMA RemembersUndo ==
  ASSUME NEW l, SoundLog(l)
  PROVE  LET m == UndoRemembers(l)
             parent == l.rows[l.head].parent IN
         /\ SoundLog(m) /\ Keeps(l, m)
         /\ m.rows = l.rows /\ m.count = l.count /\ m.head = l.head
         /\ parent \in 0 .. l.head - 1 /\ l.head \in 1 .. l.count
         /\ parent # NoState => parent \in 1 .. l.count /\ m.redo = [l.redo EXCEPT ![parent] = l.head]
         /\ parent = NoState => m.redo = l.redo
<1> DEFINE m == UndoRemembers(l)
           parent == l.rows[l.head].parent
<1>1. /\ l.head \in 1 .. l.count /\ l.count \in Nat /\ l.head \in Nat
      /\ l \in LogSet /\ l.redo \in Seq(Nat) /\ Len(l.redo) = l.count
  BY DEF SoundLog, LogSet
<1>2. parent \in 0 .. l.head - 1
  BY <1>1 DEF SoundLog, Faithful
<1>3. CASE parent = NoState
  <2>1. m = l
    BY <1>3 DEF UndoRemembers
  <2>2. SoundLog(m) /\ Keeps(l, m)
    BY <1>1, <2>1 DEF Keeps
  <2> QED BY <1>1, <1>2, <1>3, <2>1, <2>2
<1>4. CASE parent # NoState
  <2> DEFINE redo == [l.redo EXCEPT ![parent] = l.head]
  <2>1. parent \in 1 .. l.count
    BY <1>1, <1>2, <1>4
  <2>2. redo \in Seq(Nat) /\ Len(redo) = l.count
    BY <1>1, <2>1
  <2>3. \A s \in 1 .. l.count : redo[s] = l.redo[s] \/ (redo[s] \in 1 .. l.count /\ l.rows[redo[s]].parent = s)
    BY <1>1, <2>1
  <2>4. m = [l EXCEPT !.redo = redo]
    BY <1>4 DEF UndoRemembers
  <2> HIDE DEF redo, m
  <2>5. m \in LogSet /\ m.rows = l.rows /\ m.count = l.count /\ m.head = l.head /\ m.redo = redo
    BY <1>1, <2>2, <2>4 DEF LogSet
  <2>6. SoundLog(m) /\ Keeps(l, m)
    BY <1>1, <2>2, <2>3, <2>5, MovedLog
  <2> QED BY <1>1, <1>2, <1>4, <2>1, <2>5, <2>6 DEF m, redo
<1> QED BY <1>3, <1>4

LEMMA NatSequence ==
  ASSUME NEW n \in Nat, NEW f \in [1 .. n -> Nat]
  PROVE  f \in Seq(Nat) /\ Len(f) = n
OBVIOUS

LEMMA RemembersJump ==
  ASSUME NEW l, SoundLog(l), NEW state
  PROVE  LET m == JumpRemembers(l, state) IN
         /\ SoundLog(m) /\ Keeps(l, m)
         /\ m.rows = l.rows /\ m.count = l.count /\ m.head = l.head
<1> DEFINE m == JumpRemembers(l, state)
<1>1. PICK on : m = [l EXCEPT !.redo = [s \in 1 .. l.count |->
                       IF \E c \in Children(l, s) : on[c]
                         THEN CHOOSE c \in Children(l, s) : on[c] ELSE l.redo[s]]]
  BY Zenon DEF JumpRemembers
<1> DEFINE redo == [s \in 1 .. l.count |-> IF \E c \in Children(l, s) : on[c]
                                             THEN CHOOSE c \in Children(l, s) : on[c] ELSE l.redo[s]]
<1>2. l \in LogSet /\ l.count \in Nat /\ l.redo \in Seq(Nat) /\ Len(l.redo) = l.count /\ l.head \in 1 .. l.count
  BY DEF SoundLog, LogSet
<1>3. \A s \in 1 .. l.count : redo[s] = l.redo[s] \/ (redo[s] \in 1 .. l.count /\ l.rows[redo[s]].parent = s)
  BY DEF Children
<1>4. redo \in Seq(Nat) /\ Len(redo) = l.count
  <2>1. \A s \in 1 .. l.count : redo[s] \in Nat
    <3> HIDE DEF redo
    <3> QED BY <1>2, <1>3
  <2>2. DOMAIN redo = 1 .. l.count /\ redo = [s \in 1 .. l.count |-> redo[s]]
    OBVIOUS
  <2> HIDE DEF redo
  <2>3. redo \in [1 .. l.count -> Nat]
    BY <2>1, <2>2
  <2> QED BY <1>2, <2>3, NatSequence
<1>5. m = [l EXCEPT !.redo = redo]
  BY <1>1
<1> HIDE DEF m, redo
<1>6. m \in LogSet /\ m.rows = l.rows /\ m.count = l.count /\ m.head = l.head /\ m.redo = redo
  BY <1>2, <1>4, <1>5 DEF LogSet
<1>7. SoundLog(m) /\ Keeps(l, m)
  BY <1>2, <1>3, <1>4, <1>6, MovedLog
<1> QED BY <1>6, <1>7 DEF m

\* A merge: the head's own row is written again.
LEMMA Merges ==
  ASSUME NEW l, SoundLog(l), NEW group, Coalesces(l, group), NEW doc \in Document
  PROVE  LET m == Merged(l, doc) IN
         /\ SoundLog(m) /\ Keeps(l, m)
         /\ m.count = l.count /\ m.head = l.head /\ m.redo = l.redo
         /\ \A s \in 1 .. l.count : m.rows[s].parent = l.rows[s].parent
<1> DEFINE m == Merged(l, doc)
           h == l.head
           row == l.rows[h]
           patch == Diff(DocumentAt(l, row.parent), doc)
           saved == IF row.saved = {} THEN {} ELSE {doc}
           new == [row EXCEPT !.patch = patch, !.saved = saved, !.said = doc]
           rows == [l.rows EXCEPT ![h] = new]
<1>1. /\ l \in LogSet /\ l.rows \in Seq(LogRow) /\ Len(l.rows) = l.count /\ l.count \in Nat
      /\ h \in 1 .. l.count /\ h \in Nat /\ row \in LogRow
  BY DEF SoundLog, LogSet
<1>2. /\ Children(l, h) = {} /\ ~row.pinned /\ row.parent # NoState
  BY DEF Coalesces
<1>3. row.parent \in 1 .. l.count /\ row.parent # h
  BY <1>1, <1>2 DEF SoundLog, Faithful
<1>4. DocumentAt(l, row.parent) = l.rows[row.parent].said /\ l.rows[row.parent].said \in Document
  BY <1>3, SaidIsDocument
<1>5. patch \in Patch /\ Patched(l.rows[row.parent].said, patch) = doc
  BY <1>4, Patches
<1>6. m = [l EXCEPT !.rows = rows]
  BY <1>1 DEF Merged, LogRow, LogSet
<1> HIDE DEF patch, m
<1>7. /\ new \in LogRow /\ new.parent = row.parent /\ new.depth = row.depth /\ new.pinned = row.pinned
      /\ new.saved = saved /\ new.patch = patch /\ new.said = doc
  BY <1>1, <1>5 DEF LogRow
<1> HIDE DEF new, saved
<1>8. /\ rows \in Seq(LogRow) /\ Len(rows) = l.count /\ rows[h] = new
      /\ \A s \in 1 .. l.count : s # h => rows[s] = l.rows[s]
  BY <1>1, <1>7
<1> HIDE DEF rows
<1>9. m \in LogSet /\ m.rows = rows /\ m.count = l.count /\ m.head = h /\ m.redo = l.redo
  BY <1>1, <1>6, <1>8 DEF LogSet
<1>10. \A s \in 1 .. l.count : l.rows[s].parent # h /\ rows[s].parent = l.rows[s].parent
                               /\ rows[s].depth = l.rows[s].depth
  BY <1>2, <1>7, <1>8 DEF Children
<1>11. Faithful(m)
  <2> SUFFICES ASSUME NEW s \in 1 .. l.count
               PROVE  /\ rows[s].parent \in 0 .. (s - 1)
                      /\ rows[s].saved # {} => rows[s].saved = {rows[s].said}
                      /\ rows[s].saved = {} =>
                           rows[s].parent # NoState
                             /\ rows[s].said = Patched(rows[rows[s].parent].said, rows[s].patch)
    BY <1>9 DEF Faithful
  <2>1. /\ l.rows[s].parent \in 0 .. (s - 1) /\ s \in Nat
        /\ l.rows[s].saved # {} => l.rows[s].saved = {l.rows[s].said}
        /\ l.rows[s].saved = {} =>
             l.rows[s].parent # NoState
               /\ l.rows[s].said = Patched(l.rows[l.rows[s].parent].said, l.rows[s].patch)
    BY <1>1 DEF SoundLog, Faithful
  <2>2. l.rows[s].parent # NoState => rows[l.rows[s].parent] = l.rows[l.rows[s].parent]
    <3>1. l.rows[s].parent # NoState => l.rows[s].parent \in 1 .. l.count
      BY <1>1, <2>1
    <3> QED BY <1>8, <1>10, <3>1
  <2>3. CASE s = h
    BY <1>3, <1>5, <1>7, <1>8, <2>1, <2>2, <2>3 DEF saved
  <2>4. CASE s # h
    BY <1>8, <2>1, <2>2, <2>4
  <2> QED BY <2>3, <2>4
<1>12. Depths(m)
  <2> SUFFICES ASSUME NEW s \in 1 .. l.count
               PROVE  rows[s].depth = IF rows[s].parent = NoState THEN 0 ELSE rows[rows[s].parent].depth + 1
    BY <1>9 DEF Depths
  <2>1. l.rows[s].parent # NoState => l.rows[s].parent \in 1 .. l.count
    BY <1>1 DEF SoundLog, Faithful
  <2> QED BY <1>10, <2>1 DEF SoundLog, Depths
<1>13. RedoLeadsDown(m)
  BY <1>9, <1>10 DEF SoundLog, RedoLeadsDown
<1>14. Keeps(l, m)
  BY <1>1, <1>2, <1>8, <1>9 DEF Keeps
<1>15. SoundLog(m)
  BY <1>8, <1>9, <1>11, <1>12, <1>13 DEF SoundLog
<1> QED BY <1>9, <1>10, <1>14, <1>15 DEF m

\* A step: a row of its own under the head, at the end of the log.
LEMMA Appends ==
  ASSUME NEW l, SoundLog(l), NEW group \in {"none", "repeat"}, NEW doc \in Document,
         Appended(l, group, doc).count <= MaxStates
  PROVE  LET m == Appended(l, group, doc) IN
         SoundLog(m) /\ Keeps(l, m) /\ m.count = l.count + 1
<1> DEFINE m == Appended(l, group, doc)
           h == l.head
           s0 == l.count + 1
           depth == l.rows[h].depth + 1
           patch == Diff(DocumentAt(l, h), doc)
           saved == IF depth % Every = 0 THEN {doc} ELSE {}
           new == Row(h, depth, group, patch, saved, doc)
           redo == [l.redo EXCEPT ![h] = s0]
<1>1. /\ l \in LogSet /\ l.rows \in Seq(LogRow) /\ Len(l.rows) = l.count /\ l.count \in Nat
      /\ h \in 1 .. l.count /\ h \in Nat /\ l.rows[h] \in LogRow
      /\ l.redo \in Seq(Nat) /\ Len(l.redo) = l.count
  BY DEF SoundLog, LogSet
<1>2. DocumentAt(l, h) = l.rows[h].said /\ l.rows[h].said \in Document
  BY <1>1, SaidIsDocument
<1>3. patch \in Patch /\ Patched(l.rows[h].said, patch) = doc
  BY <1>2, Patches
<1>4. depth \in Nat
  <2>1. l.rows[h].depth \in Nat
    BY <1>1 DEF LogRow
  <2> QED BY <2>1
<1>5. /\ m.count = s0 /\ m.head = s0 /\ m.redo = Append(redo, NoState)
      /\ m.rows = Append(l.rows, new)
      /\ m = [count |-> m.count, head |-> m.head, redo |-> m.redo, rows |-> m.rows]
  BY DEF Appended
<1>6. saved \in SUBSET Document /\ (saved # {} => saved = {doc})
  OBVIOUS
<1> HIDE DEF patch, saved, depth, m
<1>7. /\ new \in LogRow /\ new.parent = h /\ new.depth = depth /\ new.patch = patch
      /\ new.saved = saved /\ new.said = doc
  BY <1>1, <1>3, <1>4, <1>6 DEF Row, LogRow
<1> HIDE DEF new
<1>8. /\ m.rows \in Seq(LogRow) /\ Len(m.rows) = s0 /\ m.rows[s0] = new
      /\ \A s \in 1 .. l.count : m.rows[s] = l.rows[s]
  BY <1>1, <1>5, <1>7
<1>9. redo \in Seq(Nat) /\ Len(redo) = l.count
  BY <1>1
<1>10. /\ m.redo \in Seq(Nat) /\ Len(m.redo) = s0 /\ m.redo[s0] = NoState
       /\ \A s \in 1 .. l.count : m.redo[s] = redo[s]
  <2> HIDE DEF redo
  <2> QED BY <1>1, <1>5, <1>9
<1>11. s0 \in Nat /\ h < s0 /\ s0 # h /\ \A s \in 1 .. s0 : s = s0 \/ s \in 1 .. l.count
  <2>1. \A n \in Nat : \A x \in 1 .. n :
          n + 1 \in Nat /\ x < n + 1 /\ n + 1 # x /\ \A s \in 1 .. n + 1 : s = n + 1 \/ s \in 1 .. n
    OBVIOUS
  <2> HIDE DEF h
  <2> QED BY <1>1, <2>1
<1>12. m \in LogSet
  BY <1>5, <1>8, <1>10, <1>11 DEF LogSet
<1>13. Faithful(m)
  <2> SUFFICES ASSUME NEW s \in 1 .. s0
               PROVE  /\ m.rows[s].parent \in 0 .. (s - 1)
                      /\ m.rows[s].saved # {} => m.rows[s].saved = {m.rows[s].said}
                      /\ m.rows[s].saved = {} =>
                           m.rows[s].parent # NoState
                             /\ m.rows[s].said = Patched(m.rows[m.rows[s].parent].said, m.rows[s].patch)
    BY <1>5 DEF Faithful
  <2>1. CASE s = s0
    <3>1. m.rows[h] = l.rows[h] /\ m.rows[s] = new
      BY <1>1, <1>8, <2>1
    <3>2. h \in 0 .. (s - 1) /\ h # NoState
      BY <1>1, <2>1
    <3> QED BY <1>3, <1>6, <1>7, <3>1, <3>2
  <2>2. CASE s # s0
    <3>1. s \in 1 .. l.count /\ m.rows[s] = l.rows[s]
      BY <1>8, <1>11, <2>2
    <3>2. /\ l.rows[s].parent \in 0 .. (s - 1)
          /\ l.rows[s].saved # {} => l.rows[s].saved = {l.rows[s].said}
          /\ l.rows[s].saved = {} =>
               l.rows[s].parent # NoState
                 /\ l.rows[s].said = Patched(l.rows[l.rows[s].parent].said, l.rows[s].patch)
      BY <3>1 DEF SoundLog, Faithful
    <3>3. l.rows[s].parent # NoState => m.rows[l.rows[s].parent] = l.rows[l.rows[s].parent]
      <4>1. s \in Nat /\ s <= l.count
        BY <1>1, <3>1
      <4>2. l.rows[s].parent # NoState => l.rows[s].parent \in 1 .. l.count
        BY <1>1, <3>2, <4>1
      <4> QED BY <1>8, <4>2
    <3> QED BY <3>1, <3>2, <3>3
  <2> QED BY <2>1, <2>2
<1>14. Depths(m)
  <2> SUFFICES ASSUME NEW s \in 1 .. s0
               PROVE  m.rows[s].depth = IF m.rows[s].parent = NoState THEN 0
                                        ELSE m.rows[m.rows[s].parent].depth + 1
    BY <1>5 DEF Depths
  <2>1. CASE s = s0
    <3>1. m.rows[h] = l.rows[h] /\ m.rows[s] = new /\ h # NoState
      BY <1>1, <1>8, <2>1
    <3> QED BY <1>7, <3>1 DEF depth
  <2>2. CASE s # s0
    <3>1. s \in 1 .. l.count /\ m.rows[s] = l.rows[s]
      BY <1>8, <1>11, <2>2
    <3>2. l.rows[s].parent # NoState => l.rows[s].parent \in 1 .. l.count
      BY <1>1, <3>1 DEF SoundLog, Faithful
    <3>3. l.rows[s].parent # NoState => m.rows[l.rows[s].parent] = l.rows[l.rows[s].parent]
      BY <1>8, <3>2
    <3> QED BY <3>1, <3>3 DEF SoundLog, Depths
  <2> QED BY <2>1, <2>2
<1>15. RedoLeadsDown(m)
  <2> SUFFICES ASSUME NEW s \in 1 .. s0, m.redo[s] # NoState
               PROVE  m.redo[s] \in 1 .. s0 /\ m.rows[m.redo[s]].parent = s
    BY <1>5 DEF RedoLeadsDown
  <2>1. s \in 1 .. l.count /\ m.redo[s] = redo[s]
    BY <1>10, <1>11
  <2>2. CASE s = h
    <3>1. m.redo[s] = s0
      BY <1>1, <2>1, <2>2
    <3> QED BY <1>1, <1>7, <1>8, <2>2, <3>1
  <2>3. CASE s # h
    <3>1. m.redo[s] = l.redo[s]
      BY <1>1, <2>1, <2>3
    <3>2. l.redo[s] \in 1 .. l.count /\ l.rows[l.redo[s]].parent = s
      BY <2>1, <3>1 DEF SoundLog, RedoLeadsDown
    <3>3. m.rows[l.redo[s]] = l.rows[l.redo[s]] /\ l.redo[s] \in 1 .. s0
      <4>1. \A x \in 1 .. l.count : x \in 1 .. s0
        BY <1>1
      <4> HIDE DEF s0
      <4> QED BY <1>8, <3>2, <4>1
    <3> QED BY <3>1, <3>2, <3>3
  <2> QED BY <2>2, <2>3
<1>16. Keeps(l, m)
  BY <1>1, <1>5, <1>8 DEF Keeps
<1>17. m.count \in 1 .. MaxStates /\ m.head \in 1 .. m.count
  BY <1>1, <1>5 DEF m
<1>18. SoundLog(m)
  BY <1>5, <1>8, <1>10, <1>12, <1>13, <1>14, <1>15, <1>17 DEF SoundLog
<1> QED BY <1>5, <1>16, <1>18 DEF m

\* What a commit does: it merges, records nothing, or takes a step.
LEMMA Commits ==
  ASSUME NEW l, SoundLog(l), NEW group \in {"none", "repeat"}, NEW doc \in Document,
         NEW m \in Committed(l, group, doc), m.count <= MaxStates
  PROVE  /\ SoundLog(m) /\ Keeps(l, m)
         /\ m.count = l.count =>
              /\ m.head = l.head /\ m.redo = l.redo
              /\ \A s \in 1 .. l.count : m.rows[s].parent = l.rows[s].parent
<1>0. l.count \in Nat
  BY DEF SoundLog, LogSet
<1>1. CASE Coalesces(l, group) /\ m = Merged(l, doc)
  <2>1. /\ SoundLog(Merged(l, doc)) /\ Keeps(l, Merged(l, doc))
        /\ Merged(l, doc).head = l.head /\ Merged(l, doc).redo = l.redo
        /\ \A s \in 1 .. l.count : Merged(l, doc).rows[s].parent = l.rows[s].parent
    BY <1>1, Merges
  <2> QED BY <1>1, <2>1
<1>2. CASE m = l
  BY <1>0, <1>2 DEF Keeps
<1>3. CASE m = Appended(l, group, doc)
  BY <1>0, <1>3, Appends
<1> QED BY <1>1, <1>2, <1>3 DEF Committed

\* A name given or taken away.
LEMMA Pins ==
  ASSUME NEW l, SoundLog(l), NEW state \in 1 .. l.count
  PROVE  LET m == [l EXCEPT !.rows[state].pinned = ~@] IN
         /\ SoundLog(m) /\ Keeps(l, m)
         /\ m.count = l.count /\ m.head = l.head /\ m.redo = l.redo
         /\ \A s \in 1 .. l.count : m.rows[s].parent = l.rows[s].parent
<1> DEFINE m == [l EXCEPT !.rows[state].pinned = ~@]
           row == l.rows[state]
<1>1. /\ l \in LogSet /\ l.rows \in Seq(LogRow) /\ Len(l.rows) = l.count /\ l.count \in Nat
      /\ row \in LogRow
  BY DEF SoundLog, LogSet
<1>2. PICK b \in BOOLEAN : b = ~row.pinned
  BY Zenon
<1> DEFINE new == [row EXCEPT !.pinned = b]
           rows == [l.rows EXCEPT ![state] = new]
<1>3. m = [l EXCEPT !.rows = rows]
  BY <1>1, <1>2 DEF LogSet
<1> HIDE DEF m
<1>4. /\ new \in LogRow /\ new.parent = row.parent /\ new.depth = row.depth
      /\ new.patch = row.patch /\ new.saved = row.saved /\ new.said = row.said
  BY <1>1 DEF LogRow
<1> HIDE DEF new
<1>5. /\ rows \in Seq(LogRow) /\ Len(rows) = l.count
      /\ \A s \in 1 .. l.count : IF s = state THEN rows[s] = new ELSE rows[s] = l.rows[s]
  BY <1>1, <1>4
<1> HIDE DEF rows
<1>6. m \in LogSet /\ m.rows = rows /\ m.count = l.count /\ m.head = l.head /\ m.redo = l.redo
  BY <1>1, <1>3, <1>5 DEF LogSet
<1>7. \A s \in 1 .. l.count :
        /\ m.rows[s].parent = l.rows[s].parent /\ m.rows[s].depth = l.rows[s].depth
        /\ m.rows[s].patch = l.rows[s].patch /\ m.rows[s].saved = l.rows[s].saved
        /\ m.rows[s].said = l.rows[s].said
  BY <1>4, <1>5, <1>6
<1>8. Keeps(l, m)
  BY <1>1, <1>6, <1>7 DEF Keeps
<1>9. \A s \in 1 .. l.count : l.rows[s].parent # NoState => l.rows[s].parent \in 1 .. l.count
  BY <1>1 DEF SoundLog, Faithful
<1>10. Faithful(m)
  <2> SUFFICES ASSUME NEW s \in 1 .. l.count
               PROVE  /\ m.rows[s].parent \in 0 .. (s - 1)
                      /\ m.rows[s].saved # {} => m.rows[s].saved = {m.rows[s].said}
                      /\ m.rows[s].saved = {} =>
                           m.rows[s].parent # NoState
                             /\ m.rows[s].said = Patched(m.rows[m.rows[s].parent].said, m.rows[s].patch)
    BY <1>6 DEF Faithful
  <2>1. /\ l.rows[s].parent \in 0 .. (s - 1)
        /\ l.rows[s].saved # {} => l.rows[s].saved = {l.rows[s].said}
        /\ l.rows[s].saved = {} =>
             l.rows[s].parent # NoState
               /\ l.rows[s].said = Patched(l.rows[l.rows[s].parent].said, l.rows[s].patch)
    BY DEF SoundLog, Faithful
  <2> QED BY <1>7, <1>9, <2>1
<1>11. Depths(m)
  <2> SUFFICES ASSUME NEW s \in 1 .. l.count
               PROVE  m.rows[s].depth = IF m.rows[s].parent = NoState THEN 0
                                        ELSE m.rows[m.rows[s].parent].depth + 1
    BY <1>6 DEF Depths
  <2>1. l.rows[s].depth = IF l.rows[s].parent = NoState THEN 0 ELSE l.rows[l.rows[s].parent].depth + 1
    BY DEF SoundLog, Depths
  <2> QED BY <1>7, <1>9, <2>1
<1>12. RedoLeadsDown(m)
  <2> SUFFICES ASSUME NEW s \in 1 .. l.count, l.redo[s] # NoState
               PROVE  l.redo[s] \in 1 .. l.count /\ m.rows[l.redo[s]].parent = s
    BY <1>6 DEF RedoLeadsDown
  <2>1. l.redo[s] \in 1 .. l.count /\ l.rows[l.redo[s]].parent = s
    BY DEF SoundLog, RedoLeadsDown
  <2> QED BY <1>7, <2>1
<1>13. SoundLog(m)
  BY <1>5, <1>6, <1>10, <1>11, <1>12 DEF SoundLog
<1> QED BY <1>6, <1>7, <1>8, <1>13 DEF m

\* Where redo goes from a state is a child of it, or nowhere.
LEMMA RedoGoesDown ==
  ASSUME NEW l, SoundLog(l), NEW s \in 1 .. l.count
  PROVE  RedoTarget(l, s) # NoState =>
           RedoTarget(l, s) \in 1 .. l.count /\ l.rows[RedoTarget(l, s)].parent = s
<1>1. l.redo[s] # NoState => l.redo[s] \in 1 .. l.count /\ l.rows[l.redo[s]].parent = s
  BY DEF SoundLog, RedoLeadsDown
<1>2. CASE l.redo[s] # NoState \/ Children(l, s) = {}
  BY <1>1, <1>2 DEF RedoTarget
<1>3. CASE ~(l.redo[s] # NoState \/ Children(l, s) = {})
  <2>1. Max(Children(l, s)) \in Children(l, s)
    <3>1. l.count \in Nat /\ Children(l, s) \subseteq 1 .. l.count
      BY DEF SoundLog, LogSet, Children
    <3> QED BY <1>3, <3>1, GreatestOf
  <2>2. RedoTarget(l, s) = Max(Children(l, s))
    BY <1>3 DEF RedoTarget
  <2> QED BY <2>1, <2>2 DEF Children
<1> QED BY <1>2, <1>3

(* The states undone, and the way redo has through them. *)

\* What was undone is in order below the head, each led to from the one before.
Trail(l, b) ==
  /\ b \in Seq(Nat)
  /\ b # <<>> => l.redo[l.head] = b[1]
  /\ \A i \in 1 .. Len(b) :
       /\ b[i] \in 1 .. l.count /\ l.head < b[i]
       /\ i < Len(b) => l.redo[b[i]] = b[i + 1]
  /\ \A i, j \in 1 .. Len(b) : i < j => b[i] < b[j]

LEMMA TrailStays ==
  ASSUME NEW l, NEW b, Trail(l, b), NEW m, m.redo = l.redo, m.head = l.head, m.count = l.count
  PROVE  Trail(m, b)
BY DEF Trail

LEMMA NoTrail ==
  ASSUME NEW l
  PROVE  Trail(l, <<>>)
<1>1. <<>> \in Seq(Nat) /\ Len(<<>>) = 0
  OBVIOUS
<1> QED BY <1>1 DEF Trail

\* A sequence with an element before it.
LEMMA PutFirst ==
  ASSUME NEW n \in Nat, NEW b \in Seq(Nat)
  PROVE  LET c == <<n>> \o b IN
         /\ c \in Seq(Nat) /\ Len(c) = Len(b) + 1 /\ c[1] = n
         /\ \A i \in 1 .. Len(c) : i # 1 => i - 1 \in 1 .. Len(b) /\ c[i] = b[i - 1]
<1>1. Len(<<n>>) = 1 /\ <<n>>[1] = n /\ <<n>> \in Seq(Nat)
  OBVIOUS
<1> DEFINE a == <<n>>
<1> HIDE DEF a
<1>2. a \o b \in Seq(Nat) /\ Len(a \o b) = 1 + Len(b)
  BY <1>1 DEF a
<1>3. (a \o b)[1] = n /\ \A i \in 2 .. Len(b) + 1 : (a \o b)[i] = b[i - 1]
  BY <1>1 DEF a
<1> QED BY <1>2, <1>3 DEF a

\* An undo's first statement, below the head and what was undone.
LEMMA TrailRemembers ==
  ASSUME NEW l, SoundLog(l), NEW b, Trail(l, b)
  PROVE  Trail(UndoRemembers(l), b)
<1> DEFINE m == UndoRemembers(l)
           parent == l.rows[l.head].parent
<1>1. /\ m.count = l.count /\ m.head = l.head
      /\ parent \in 0 .. l.head - 1 /\ l.head \in 1 .. l.count
      /\ parent # NoState => m.redo = [l.redo EXCEPT ![parent] = l.head]
      /\ parent = NoState => m.redo = l.redo
  BY RemembersUndo
<1>2. l.count \in Nat /\ l.head \in Nat /\ l.redo \in Seq(Nat) /\ Len(l.redo) = l.count
  BY DEF SoundLog, LogSet
<1> HIDE DEF m
<1>3. ASSUME NEW s \in 1 .. l.count, l.head <= s
      PROVE  m.redo[s] = l.redo[s]
  <2>1. parent # s
    BY <1>1, <1>2, <1>3
  <2> HIDE DEF parent
  <2> QED BY <1>1, <1>2, <2>1
<1>4. ASSUME NEW i \in 1 .. Len(b)
      PROVE  b[i] \in 1 .. l.count /\ l.head < b[i] /\ m.redo[b[i]] = l.redo[b[i]]
  <2>1. b[i] \in 1 .. l.count /\ l.head < b[i]
    BY DEF Trail
  <2>2. l.head <= b[i]
    BY <1>2, <2>1
  <2> QED BY <1>3, <2>1, <2>2
<1>5. Trail(m, b)
  <2>1. m.redo[m.head] = l.redo[l.head]
    <3>1. l.head <= l.head
      BY <1>2
    <3> QED BY <1>1, <1>3, <3>1
  <2> QED BY <1>1, <1>4, <2>1 DEF Trail
<1> QED BY <1>5 DEF m

\* An undo: the head is the first to come back.
LEMMA TrailGrows ==
  ASSUME NEW l, SoundLog(l), NEW b, Trail(l, b), l.rows[l.head].parent # NoState
  PROVE  Trail(MoveHead(UndoRemembers(l), l.rows[l.head].parent), <<l.head>> \o b)
<1> DEFINE r == UndoRemembers(l)
           parent == l.rows[l.head].parent
           m == MoveHead(r, parent)
           c == <<l.head>> \o b
<1>1. /\ SoundLog(r) /\ r.count = l.count /\ r.head = l.head
      /\ parent \in 0 .. l.head - 1 /\ parent \in 1 .. l.count /\ l.head \in 1 .. l.count
      /\ r.redo = [l.redo EXCEPT ![parent] = l.head]
  BY RemembersUndo
<1>2. l.count \in Nat /\ l.head \in Nat /\ l.redo \in Seq(Nat) /\ Len(l.redo) = l.count
  BY DEF SoundLog, LogSet
<1>3. Trail(r, b)
  BY TrailRemembers
<1> HIDE DEF r
<1>4. m.count = l.count /\ m.redo = r.redo /\ m.head = parent
  BY <1>1, MovesHead
<1>5. /\ c \in Seq(Nat) /\ Len(c) = Len(b) + 1 /\ c[1] = l.head /\ Len(b) \in Nat
      /\ \A i \in 1 .. Len(c) : i # 1 => i - 1 \in 1 .. Len(b) /\ c[i] = b[i - 1]
  BY <1>2, PutFirst DEF Trail
<1> HIDE DEF m, c, parent
<1>6. m.redo[m.head] = c[1]
  BY <1>1, <1>2, <1>4, <1>5
<1>7. parent \in Nat /\ parent < l.head
  BY <1>1, <1>2
<1>8. ASSUME NEW i \in 1 .. Len(c)
      PROVE  /\ c[i] \in 1 .. m.count /\ m.head < c[i]
             /\ i < Len(c) => m.redo[c[i]] = c[i + 1]
  <2>1. CASE i = 1
    <3>1. c[i] \in 1 .. m.count /\ m.head < c[i]
      BY <1>1, <1>4, <1>5, <1>7, <2>1
    <3>2. ASSUME i < Len(c) PROVE m.redo[c[i]] = c[i + 1]
      <4>1. b # <<>> /\ c[2] = b[1]
        BY <1>5, <2>1, <3>2
      <4>2. r.redo[r.head] = b[1]
        BY <1>3, <4>1 DEF Trail
      <4> QED BY <1>1, <1>4, <1>5, <2>1, <4>1, <4>2
    <3> QED BY <3>1, <3>2
  <2>2. CASE i # 1
    <3>1. i - 1 \in 1 .. Len(b) /\ c[i] = b[i - 1]
      BY <1>5, <2>2
    <3>2. /\ b[i - 1] \in 1 .. r.count /\ r.head < b[i - 1]
          /\ i - 1 < Len(b) => r.redo[b[i - 1]] = b[(i - 1) + 1]
      BY <1>3, <3>1 DEF Trail
    <3>3. c[i] \in 1 .. m.count /\ m.head < c[i]
      BY <1>1, <1>2, <1>4, <1>7, <3>1, <3>2
    <3>4. ASSUME i < Len(c) PROVE m.redo[c[i]] = c[i + 1]
      <4>1. i + 1 \in 1 .. Len(c) /\ i + 1 # 1 /\ i - 1 < Len(b) /\ (i - 1) + 1 = (i + 1) - 1
        BY <1>5, <3>4
      <4>2. c[i + 1] = b[(i - 1) + 1]
        BY <1>5, <4>1
      <4> QED BY <1>4, <3>1, <3>2, <4>1, <4>2
    <3> QED BY <3>3, <3>4
  <2> QED BY <2>1, <2>2
<1>9. ASSUME NEW i \in 1 .. Len(c), NEW j \in 1 .. Len(c), i < j
      PROVE  c[i] < c[j]
  <2>1. j # 1 /\ j - 1 \in 1 .. Len(b) /\ c[j] = b[j - 1]
    BY <1>5, <1>9
  <2>2. CASE i = 1
    <3>1. r.head < b[j - 1]
      BY <1>3, <2>1 DEF Trail
    <3> QED BY <1>1, <1>5, <2>1, <2>2, <3>1
  <2>3. CASE i # 1
    <3>1. i - 1 \in 1 .. Len(b) /\ c[i] = b[i - 1] /\ i - 1 < j - 1
      BY <1>5, <1>9, <2>3
    <3> QED BY <1>3, <2>1, <3>1 DEF Trail
  <2> QED BY <2>2, <2>3
<1>10. Trail(m, c)
  BY <1>5, <1>6, <1>8, <1>9 DEF Trail
<1> QED BY <1>10 DEF m, c, parent, r

\* A redo: the head goes to the first of them, and the rest is left.
LEMMA TrailShrinks ==
  ASSUME NEW l, SoundLog(l), NEW b, Trail(l, b), b # <<>>
  PROVE  RedoTarget(l, l.head) = b[1] /\ b[1] \in 1 .. l.count /\ Trail(MoveHead(l, b[1]), Tail(b))
<1> DEFINE m == MoveHead(l, b[1])
           c == Tail(b)
<1>1. b \in Seq(Nat) /\ Len(b) \in Nat /\ 1 \in 1 .. Len(b) /\ b[1] \in 1 .. l.count /\ l.redo[l.head] = b[1]
  BY DEF Trail
<1>2. RedoTarget(l, l.head) = b[1]
  <2>1. l.redo[l.head] # NoState
    BY <1>1
  <2> QED BY <1>1, <2>1 DEF RedoTarget
<1>3. m.count = l.count /\ m.redo = l.redo /\ m.head = b[1]
  BY <1>1, MovesHead
<1>4. /\ c \in Seq(Nat) /\ Len(c) = Len(b) - 1
      /\ \A i \in 1 .. Len(c) : i + 1 \in 1 .. Len(b) /\ c[i] = b[i + 1]
  BY <1>1
<1> HIDE DEF m, c
<1>5. c # <<>> => m.redo[m.head] = c[1]
  <2> SUFFICES ASSUME c # <<>> PROVE m.redo[m.head] = c[1]
    OBVIOUS
  <2>1. 1 \in 1 .. Len(c) /\ 1 < Len(b)
    BY <1>1, <1>4
  <2>2. l.redo[b[1]] = b[1 + 1] /\ c[1] = b[1 + 1]
    BY <1>1, <1>4, <2>1 DEF Trail
  <2> QED BY <1>3, <2>2
<1>6. ASSUME NEW i \in 1 .. Len(c)
      PROVE  /\ c[i] \in 1 .. m.count /\ m.head < c[i]
             /\ i < Len(c) => m.redo[c[i]] = c[i + 1]
  <2>1. i + 1 \in 1 .. Len(b) /\ c[i] = b[i + 1] /\ 1 < i + 1
    BY <1>4
  <2>2. b[i + 1] \in 1 .. l.count /\ b[1] < b[i + 1]
    BY <1>1, <2>1 DEF Trail
  <2>3. ASSUME i < Len(c) PROVE m.redo[c[i]] = c[i + 1]
    <3>1. i + 1 \in 1 .. Len(c) /\ i + 1 < Len(b)
      <4>1. i \in Nat /\ 1 <= i /\ Len(c) \in Nat /\ Len(c) = Len(b) - 1
        BY <1>1, <1>4
      <4> QED BY <1>1, <2>3, <4>1
    <3>2. l.redo[b[i + 1]] = b[(i + 1) + 1]
      BY <2>1, <3>1 DEF Trail
    <3>3. c[i + 1] = b[(i + 1) + 1]
      BY <1>4, <3>1
    <3> QED BY <1>3, <2>1, <3>2, <3>3
  <2> QED BY <1>3, <2>1, <2>2, <2>3
<1>7. ASSUME NEW i \in 1 .. Len(c), NEW j \in 1 .. Len(c), i < j
      PROVE  c[i] < c[j]
  <2>1. i + 1 \in 1 .. Len(b) /\ j + 1 \in 1 .. Len(b) /\ i + 1 < j + 1 /\ c[i] = b[i + 1] /\ c[j] = b[j + 1]
    BY <1>4, <1>7
  <2> QED BY <2>1 DEF Trail
<1>8. Trail(m, c)
  BY <1>4, <1>5, <1>6, <1>7 DEF Trail
<1> QED BY <1>1, <1>2, <1>8 DEF m, c

(* The invariant: a sound log, a way back, and sessions that speak of its states. *)

Mounts(n) ==
  [mode : {"new", "open", "closed"}, seen : [state : 0 .. n, doc : Document], left : 0 .. Behind]

\* What a session waits for, or its answer, names states the log has.
CallOK(c, n) ==
  /\ c.op \in {"none", "head", "commit", "undo", "redo", "jump", "pin", "failed", "reply"}
  /\ c.op = "commit" => c.group \in {"none", "repeat"} /\ c.doc \in Document
  /\ c.op \in {"jump", "pin"} => c.to \in 1 .. n
  /\ c.op = "reply" => c.state \in 1 .. n /\ c.doc \in Document

LogInv == SoundLog(log) /\ Trail(log, back)
AskInv ==
  /\ session \in [Session -> Mounts(log.count)]
  /\ DOMAIN call = Session /\ \A e \in Session : CallOK(call[e], log.count)
EditInv == LogInv /\ AskInv

\* What every step leaves of the log.
LogKept == LogInv' /\ Keeps(log, log')

LEMMA EditBegins == EditInit => EditInv
<1> SUFFICES ASSUME EditInit PROVE EditInv
  OBVIOUS
<1> DEFINE row == Row(NoState, 0, "none", Diff({}, {}), {{}}, {})
<1>1. /\ log.count = 1 /\ log.head = 1 /\ log.redo = <<NoState>> /\ log.rows = <<row>> /\ back = <<>>
      /\ log = [count |-> 1, head |-> 1, redo |-> <<NoState>>, rows |-> <<row>>]
  BY DEF EditInit
<1>2. {} \in Document /\ Diff({}, {}) \in Patch
  BY DEF Diff, Patch, Document
<1>3. /\ row \in LogRow /\ row.parent = NoState /\ row.depth = 0 /\ row.saved = {{}} /\ row.said = {}
  BY <1>2 DEF Row, LogRow
<1> HIDE DEF row
<1>4. /\ <<row>> \in Seq(LogRow) /\ Len(<<row>>) = 1 /\ <<row>>[1] = row
      /\ <<NoState>> \in Seq(Nat) /\ Len(<<NoState>>) = 1 /\ <<NoState>>[1] = NoState
  BY <1>3
<1>5. log \in LogSet
  BY <1>1, <1>4 DEF LogSet
<1>6. \A s \in 1 .. 1 : s = 1
  OBVIOUS
<1>7. Faithful(log) /\ Depths(log) /\ RedoLeadsDown(log)
  <2>1. \A s \in 1 .. log.count :
          /\ log.rows[s].parent \in 0 .. (s - 1) /\ log.rows[s].parent = NoState
          /\ log.rows[s].saved = {log.rows[s].said} /\ log.rows[s].saved # {}
          /\ log.rows[s].depth = 0 /\ log.redo[s] = NoState
    <3> SUFFICES ASSUME NEW s \in 1 .. log.count
                 PROVE  /\ log.rows[s].parent \in 0 .. (s - 1) /\ log.rows[s].parent = NoState
                        /\ log.rows[s].saved = {log.rows[s].said} /\ log.rows[s].saved # {}
                        /\ log.rows[s].depth = 0 /\ log.redo[s] = NoState
      OBVIOUS
    <3>1. s = 1
      BY <1>1, <1>6
    <3>2. log.rows[s] = row /\ log.redo[s] = NoState
      BY <1>1, <1>4, <3>1
    <3>3. 0 \in 0 .. (s - 1)
      BY <3>1
    <3>4. row.saved = {row.said} /\ row.saved # {}
      BY <1>3
    <3> QED BY <1>3, <3>2, <3>3, <3>4
  <2>2. Faithful(log)
    BY <2>1 DEF Faithful
  <2>3. Depths(log)
    BY <2>1 DEF Depths
  <2>4. RedoLeadsDown(log)
    BY <2>1 DEF RedoLeadsDown
  <2> QED BY <2>2, <2>3, <2>4
<1>8. SoundLog(log)
  BY <1>1, <1>4, <1>5, <1>7 DEF SoundLog
<1>9. Trail(log, back)
  BY <1>1, NoTrail
<1>10. AskInv
  BY <1>1, <1>2 DEF EditInit, AskInv, Mounts, NewSession, Unseen, CallOK, NoCall
<1> QED BY <1>8, <1>9, <1>10 DEF EditInv, LogInv

LEMMA LogRests ==
  ASSUME LogInv, UNCHANGED <<log, back>>
  PROVE  LogKept
<1>1. log.count \in Nat
  BY DEF LogInv, SoundLog, LogSet
<1> QED BY <1>1 DEF LogInv, LogKept, Keeps

\* The commands, and what is left of one that is cut short.

LEMMA CommitKeeps ==
  ASSUME EditInv, NEW e \in Session, RunCommit(e)
  PROVE  LogKept
<1>1. /\ SoundLog(log) /\ Trail(log, back) /\ CallOK(call[e], log.count) /\ call[e].op = "commit"
      /\ log' \in Committed(log, call[e].group, call[e].doc) /\ log'.count <= MaxStates
      /\ back' = IF log'.count = log.count THEN back ELSE <<>>
  BY DEF EditInv, LogInv, AskInv, RunCommit
<1>2. call[e].group \in {"none", "repeat"} /\ call[e].doc \in Document
  BY <1>1 DEF CallOK
<1>3. /\ SoundLog(log') /\ Keeps(log, log')
      /\ log'.count = log.count => log'.head = log.head /\ log'.redo = log.redo
  BY <1>1, <1>2, Commits
<1>4. Trail(log', back')
  <2>1. CASE log'.count = log.count
    BY <1>1, <1>3, <2>1, TrailStays
  <2>2. CASE log'.count # log.count
    BY <1>1, <2>2, NoTrail
  <2> QED BY <2>1, <2>2
<1> QED BY <1>3, <1>4 DEF LogKept, LogInv

LEMMA KeepsTwice ==
  ASSUME NEW l, NEW m, NEW n, SoundLog(l), SoundLog(m), Keeps(l, m), m.rows = l.rows, m.count = l.count,
         Keeps(m, n)
  PROVE  Keeps(l, n)
BY DEF Keeps, Children

LEMMA UndoKeeps ==
  ASSUME EditInv, NEW e \in Session, RunUndo(e)
  PROVE  LogKept
<1> DEFINE parent == log.rows[log.head].parent
           r == UndoRemembers(log)
<1>1. SoundLog(log) /\ Trail(log, back)
  BY DEF EditInv, LogInv
<1>2. CASE parent = NoState
  BY <1>2, LogRests DEF RunUndo, EditInv
<1>3. CASE parent # NoState
  <2>1. log' = MoveHead(r, parent) /\ back' = <<log.head>> \o back
    BY <1>3 DEF RunUndo
  <2>2. /\ SoundLog(r) /\ Keeps(log, r) /\ r.rows = log.rows /\ r.count = log.count
        /\ parent \in 1 .. log.count
    BY <1>1, <1>3, RemembersUndo
  <2>3. Trail(log', back')
    BY <1>1, <1>3, <2>1, TrailGrows
  <2> HIDE DEF r, parent
  <2>4. SoundLog(log') /\ Keeps(r, log')
    BY <2>1, <2>2, MovesHead
  <2>5. Keeps(log, log')
    BY <1>1, <2>2, <2>4, KeepsTwice
  <2> QED BY <2>3, <2>4, <2>5 DEF LogKept, LogInv
<1> QED BY <1>2, <1>3

LEMMA RedoKeeps ==
  ASSUME EditInv, NEW e \in Session, RunRedo(e)
  PROVE  LogKept
<1> DEFINE target == RedoTarget(log, log.head)
<1>1. SoundLog(log) /\ Trail(log, back) /\ log.head \in 1 .. log.count
  BY DEF EditInv, LogInv, SoundLog
<1>2. CASE target = NoState
  BY <1>2, LogRests DEF RunRedo, EditInv
<1>3. CASE target # NoState
  <2>1. log' = MoveHead(log, target) /\ back' = IF back = <<>> THEN back ELSE Tail(back)
    BY <1>3 DEF RunRedo
  <2>2. target \in 1 .. log.count
    BY <1>1, <1>3, RedoGoesDown
  <2>3. Trail(log', back')
    <3>1. CASE back = <<>>
      BY <2>1, <3>1, NoTrail
    <3>2. CASE back # <<>>
      <4>1. target = back[1] /\ Trail(MoveHead(log, back[1]), Tail(back))
        BY <1>1, <3>2, TrailShrinks
      <4> HIDE DEF target
      <4> QED BY <2>1, <3>2, <4>1
    <3> QED BY <3>1, <3>2
  <2> HIDE DEF target
  <2>4. SoundLog(log') /\ Keeps(log, log')
    BY <1>1, <2>1, <2>2, MovesHead
  <2> QED BY <2>3, <2>4 DEF LogKept, LogInv
<1> QED BY <1>2, <1>3

LEMMA JumpKeeps ==
  ASSUME EditInv, NEW e \in Session, RunJump(e)
  PROVE  LogKept
<1> DEFINE r == JumpRemembers(log, call[e].to)
<1>1. /\ SoundLog(log) /\ CallOK(call[e], log.count) /\ call[e].op = "jump"
      /\ log' = MoveHead(r, call[e].to) /\ back' = <<>>
  BY DEF EditInv, LogInv, AskInv, RunJump
<1>2. call[e].to \in 1 .. log.count
  BY <1>1 DEF CallOK
<1>3. SoundLog(r) /\ Keeps(log, r) /\ r.rows = log.rows /\ r.count = log.count
  BY <1>1, RemembersJump
<1> HIDE DEF r
<1>4. SoundLog(log') /\ Keeps(r, log')
  BY <1>1, <1>2, <1>3, MovesHead
<1>5. Keeps(log, log')
  BY <1>1, <1>3, <1>4, KeepsTwice
<1>6. Trail(log', back')
  BY <1>1, NoTrail
<1> QED BY <1>4, <1>5, <1>6 DEF LogKept, LogInv

LEMMA PinKeeps ==
  ASSUME EditInv, NEW e \in Session, RunPin(e)
  PROVE  LogKept
<1>1. /\ SoundLog(log) /\ Trail(log, back) /\ CallOK(call[e], log.count) /\ call[e].op = "pin"
      /\ log' = [log EXCEPT !.rows[call[e].to].pinned = ~@] /\ back' = back
  BY DEF EditInv, LogInv, AskInv, RunPin
<1>2. call[e].to \in 1 .. log.count
  BY <1>1 DEF CallOK
<1>3. /\ SoundLog(log') /\ Keeps(log, log')
      /\ log'.count = log.count /\ log'.head = log.head /\ log'.redo = log.redo
  BY <1>1, <1>2, Pins
<1>4. Trail(log', back')
  BY <1>1, <1>3, TrailStays
<1> QED BY <1>3, <1>4 DEF LogKept, LogInv

LEMMA CutKeeps ==
  ASSUME EditInv, NEW e \in Session, CutShort(e)
  PROVE  LogKept
<1>1. SoundLog(log) /\ Trail(log, back) /\ CallOK(call[e], log.count)
  BY DEF EditInv, LogInv, AskInv
<1>2. CASE UNCHANGED <<log, back>>
  BY <1>2, LogRests DEF EditInv
<1>3. CASE call[e].op = "undo" /\ log' = UndoRemembers(log) /\ UNCHANGED back
  <2>1. SoundLog(log') /\ Keeps(log, log')
    BY <1>1, <1>3, RemembersUndo
  <2>2. Trail(log', back')
    BY <1>1, <1>3, TrailRemembers
  <2> QED BY <2>1, <2>2 DEF LogKept, LogInv
<1>4. CASE call[e].op = "jump" /\ log' = JumpRemembers(log, call[e].to) /\ back' = <<>>
  <2>1. SoundLog(log') /\ Keeps(log, log')
    BY <1>1, <1>4, RemembersJump
  <2>2. Trail(log', back')
    BY <1>4, NoTrail
  <2> QED BY <2>1, <2>2 DEF LogKept, LogInv
<1> QED BY <1>2, <1>3, <1>4 DEF CutShort

\* The sessions.

LEMMA AsksStay ==
  ASSUME AskInv, LogKept, log.count \in Nat
  PROVE  /\ session \in [Session -> Mounts(log'.count)]
         /\ \A e \in Session : CallOK(call[e], log'.count)
<1>1. log'.count \in Nat /\ log.count <= log'.count
  BY DEF LogKept, LogInv, SoundLog, LogSet, Keeps
<1>2. \A x : (x \in 0 .. log.count => x \in 0 .. log'.count) /\ (x \in 1 .. log.count => x \in 1 .. log'.count)
  BY <1>1
<1>3. Mounts(log.count) \subseteq Mounts(log'.count)
  BY <1>2 DEF Mounts
<1>4. session \in [Session -> Mounts(log'.count)]
  BY <1>3 DEF AskInv
<1>5. \A e \in Session : CallOK(call[e], log'.count)
  BY <1>2 DEF AskInv, CallOK
<1> QED BY <1>4, <1>5

LEMMA AnswerOK ==
  ASSUME NEW l, SoundLog(l)
  PROVE  CallOK(Answer(l), l.count)
<1>1. l.head \in 1 .. l.count /\ DocumentAt(l, l.head) \in Document
  BY SaidIsDocument DEF SoundLog
<1> QED BY <1>1 DEF Answer, CallOK

\* A command that has run, whatever it has answered.
LEMMA AfterRun ==
  ASSUME EditInv, LogKept, NEW e \in Session, NEW c, CallOK(c, log'.count),
         call' = [call EXCEPT ![e] = c], UNCHANGED session
  PROVE  EditInv'
<1>1. log.count \in Nat
  BY DEF EditInv, LogInv, SoundLog, LogSet
<1>2. /\ session \in [Session -> Mounts(log'.count)]
      /\ \A f \in Session : CallOK(call[f], log'.count)
  BY <1>1, AsksStay DEF EditInv
<1>3. DOMAIN call' = Session /\ \A f \in Session : call'[f] = IF f = e THEN c ELSE call[f]
  BY DEF EditInv, AskInv
<1>4. \A f \in Session : CallOK(call'[f], log'.count)
  <2> SUFFICES ASSUME NEW f \in Session PROVE CallOK(call'[f], log'.count)
    OBVIOUS
  <2>1. call'[f] = c \/ call'[f] = call[f]
    BY <1>3
  <2> QED BY <1>2, <2>1
<1>5. AskInv'
  BY <1>2, <1>3, <1>4 DEF AskInv
<1> QED BY <1>5 DEF EditInv, LogKept

LEMMA AfterAnswer ==
  ASSUME EditInv, LogKept, NEW e \in Session, Answered(e)
  PROVE  EditInv'
<1>1. CallOK(Answer(log'), log'.count)
  BY AnswerOK DEF LogKept, LogInv
<1> QED BY <1>1, AfterRun DEF Answered

\* A step of the page: the log is let be.
LEMMA AfterAsk ==
  ASSUME EditInv, NEW e \in Session, UNCHANGED <<log, back>>, NEW c, CallOK(c, log.count),
         call' = [call EXCEPT ![e] = c], session' \in [Session -> Mounts(log.count)]
  PROVE  EditInv' /\ LogKept
<1>1. LogKept
  BY LogRests DEF EditInv
<1>2. DOMAIN call' = Session /\ \A f \in Session : call'[f] = IF f = e THEN c ELSE call[f]
  BY DEF EditInv, AskInv
<1>3. \A f \in Session : CallOK(call'[f], log.count)
  <2> SUFFICES ASSUME NEW f \in Session PROVE CallOK(call'[f], log.count)
    OBVIOUS
  <2>1. call'[f] = c \/ call'[f] = call[f]
    BY <1>2
  <2> QED BY <2>1 DEF EditInv, AskInv
<1>4. AskInv'
  BY <1>2, <1>3 DEF AskInv
<1> QED BY <1>1, <1>4 DEF EditInv, LogKept

LEMMA EditorStep ==
  ASSUME EditInv, NEW e \in Session,
         \/ OpenEdit(e) \/ CloseEdit(e)
         \/ AskCommit(e) \/ AskUndo(e) \/ AskRedo(e) \/ AskJump(e) \/ AskPin(e)
         \/ Delivered(e)
  PROVE  EditInv' /\ LogKept
<1>1. /\ session \in [Session -> Mounts(log.count)] /\ session[e] \in Mounts(log.count)
      /\ CallOK(call[e], log.count) /\ DOMAIN call = Session
  BY DEF EditInv, AskInv
<1>2. ASSUME NEW c, CallOK(c, log.count), Begins(e, c)
      PROVE  EditInv' /\ LogKept
  <2>1. session[e].left \in 0 .. Behind => (IF session[e].left > 0 THEN session[e].left - 1 ELSE session[e].left) \in 0 .. Behind
    OBVIOUS
  <2>2. session' \in [Session -> Mounts(log.count)]
    <3> DEFINE left == IF session[e].left > 0 THEN session[e].left - 1 ELSE session[e].left
    <3>1. session' = [session EXCEPT ![e] = [session[e] EXCEPT !.left = left]]
      BY <1>1, <1>2 DEF Begins, Mounts
    <3>2. session[e].left \in 0 .. Behind
      BY <1>1 DEF Mounts
    <3>3. left \in 0 .. Behind
      BY <2>1, <3>2
    <3> HIDE DEF left
    <3>4. [session[e] EXCEPT !.left = left] \in Mounts(log.count)
      BY <1>1, <3>3 DEF Mounts
    <3> QED BY <1>1, <3>1, <3>4
  <2> QED BY <1>2, <2>2, AfterAsk DEF Begins
<1>3. CASE OpenEdit(e)
  <2>1. session' \in [Session -> Mounts(log.count)]
    <3>1. [session[e] EXCEPT !.mode = "open"] \in Mounts(log.count)
      BY <1>1 DEF Mounts
    <3> QED BY <1>1, <1>3, <3>1 DEF OpenEdit
  <2>2. CallOK([op |-> "head"], log.count)
    BY DEF CallOK
  <2> QED BY <1>3, <2>1, <2>2, AfterAsk DEF OpenEdit
<1>4. CASE CloseEdit(e)
  <2>1. PICK left \in 0 .. Behind :
          session' = [session EXCEPT ![e].mode = "closed", ![e].left = left]
    BY <1>4 DEF CloseEdit
  <2>2. session' \in [Session -> Mounts(log.count)]
    <3>1. session' = [session EXCEPT ![e] = [session[e] EXCEPT !.mode = "closed", !.left = left]]
      BY <1>1, <2>1 DEF Mounts
    <3>2. [session[e] EXCEPT !.mode = "closed", !.left = left] \in Mounts(log.count)
      BY <1>1 DEF Mounts
    <3> QED BY <1>1, <3>1, <3>2
  <2>3. AskInv'
    BY <1>4, <2>2 DEF CloseEdit, EditInv, AskInv
  <2>4. LogKept
    BY <1>4, LogRests DEF CloseEdit, EditInv
  <2> QED BY <2>3, <2>4 DEF EditInv, LogKept
<1>5. CASE AskCommit(e)
  <2>1. PICK c \in Changes, group \in {"none", "repeat"} :
          LET seen == session[e].seen.doc IN
          Begins(e, IF session[e].seen.state = NoState THEN NoCall
                    ELSE [op |-> "commit", group |-> group,
                          doc |-> IF c \in seen THEN seen \ {c} ELSE seen \cup {c}])
    BY <1>5 DEF AskCommit
  <2> DEFINE doc == IF c \in session[e].seen.doc THEN session[e].seen.doc \ {c} ELSE session[e].seen.doc \cup {c}
             commit == [op |-> "commit", group |-> group, doc |-> doc]
             request == IF session[e].seen.state = NoState THEN NoCall ELSE commit
  <2>2. doc \in Document
    BY <1>1 DEF Mounts, Document
  <2>3. Begins(e, request)
    BY <2>1
  <2> HIDE DEF doc
  <2>4. CallOK(commit, log.count)
    BY <2>2 DEF CallOK
  <2>5. CallOK(NoCall, log.count)
    BY DEF CallOK, NoCall
  <2>6. CallOK(request, log.count)
    BY <2>4, <2>5
  <2> QED BY <1>2, <2>3, <2>6
<1>6. CASE AskUndo(e) \/ AskRedo(e)
  <2>1. CallOK([op |-> "undo"], log.count) /\ CallOK([op |-> "redo"], log.count)
    BY DEF CallOK
  <2> QED BY <1>2, <1>6, <2>1 DEF AskUndo, AskRedo
<1>7. CASE AskJump(e) \/ AskPin(e)
  <2>1. \A s \in State : CallOK([op |-> "jump", to |-> s], log.count) /\ CallOK([op |-> "pin", to |-> s], log.count)
    BY DEF CallOK, State
  <2> QED BY <1>2, <1>7, <2>1 DEF AskJump, AskPin
<1>8. CASE Delivered(e)
  <2>1. CallOK(NoCall, log.count)
    BY DEF CallOK, NoCall
  <2>2. session' \in [Session -> Mounts(log.count)]
    <3> DEFINE seen == IF session[e].mode = "open" /\ call[e].op = "reply"
                         THEN [state |-> call[e].state, doc |-> call[e].doc] ELSE session[e].seen
    <3>1. seen \in [state : 0 .. log.count, doc : Document]
      BY <1>1 DEF CallOK, Mounts
    <3>2. session' = [session EXCEPT ![e] = [session[e] EXCEPT !.seen = seen]]
      BY <1>1, <1>8 DEF Delivered, Mounts
    <3> HIDE DEF seen
    <3>3. [session[e] EXCEPT !.seen = seen] \in Mounts(log.count)
      BY <1>1, <3>1 DEF Mounts
    <3> QED BY <1>1, <3>2, <3>3
  <2> QED BY <1>8, <2>1, <2>2, AfterAsk DEF Delivered
<1> QED BY <1>3, <1>4, <1>5, <1>6, <1>7, <1>8

LEMMA EditStep ==
  ASSUME EditInv, [EditNext]_editVars
  PROVE  EditInv' /\ LogKept
<1>1. ASSUME NEW e \in Session, RunHead(e) PROVE EditInv' /\ LogKept
  BY <1>1, LogRests, AfterAnswer DEF RunHead, EditInv
<1>2. ASSUME NEW e \in Session, RunCommit(e) PROVE EditInv' /\ LogKept
  BY <1>2, CommitKeeps, AfterAnswer DEF RunCommit
<1>3. ASSUME NEW e \in Session, RunUndo(e) PROVE EditInv' /\ LogKept
  BY <1>3, UndoKeeps, AfterAnswer DEF RunUndo
<1>4. ASSUME NEW e \in Session, RunRedo(e) PROVE EditInv' /\ LogKept
  BY <1>4, RedoKeeps, AfterAnswer DEF RunRedo
<1>5. ASSUME NEW e \in Session, RunJump(e) PROVE EditInv' /\ LogKept
  BY <1>5, JumpKeeps, AfterAnswer DEF RunJump
<1>6. ASSUME NEW e \in Session, RunPin(e) PROVE EditInv' /\ LogKept
  <2>1. CallOK(NoCall, log'.count)
    BY DEF CallOK, NoCall
  <2> QED BY <1>6, <2>1, PinKeeps, AfterRun DEF RunPin
<1>7. ASSUME NEW e \in Session, Fails(e) PROVE EditInv' /\ LogKept
  <2>1. CallOK([op |-> "failed"], log'.count)
    BY DEF CallOK
  <2> QED BY <1>7, <2>1, CutKeeps, AfterRun DEF Fails
<1>8. ASSUME Restart PROVE EditInv' /\ LogKept
  <2>1. LogKept
    <3>1. CASE UNCHANGED <<log, back>>
      BY <3>1, LogRests DEF EditInv
    <3>2. CASE \E e \in Session : CutShort(e)
      BY <3>2, CutKeeps
    <3> QED BY <1>8, <3>1, <3>2 DEF Restart
  <2>2. session' = [e \in Session |-> NewSession] /\ call' = [e \in Session |-> NoCall]
    BY <1>8 DEF Restart
  <2>3. log'.count \in Nat
    BY <2>1 DEF LogKept, LogInv, SoundLog, LogSet
  <2>4. NewSession \in Mounts(log'.count) /\ CallOK(NoCall, log'.count)
    BY <2>3 DEF Mounts, NewSession, Unseen, Document, CallOK, NoCall
  <2>5. AskInv'
    BY <2>2, <2>4 DEF AskInv
  <2> QED BY <2>1, <2>5 DEF EditInv, LogKept
<1>9. CASE UNCHANGED editVars
  <2>1. UNCHANGED <<log, back>> /\ UNCHANGED <<session, call>>
    BY <1>9 DEF editVars
  <2>2. LogKept
    BY <2>1, LogRests DEF EditInv
  <2>3. AskInv'
    BY <2>1 DEF EditInv, AskInv
  <2> QED BY <2>2, <2>3 DEF EditInv, LogKept
<1>10. CASE EditNext
  BY <1>1, <1>2, <1>3, <1>4, <1>5, <1>6, <1>7, <1>8, <1>10, EditorStep DEF EditNext
<1> QED BY <1>9, <1>10

LEMMA EditAlways == EditSpec => []EditInv
<1>1. EditInv /\ [EditNext]_editVars => EditInv'
  BY EditStep
<1> QED BY EditBegins, <1>1, PTL DEF EditSpec

\* The invariant has the log's type, and its sessions'.
THEOREM EditTypes == EditSpec => []EditTypeOK
<1>1. EditInv => EditTypeOK
  <2> SUFFICES ASSUME EditInv PROVE EditTypeOK
    OBVIOUS
  <2>1. /\ log.count \in 1 .. MaxStates /\ log.head \in State
        /\ Faithful(log) /\ Depths(log) /\ RedoLeadsDown(log)
    BY DEF EditInv, LogInv, SoundLog, State
  <2>2. ASSUME NEW s \in State
        PROVE  /\ log.rows[s].parent \in 0 .. (s - 1)
               /\ log.rows[s].parent = NoState => log.rows[s].saved # {}
    BY <2>1 DEF Faithful, State
  <2>3. ASSUME NEW s \in State
        PROVE  log.rows[s].depth = IF log.rows[s].parent = NoState THEN 0
                                   ELSE log.rows[log.rows[s].parent].depth + 1
    BY <2>1 DEF Depths, State
  <2>4. ASSUME NEW s \in State, log.redo[s] # NoState
        PROVE  log.redo[s] \in State /\ log.rows[log.redo[s]].parent = s
    BY <2>1, <2>4 DEF RedoLeadsDown, State
  <2>5. ASSUME NEW e \in Session
        PROVE  /\ session[e].mode \in {"new", "open", "closed"} /\ session[e].left \in 0 .. Behind
               /\ session[e].seen.state \in 0 .. log.count /\ session[e].seen.doc \in Document
               /\ call[e].op \in {"none", "head", "commit", "undo", "redo", "jump", "pin",
                                  "failed", "reply"}
    BY DEF EditInv, AskInv, Mounts, CallOK
  <2> QED BY <2>1, <2>2, <2>3, <2>4, <2>5 DEF EditTypeOK
<1> QED BY <1>1, EditAlways, PTL

\* Every state replays to the document it was last given.
THEOREM LogReplays == EditSpec => []ReplaysExactly
<1>1. EditInv => ReplaysExactly
  BY SaidIsDocument DEF EditInv, LogInv, ReplaysExactly, State
<1> QED BY <1>1, EditAlways, PTL

\* No command, and none that is cut short, takes a state away or changes one
\* that has steps after it or a name.
THEOREM LogKeepsSteps == EditSpec => StepsAreKept
<1> DEFINE Kept == \A s \in State :
       s <= log'.count /\ (Children(log, s) # {} \/ log.rows[s].pinned
                             => DocumentAt(log', s) = DocumentAt(log, s))
<1>1. EditInv /\ [EditNext]_editVars => [Kept]_editVars
  <2> SUFFICES ASSUME EditInv, [EditNext]_editVars PROVE Kept
    OBVIOUS
  <2>1. SoundLog(log) /\ SoundLog(log') /\ Keeps(log, log') /\ log.count \in Nat /\ log'.count \in Nat
    BY EditStep DEF EditInv, LogKept, LogInv, SoundLog, LogSet
  <2> TAKE s \in State
  <2>2. s \in 1 .. log.count /\ s \in 1 .. log'.count /\ s <= log'.count
    BY <2>1 DEF State, Keeps
  <2>3. DocumentAt(log, s) = log.rows[s].said /\ DocumentAt(log', s) = log'.rows[s].said
    BY <2>1, <2>2, SaidIsDocument
  <2> QED BY <2>1, <2>2, <2>3 DEF Keeps
<1> QED BY <1>1, EditAlways, PTL DEF EditSpec, StepsAreKept

\* Redo brings back what was undone, last first, wherever an undo was cut short.
THEOREM RedoFollowsUndo == EditSpec => []RedoRetraces
<1>1. EditInv => RedoRetraces
  <2> SUFFICES ASSUME EditInv, back # <<>>
               PROVE  /\ RedoTarget(log, log.head) = Head(back)
                      /\ \A i \in 1 .. (Len(back) - 1) : RedoTarget(log, back[i]) = back[i + 1]
    BY DEF RedoRetraces
  <2>1. SoundLog(log) /\ Trail(log, back) /\ back \in Seq(Nat)
    BY DEF EditInv, LogInv, Trail
  <2>2. RedoTarget(log, log.head) = Head(back)
    BY <2>1, TrailShrinks
  <2>3. ASSUME NEW i \in 1 .. (Len(back) - 1) PROVE RedoTarget(log, back[i]) = back[i + 1]
    <3>1. i \in 1 .. Len(back) /\ i < Len(back) /\ i + 1 \in 1 .. Len(back)
      BY <2>1
    <3>2. log.redo[back[i]] = back[i + 1] /\ back[i + 1] \in 1 .. log.count
      BY <2>1, <3>1 DEF Trail
    <3>3. back[i + 1] # NoState
      BY <2>1, <3>2 DEF SoundLog, LogSet
    <3> QED BY <3>2, <3>3 DEF RedoTarget
  <2> QED BY <2>2, <2>3
<1> QED BY <1>1, EditAlways, PTL
=============================================================================
