---------------------------- MODULE MCMachines ----------------------------
(* The machines that share no state with one another, side by side: a behaviour
   chooses one of them and the others rest. *)
EXTENDS ScreenShare, TranscriptJob, WebPlayback, EditLog

VARIABLE machine

others(m) ==
  /\ m # "share" => UNCHANGED shareVars
  /\ m # "job" => UNCHANGED jobVars
  /\ m # "playback" => UNCHANGED playbackVars
  /\ m # "edit" => UNCHANGED editVars

Init ==
  /\ machine \in {"share", "job", "playback", "edit"}
  /\ ShareInit /\ JobInit /\ PlaybackInit /\ EditInit

Next ==
  /\ UNCHANGED machine /\ others(machine)
  /\ \/ machine = "share" /\ ShareNext
     \/ machine = "job" /\ JobNext
     \/ machine = "playback" /\ PlaybackNext
     \/ machine = "edit" /\ EditNext

vars == <<machine, shareVars, jobVars, playbackVars, editVars>>

Spec == Init /\ [][Next]_vars /\ ShareFairness /\ JobFairness /\ PlaybackFairness
=============================================================================
