---------------------------- MODULE MCSafeguards ----------------------------
(* Machines that share no state and of which only safety is asked, side by side:
   who presents in a live room, the program its host presents, who is let in, the
   room this machine is in, the export of clips, and the gate before a download.  A behaviour is of one of them. *)
EXTENDS Floor, NdiProgram, Admission, Seat, ClipQueue, AcquisitionGate, TLC

CONSTANTS s1, s2

VARIABLE machine

others(m) ==
  /\ m # "floor" => UNCHANGED floorVars
  /\ m # "program" => UNCHANGED ndiVars
  /\ m # "links" => UNCHANGED admissionVars
  /\ m # "seat" => UNCHANGED seatVars
  /\ m # "clips" => UNCHANGED clipVars
  /\ m # "gate" => UNCHANGED gateVars

Init ==
  /\ machine \in {"floor", "program", "links", "seat", "clips", "gate"}
  /\ FloorInit /\ NdiInit /\ AdmissionInit /\ SeatInit /\ ClipInit /\ GateInit

Next ==
  /\ UNCHANGED machine /\ others(machine)
  /\ \/ machine = "floor" /\ FloorNext
     \/ machine = "program" /\ NdiNext
     \/ machine = "links" /\ AdmissionNext
     \/ machine = "seat" /\ SeatNext
     \/ machine = "clips" /\ ClipNext
     \/ machine = "gate" /\ GateNext

vars == <<machine, floorVars, ndiVars, admissionVars, seatVars, clipVars, gateVars>>

Spec == Init /\ [][Next]_vars

\* The sources of a program are interchangeable.
Alike == Permutations({s1, s2})
=============================================================================
