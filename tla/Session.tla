------------------------------- MODULE Session -------------------------------
(***************************************************************************)
(* The two uses of the core that must agree about one run: the client that *)
(* plays and records it and the server that replays it (Replay), and the   *)
(* harness that reruns a seed (Harness).  They share the library and no    *)
(* state, so the harness is run before the session begins.                 *)
(***************************************************************************)
EXTENDS Replay, Harness

allVars == <<vars, harnessVars>>

SessionInit == Init /\ HarnessInit

Play   == harness = "idle" /\ Next /\ UNCHANGED harnessVars
Rerun  == trail = <<Start>> /\ mode = "idle" /\ image = [Image(Start) EXCEPT !.length = "none"]
            /\ HarnessNext /\ UNCHANGED vars
Forget == /\ harness = "reported"
          /\ harness' = "idle" /\ asked' = Unasked /\ differs' = <<>>
          /\ runNo' = 0 /\ tickNo' = 0 /\ report' = NoReport
          /\ UNCHANGED vars

SessionSpec == SessionInit /\ [][Play \/ Rerun \/ Forget]_allVars

(* dc_headless_checksum is one call, and its loop goes on.                 *)
FairSession ==
  SessionSpec /\ WF_allVars((Feed \/ Advance \/ Finish) /\ UNCHANGED harnessVars)
=============================================================================
