---------------------------- MODULE ServerPromise ----------------------------
(***************************************************************************)
(* What the lifecycle promises to its users, without locks or goroutines:  *)
(* the phase of the one Factorio server and whether a stop was asked for.  *)
(* ServerLifecycle implements it as long as runs follow one another.       *)
(***************************************************************************)
VARIABLES phase, asked

vars == <<phase, asked>>

Init == phase = "stopped" /\ asked = FALSE

Begin == phase = "stopped" /\ phase' = "starting" /\ asked' = FALSE

\* A failed startup forgets a stop that was queued for it.
Abort == phase = "starting" /\ phase' = "stopped" /\ asked' = FALSE

\* The process is published; it may have died before that.
Serve == phase = "starting" /\ phase' \in {"up", "gone"} /\ UNCHANGED asked

Ask == phase # "stopped" /\ asked' = TRUE /\ UNCHANGED phase

\* SIGINT is sent to a process that is up, once, and only because it was asked for.
Interrupt == phase = "up" /\ asked /\ phase' = "interrupted" /\ UNCHANGED asked

\* A crash, a force stop, or the clean shutdown after SIGINT.
Die == phase \in {"up", "interrupted"} /\ phase' = "gone" /\ UNCHANGED asked

\* A signal that found no process withdraws the request.
Withdraw == phase = "gone" /\ asked' = FALSE /\ UNCHANGED phase

\* Only a process that is gone is reported as stopped.
Report == phase = "gone" /\ phase' = "stopped" /\ asked' = FALSE

Next == Begin \/ Abort \/ Serve \/ Ask \/ Interrupt \/ Die \/ Withdraw \/ Report

Spec == Init /\ [][Next]_vars
=============================================================================
