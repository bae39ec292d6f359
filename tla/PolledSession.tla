---------------------------- MODULE PolledSession ----------------------------
(***************************************************************************)
(* The containment of a task attempt under the one caller that drives it,  *)
(* the harness's contain (native_task_driver.rs): it polls                 *)
(* drive_containment every 10 ms and stops at its terminal time-out, 300 s *)
(* after the attempt started, whatever has been signalled by then.         *)
(*                                                                         *)
(* TERM is due 1 s after a cancellation was armed, and KILL 2 s later.     *)
(* What the time-out leaves of them is the number of these deadlines that  *)
(* still come before it.  All other calls of the runner are TaskSession's. *)
(***************************************************************************)
EXTENDS TaskSession

VARIABLE left   \* deadlines of the cancellation still to come before the time-out

polled == <<vars, left>>

Deadlines == 2    \* abort_deadline and kill_deadline

IsArmed == pipe.cancel # "None"

\* The signals a cancellation has sent.
Sent(p) == CASE p.cancel = "Killed" -> 2 [] p.cancel = "Termed" -> 1 [] OTHER -> 0

\* A cancellation is armed at any distance from the time-out.
Arms == ~IsArmed /\ IsArmed' /\ left' \in 0..Deadlines

\* Each signal is sent after its deadline, and none after the time-out.
OnTime ==
    /\ IsArmed \/ ~IsArmed'
    /\ Sent(pipe') <= Sent(pipe) + left
    /\ left' = left - (Sent(pipe') - Sent(pipe))

\* An attempt whose process is gone waits for no deadline.
Clock ==
    \/ host' = "Running" /\ (Arms \/ OnTime)
    \/ host' # "Running" /\ left' = 0

\* contain's poll after a deadline.
Poll ==
    /\ \E a \in Answers : DriveContainment(a) \/ DriveUnregistered(a)
    /\ host = "Running" /\ Sent(pipe') > Sent(pipe)
    /\ Clock

KillWorks == pipe.cancel = "Killed" /\ ~pipe.lost /\ HostStops /\ Clock

PolledInit == Init /\ left = 0

PolledNext == Next /\ Clock

\* contain polls until its time-out; a process that was sent KILL dies.
Fairness == WF_polled(Poll) /\ WF_polled(KillWorks)

PolledSpec == PolledInit /\ [][PolledNext]_polled /\ Fairness

\* A cancellation that was armed early enough for both of its deadlines to come
\* before the harness's time-out ends the process, unless the group could not
\* be signalled: TERM and KILL are sent once each, by the poll after their
\* deadline (advance_cancellation_without_reap, contain).
ContainmentEnds == IsArmed /\ left = Deadlines ~> host = "Dead" \/ pipe.lost

=============================================================================
