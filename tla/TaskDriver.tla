------------------------------ MODULE TaskDriver ------------------------------
(***************************************************************************)
(* The harness of a study that drives one task attempt: the order in which *)
(* it calls the runner (native_task_driver.rs), its polling loops and      *)
(* their time-outs, with the prompt sealed before the attempt is spawned   *)
(* (resident_pilot_backend.rs).                                            *)
(*                                                                         *)
(* All time-outs count from the start of the attempt.  The clock has three *)
(* values: before the handshake and control time-out (30 s), between it    *)
(* and the terminal time-out (300 s), and after that.  The deadline that a *)
(* poll passes down is computed from the poll's own time and never expires.*)
(***************************************************************************)
EXTENDS TaskSession

VARIABLES
    step,   \* the call the harness is about to make
    clock

driver == <<vars, step, clock>>

Expired == 1    \* handshake_timeout and control_timeout
Over == 2       \* terminal_timeout

\* An error, or a usage that froze, goes to contain.
Goes(a, ok, waiting) ==
    /\ UNCHANGED clock
    /\ step' = CASE a \in {"Error", "Frozen"} -> "contain"
                 [] a = "Waiting" -> waiting
                 [] a = "Forum" -> "forum"
                 [] OTHER -> ok

GivesUp == step' = "contain" /\ UNCHANGED <<vars, clock>>

\* SealedStudyContent is made before execute is called.
Seal == step = "seal" /\ SealPrompt /\ step' = "spawn" /\ UNCHANGED clock

Launch ==
    \E a \in Answers :
        \/ step = "spawn" /\ Spawn(a) /\ Goes(a, "bind", "bind")
        \/ step = "bind" /\ BindRuntime(a) /\ Goes(a, "adapter", "adapter")

AwaitAdapterReady ==
    /\ step = "adapter"
    /\ \/ clock >= Expired /\ GivesUp
       \/ clock < Expired /\ \E a \in Answers :
            ObserveAdapterReady(a) /\ Goes(a, "create", "adapter")

DeliverCreate ==
    \/ step = "create" /\ \E a \in Answers :
         BeginCreate(a) /\ Goes(a, "session", "createWrite")
    \/ step = "createWrite" /\ clock >= Expired /\ GivesUp
    \/ step = "createWrite" /\ clock < Expired /\ \E a \in Answers :
         DriveCreate(a) /\ Goes(a, "session", "createWrite")

AwaitSessionReady ==
    /\ step = "session"
    /\ \/ clock >= Expired /\ GivesUp
       \/ clock < Expired /\ \E a \in Answers :
            ObserveSessionReady(a) /\ Goes(a, "prompt", "session")

DeliverPrompt ==
    \/ step = "prompt" /\ \E a \in Answers : BeginPrompt(a) /\ Goes(a, "turn", "promptWrite")
    \/ step = "promptWrite" /\ clock >= Expired /\ GivesUp
    \/ step = "promptWrite" /\ clock < Expired /\ \E a \in Answers :
         DrivePrompt(a) /\ Goes(a, "turn", "promptWrite")

\* A frame that contained the child in passing makes the next poll an error.
AwaitPromptTerminal ==
    /\ step = "turn"
    /\ \/ clock >= Over /\ GivesUp
       \/ child # "TaskPromptActive" /\ GivesUp
       \/ clock < Over /\ \E a \in Answers :
            ObservePrompt(a) /\ Goes(a, IF a = "Terminal" THEN "dispose" ELSE "turn", "turn")

DeliverForumResult ==
    \/ step = "forum" /\ \E a \in Answers :
         RouteForumToolCall(a) /\ Goes(a, "turn", "forumWrite")
    \/ step = "forumWrite" /\ clock >= Over /\ GivesUp
    \/ step = "forumWrite" /\ clock < Over /\ \E a \in Answers :
         DriveForumToolResult(a) /\ Goes(a, "turn", "forumWrite")

\* A dispose that is refused, by the child's phase or by the kernel, writes
\* nothing.  Once Disposed is recorded, reconcile is called once: if the host or
\* its group has not gone by then, the loop polls the dispose again, which is an
\* error.
DisposeAndReconcile ==
    \/ step = "dispose" /\ GivesUp
    \/ step = "dispose" /\ \E a \in Answers : BeginDispose(a) /\ Goes(a, "close", "disposeWrite")
    \/ step = "disposeWrite" /\ clock >= Expired /\ GivesUp
    \/ step = "disposeWrite" /\ clock < Expired /\ \E a \in Answers :
         DriveDispose(a) /\ Goes(a, "close", "disposeWrite")
    \/ step = "close" /\ clock >= Over /\ GivesUp
    \/ step = "close" /\ clock < Over /\ \E a \in Answers :
         ObserveDispose(a) /\ Goes(a, IF a = "Disposed" THEN "reconcile" ELSE "close", "close")
    \/ /\ step = "reconcile"
       /\ host = "Running" \/ child = "AwaitingLingeringGroupAbsence"
       /\ GivesUp
    \/ step = "reconcile" /\ child # "AwaitingLingeringGroupAbsence" /\ \E a \in Answers :
         /\ ReapDirectChild(a) \/ CleanLingering(a) \/ ProveAbsence(a)
         /\ Goes(a, "complete", "reconcile")

\* An obligation whose completion is refused is contained like any failure.
Complete ==
    /\ step = "complete"
    /\ \/ GivesUp
       \/ \E a \in Answers : CompleteActorObligation(a) /\ Goes(a, "completed", "complete")

\* contain: drive_containment until it is done or the terminal time-out is over.
ContainTask ==
    /\ step = "contain"
    /\ \/ /\ clock < Over /\ UNCHANGED clock
          /\ \E a \in Answers :
               /\ DriveContainment(a) \/ DriveUnregistered(a)
               /\ step' = IF a = "Done" THEN "returned" ELSE "contain"
       \/ clock >= Over /\ step' = "returned" /\ UNCHANGED <<vars, clock>>

Environment == (HostStops \/ GroupDies) /\ UNCHANGED <<step, clock>>

\* Time passes where the harness polls, every 10 ms: contain has called the
\* runner, and changed the schedule if it may be changed, before its time is over.
Passes ==
    /\ clock < Over /\ clock' = clock + 1
    /\ step \in {"adapter", "createWrite", "session", "promptWrite", "turn",
                 "forumWrite", "disposeWrite", "close", "contain"}
    /\ step = "contain" => schedule \in {"None", "ContainmentRequired",
                                        "PhysicalReconciled", "Reconciled"}
    /\ UNCHANGED <<vars, step>>

DriverInit == Init /\ step = "seal" /\ clock = 0

DriverNext ==
    \/ Seal \/ Launch \/ AwaitAdapterReady \/ DeliverCreate \/ AwaitSessionReady
    \/ DeliverPrompt \/ AwaitPromptTerminal \/ DeliverForumResult
    \/ DisposeAndReconcile \/ Complete \/ ContainTask
    \/ Environment \/ Passes

DriverSpec == DriverInit /\ [][DriverNext]_driver

\* The prompt that was sealed is still the ledger's last event when it is
\* offered: only then does the kernel authorize it.
SealedPromptIsAdmissible == step = "prompt" => frontier = "Current"

\* An attempt that failed is over when execute returns: its host has exited, or
\* its containment has begun.
FailsClosed == step = "returned" => host # "Running" \/ pipe.cancel # "None"

=============================================================================
