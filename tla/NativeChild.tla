----------------------------- MODULE NativeChild -----------------------------
(***************************************************************************)
(* Custody of native children: how the kernel learns, receipt by receipt,  *)
(* what became of the processes of one operating cycle, and how a          *)
(* cancellation propagates to the owners of those processes.               *)
(*                                                                         *)
(* Source: crates/society-kernel/src/store.rs and the CHECKs and triggers  *)
(* of schema/postgres/kernel.sql. As in OperatingCycle one action is one   *)
(* ledger command, and a rejected command changes nothing.                 *)
(*                                                                         *)
(* The receipts describe processes, so the processes are modelled too, as  *)
(* the environment: a process is forked for an admission, exits, may leave *)
(* descendants in its group, its identity may be taken by a foreign        *)
(* process, and the daemon that waits for it may be restarted. A receipt   *)
(* reports what its author could observe; nothing forces it to be recorded *)
(* soon, or at all.                                                        *)
(*                                                                         *)
(* An owner (an actor attempt, the Office session, a deterministic         *)
(* experiment) has at most one spawn admission (three UNIQUE columns), so  *)
(* one identity names the owner, its admission and its child. A request    *)
(* has at most one propagation, so one identity names both.                *)
(***************************************************************************)
EXTENDS Integers, FiniteSets

CONSTANTS
    Attempts,         \* actor attempts, each with the child it may own
    Sessions,         \* Office sessions, likewise
    Experiments,      \* deterministic experiments, likewise
    Requests,         \* cancellation requests
    Pids,             \* process identities, of a leader and of its group
    Boundary,         \* ProcessSignalCause::AutomaticBoundaryContainment
    NoPid,            \* no process identity yet
    PiStreams,        \* streams a Pi child must seal (4 in the code)
    EvaluatorStreams, \* streams an evaluator must seal (2 in the code)
    Livenesses,       \* what a probe of a process group may report
    WaitStatuses,     \* what wait(2) may report
    MaxGeneration     \* the greatest admission generation (i64::MAX)

Children == Attempts \cup Sessions \cup Experiments

ASSUME OwnersAssumption ==
    /\ Attempts \cap Sessions = {}
    /\ (Attempts \cup Sessions) \cap Experiments = {}
ASSUME CauseAssumption == Boundary \notin Requests
ASSUME PidAssumption == NoPid \notin Pids
ASSUME ObservationAssumption ==
    /\ Livenesses \subseteq {"Present", "Absent", "Inaccessible"}
    /\ WaitStatuses \subseteq {"Exited", "Term", "Kill", "Other", "Unknown"}
ASSUME BoundAssumption ==
    /\ PiStreams \in Nat
    /\ EvaluatorStreams \in Nat
    /\ MaxGeneration \in Nat

VARIABLES
    cycle,         \* the cycle's state and admission generation
    owner,         \* attempts, sessions and experiments: whether they are live
    request,       \* cancellation_requests
    propagation,   \* cancellation_propagations with their targets
    child,         \* admissions, native children and their receipts
    process,       \* the operating system's processes
    foreign        \* process identities some other program uses

vars == <<cycle, owner, request, propagation, child, process, foreign>>

-----------------------------------------------------------------------------
(* Rows.                                                                   *)

\* NativeChildSpawnAdmissionState, whose Invalidated is "Cancelled" when the
\* reason was CancelledBeforeSpawn, then ChildProcessState.
ChildStates == {"None", "Admitted", "Invalidated", "Cancelled", "Spawned",
                "Running", "CancellationRequested", "DirectChildReaped",
                "RecoveryContainmentRequired", "LostParentage",
                "ContainmentFailed", "Finalized"}

\* PiChildSessionState; an evaluator stays "None".
Protocols == {"None", "InertSpawned", "AdapterReady", "CreateAuthorized",
              "CreateDelivered", "SessionReady"}

\* CancellationPropagationTargetDisposition.
Dispositions == {"NotTarget", "NotRunning", "Awaiting", "Exited", "Terminated",
                 "Killed", "ContainmentFailed", "ParentageLost"}

Causes == Requests \cup {Boundary}

CycleRows == [state : {"Running", "Quiescing", "Drained", "Cancelling"},
              generation : Nat]

PropagationRows == [state : {"None", "Propagating", "Reconciled", "ContainmentFailed"},
                    generation : Nat,
                    target : [Children -> Dispositions]]

\* absent: some receipt observed the group absent. absentSinceReap: the reap
\* receipt's second probe or a later receipt did. lingering: that probe saw the
\* group present. tried: causes of recorded Terminate attempts. delivered:
\* signals some receipt says were delivered. aborted: propagations with an
\* Abort write attempt. sealed: how many streams have a seal.
ChildRows == [state : ChildStates, protocol : Protocols, generation : Nat,
              pid : Pids \cup {NoPid},
              absent : BOOLEAN, absentSinceReap : BOOLEAN, lingering : BOOLEAN,
              wait : {"None", "Exited", "Term", "Kill", "Other", "Unknown"},
              tried : SUBSET Causes, delivered : SUBSET {"Terminate", "Kill"},
              aborted : SUBSET Requests, sealed : Nat]

\* "alive": the direct child has not been waited for (a zombie leader keeps its
\* group present). "orphans": only descendants are left in the group. waited is
\* what the daemon's wait returned, until it forgets it in a restart.
ProcessRows == [state : {"none", "alive", "orphans", "gone"},
                pid : Pids \cup {NoPid},
                parented : BOOLEAN,
                waited : {"None", "Exited", "Term", "Kill", "Other", "Unknown"}]

\* Every table has rows of its type.
TypeOK ==
    /\ cycle \in CycleRows
    /\ owner \in [Children -> {"None", "Live", "Ended"}]
    /\ request \in [Requests -> {"None", "Accepted", "Propagating", "Completed"}]
    /\ propagation \in [Requests -> PropagationRows]
    /\ child \in [Children -> ChildRows]
    /\ process \in [Children -> ProcessRows]
    /\ foreign \in SUBSET Pids

NoChild == [state |-> "None", protocol |-> "None", generation |-> 0,
            pid |-> NoPid, absent |-> FALSE, absentSinceReap |-> FALSE,
            lingering |-> FALSE, wait |-> "None", tried |-> {},
            delivered |-> {}, aborted |-> {}, sealed |-> 0]
NoPropagation == [state |-> "None", generation |-> 0,
                  target |-> [k \in Children |-> "NotTarget"]]
NoProcess == [state |-> "none", pid |-> NoPid, parented |-> FALSE,
              waited |-> "None"]

\* A running cycle with its Office sessions; attempts and experiments come.
Init ==
    /\ cycle = [state |-> "Running", generation |-> 0]
    /\ owner = [k \in Children |-> IF k \in Sessions THEN "Live" ELSE "None"]
    /\ request = [q \in Requests |-> "None"]
    /\ propagation = [q \in Requests |-> NoPropagation]
    /\ child = [k \in Children |-> NoChild]
    /\ process = [k \in Children |-> NoProcess]
    /\ foreign = {}

-----------------------------------------------------------------------------
(* What the handlers look at.                                              *)

IsPi(k) == k \notin Experiments

\* A row of native_children exists.
IsSpawned(k) ==
    child[k].state \notin {"None", "Admitted", "Invalidated", "Cancelled"}

\* ChildProcessState::is_terminal.
IsTerminal(k) ==
    child[k].state \in {"Finalized", "LostParentage", "ContainmentFailed"}

ActiveRequests == {q \in Requests : request[q] \in {"Accepted", "Propagating"}}

\* live_native_child_count: everything spawned that is not Finalized.
LiveChildren == {k \in Children : IsSpawned(k) /\ child[k].state # "Finalized"}

\* undisposed_pi_workspace_count: every Pi admission, whatever became of it.
PiAdmissions == {k \in Children : IsPi(k) /\ child[k].state # "None"}

LiveAttempts == {k \in Attempts : owner[k] = "Live"}

\* The target of propagation q is child k, and it still owes a receipt.
Awaits(q, k) ==
    /\ propagation[q].state = "Propagating"
    /\ propagation[q].target[k] = "Awaiting"

\* liveness_is_reuse_conflict: absent once, and now something has its identity.
Reappeared(k, liveness) == liveness # "Absent" /\ child[k].absent

\* An observation after which the identity cannot be contained any more.
IsUncontainable(k, liveness) == liveness = "Inaccessible" \/ Reappeared(k, liveness)

RequiredStreams(k) == IF IsPi(k) THEN PiStreams ELSE EvaluatorStreams

-----------------------------------------------------------------------------
(* Processes: the environment.                                             *)

GroupExists(k) == process[k].state \in {"alive", "orphans"}

\* Some process answers to the identity recorded for child k.
IdentityInUse(k) ==
    \/ process[k].pid \in foreign
    \/ \E j \in Children : process[j].pid = process[k].pid /\ GroupExists(j)

\* What a receipt may say of the group: it was absent, which stays true of the
\* child's own group however late the receipt is recorded, or something there
\* answered.
Observes(k, liveness) ==
    IF liveness = "Absent" THEN ~GroupExists(k) ELSE IdentityInUse(k)

\* The supervisor forks the admitted child. The spawn is recorded later.
Fork(k, pid) ==
    /\ child[k].state = "Admitted"
    /\ process[k].state = "none"
    /\ pid \notin foreign
    /\ \A j \in Children : GroupExists(j) => process[j].pid # pid
    /\ process' = [process EXCEPT ![k] = [state |-> "alive", pid |-> pid,
                                          parented |-> TRUE, waited |-> "None"]]
    /\ UNCHANGED <<cycle, owner, request, propagation, child, foreign>>

\* The direct child ends and is waited for: by the daemon, which learns its
\* status, or by init once the daemon that forked it is gone.
DirectChildEnds(k, status, after) ==
    /\ process[k].state = "alive"
    /\ process' = [process EXCEPT ![k].state = after,
                                  ![k].waited = IF process[k].parented
                                                THEN status ELSE "None"]
    /\ UNCHANGED <<cycle, owner, request, propagation, child, foreign>>

DescendantsEnd(k) ==
    /\ process[k].state = "orphans"
    /\ process' = [process EXCEPT ![k].state = "gone"]
    /\ UNCHANGED <<cycle, owner, request, propagation, child, foreign>>

\* An identity nobody uses any more is given to an unrelated process.
ReusePid(pid) ==
    /\ pid \notin foreign
    /\ \E k \in Children : process[k].pid = pid
    /\ \A k \in Children : GroupExists(k) => process[k].pid # pid
    /\ foreign' = foreign \cup {pid}
    /\ UNCHANGED <<cycle, owner, request, propagation, child, process>>

\* The daemon dies and is started again: it is nobody's parent any more, and
\* what it had waited for but not recorded is lost.
RestartDaemon ==
    /\ \E k \in Children : process[k].parented
    /\ process' = [k \in Children |-> [process[k] EXCEPT !.parented = FALSE,
                                                         !.waited = "None"]]
    /\ UNCHANGED <<cycle, owner, request, propagation, child, foreign>>

-----------------------------------------------------------------------------
(* The cycle and the owners, as far as custody depends on them.            *)

\* StartActorAttempt and RegisterDeterministicExperiment.
OpenOwner(k) ==
    /\ cycle.state = "Running"
    /\ owner[k] = "None"
    /\ owner' = [owner EXCEPT ![k] = "Live"]
    /\ UNCHANGED <<cycle, request, propagation, child, process, foreign>>

\* attest_actor_attempt_terminal is refused once a child was admitted; the
\* settlement after recovery then ends the attempt of a child of lost parentage.
\* A session without a child ends by its terminal receipt, with one by its
\* Dispose, which needs a session that became ready.
EndPiOwner(k) ==
    /\ IsPi(k)
    /\ owner[k] = "Live"
    /\ \/ child[k].state = "None"
       \/ k \notin Sessions /\ child[k].state = "LostParentage"
       \/ k \in Sessions /\ child[k].protocol = "SessionReady"
    /\ owner' = [owner EXCEPT ![k] = "Ended"]
    /\ UNCHANGED <<cycle, request, propagation, child, process, foreign>>

\* The experiment is Cancelled rather than Failed.
WasCancelled(k) ==
    \/ child[k].state = "Cancelled"
    \/ \E q \in Requests : propagation[q].target[k] \in {"Terminated", "Killed"}

\* admit_deterministic_evidence, or finalize_deterministic_experiment without
\* evidence.
EndExperiment(k) ==
    /\ k \in Experiments
    /\ owner[k] = "Live"
    /\ child[k].state \in {"Finalized", "Invalidated", "Cancelled"}
    /\ \/ cycle.state = "Running" /\ child[k].state = "Finalized" /\ child[k].wait = "Exited"
       \/ cycle.state = "Running" /\ ~WasCancelled(k)
       \/ cycle.state = "Cancelling"
    /\ owner' = [owner EXCEPT ![k] = "Ended"]
    /\ UNCHANGED <<cycle, request, propagation, child, process, foreign>>

\* The cycle moves to a state of a new admission generation.
Advance(state) ==
    /\ cycle.generation < MaxGeneration
    /\ cycle' = [state |-> state, generation |-> cycle.generation + 1]

QuiesceOperatingCycle ==
    /\ cycle.state = "Running"
    /\ Advance("Quiescing")
    /\ UNCHANGED <<owner, request, propagation, child, process, foreign>>

RecordCycleDrained ==
    /\ cycle.state = "Quiescing"
    /\ LiveAttempts = {}
    /\ LiveChildren = {}
    /\ cycle' = [cycle EXCEPT !.state = IF ActiveRequests = {} THEN "Drained"
                                                               ELSE "Cancelling"]
    /\ UNCHANGED <<owner, request, propagation, child, process, foreign>>

ResumeOperatingCycle ==
    /\ cycle.state = "Drained"
    /\ ActiveRequests = {}
    /\ LiveAttempts = {}
    /\ LiveChildren = {}
    /\ PiAdmissions = {}
    /\ cycle' = [cycle EXCEPT !.state = "Running"]
    /\ UNCHANGED <<owner, request, propagation, child, process, foreign>>

RequestCancellation(q, state) ==
    /\ cycle.state \in {"Running", "Quiescing", "Drained"}
    /\ ActiveRequests = {}
    /\ request[q] = "None"
    /\ Advance(state)
    /\ request' = [request EXCEPT ![q] = "Accepted"]
    /\ UNCHANGED <<owner, propagation, child, process, foreign>>

\* freeze_budget_admission cancels from every state, and opens a request
\* unless one is active.
FreezeBudgetAdmission(q) ==
    /\ Advance("Cancelling")
    /\ \/ ActiveRequests # {} /\ UNCHANGED request
       \/ /\ ActiveRequests = {}
          /\ request[q] = "None"
          /\ request' = [request EXCEPT ![q] = "Accepted"]
    /\ UNCHANGED <<owner, propagation, child, process, foreign>>

\* reconcile_cancellation: no live session, and a reconciled propagation if the
\* cycle ever had a child.
ReconcileCancellation(q) ==
    /\ q \in ActiveRequests
    /\ cycle.state = "Cancelling"
    /\ \A k \in Sessions : owner[k] # "Live"
    /\ (\E k \in Children : IsSpawned(k)) => propagation[q].state = "Reconciled"
    /\ request' = [request EXCEPT ![q] = "Completed"]
    /\ cycle' = [cycle EXCEPT !.state = "Drained"]
    /\ UNCHANGED <<owner, propagation, child, process, foreign>>

-----------------------------------------------------------------------------
(* Propagation.                                                            *)

\* What a finalized child's wait status says of how it ended.
Ending(k) ==
    CASE child[k].wait = "Term" -> "Terminated"
      [] child[k].wait = "Kill" -> "Killed"
      [] OTHER -> "Exited"

\* The CASE expression shared by the snapshot and by its reconciliation.
SpawnedDisposition(k, otherwise) ==
    CASE child[k].state = "Finalized" -> Ending(k)
      [] child[k].state = "ContainmentFailed" -> "ContainmentFailed"
      [] child[k].state = "LostParentage" -> "ParentageLost"
      [] OTHER -> otherwise

\* A mutant: an admitted child that was not spawned yet is not running.
SnapshotSpawnedOnly(k) ==
    IF owner[k] # "Live" THEN "NotTarget"
    ELSE IF ~IsSpawned(k) THEN "NotRunning"
    ELSE SpawnedDisposition(k, "Awaiting")

\* A mutant: an owner whose admission was invalidated is still awaited.
SnapshotInvalidated(k) ==
    IF owner[k] # "Live" THEN "NotTarget"
    ELSE IF child[k].state = "None" THEN "NotRunning"
    ELSE SpawnedDisposition(k, "Awaiting")

\* An admitted child that was not spawned yet is awaited, not absent.
Snapshot(k) ==
    IF owner[k] # "Live" THEN "NotTarget"
    ELSE IF child[k].state \in {"None", "Invalidated", "Cancelled"} THEN "NotRunning"
    ELSE SpawnedDisposition(k, "Awaiting")

BeginCancellationPropagation(q) ==
    /\ q \in ActiveRequests
    /\ cycle.state = "Cancelling"
    /\ propagation[q].state = "None"
    /\ propagation' = [propagation EXCEPT ![q] =
                         [state |-> "Propagating",
                          generation |-> cycle.generation,
                          target |-> [k \in Children |-> Snapshot(k)]]]
    /\ request' = [request EXCEPT ![q] = "Propagating"]
    /\ UNCHANGED <<cycle, owner, child, process, foreign>>

\* The targets of q after the receipts of their children were looked up.
Refreshed(q) ==
    [k \in Children |->
       IF propagation[q].target[k] = "NotTarget" \/ ~IsSpawned(k)
       THEN propagation[q].target[k]
       ELSE SpawnedDisposition(k, propagation[q].target[k])]

\* A mutant: the propagation is given the final state of its request.
ReconcileAsCompleted(q) ==
    /\ propagation[q].state = "Propagating"
    /\ \A k \in Children : Refreshed(q)[k] # "Awaiting"
    /\ propagation' = [propagation EXCEPT ![q].target = Refreshed(q),
                                          ![q].state = "Completed"]
    /\ UNCHANGED <<cycle, owner, request, child, process, foreign>>

\* A containment failure of one target ends the propagation as failed; without
\* one, every target must have been accounted for.
ReconcileCancellationPropagation(q) ==
    LET target == Refreshed(q)
        failed == \E k \in Children : target[k] = "ContainmentFailed" IN
    /\ propagation[q].state = "Propagating"
    /\ \/ /\ failed
          /\ propagation' = [propagation EXCEPT ![q].target = target,
                                                ![q].state = "ContainmentFailed"]
       \/ /\ ~failed
          /\ \A k \in Children : target[k] # "Awaiting"
          /\ propagation' = [propagation EXCEPT ![q].target = target,
                                                ![q].state = "Reconciled"]
    /\ UNCHANGED <<cycle, owner, request, child, process, foreign>>

-----------------------------------------------------------------------------
(* From the admission to a working session.                                *)

\* admit_pi_child_spawn and admit_deterministic_evaluator_native_child.
AdmitChildSpawn(k) ==
    /\ cycle.state = "Running"
    /\ owner[k] = "Live"
    /\ child[k].state = "None"
    /\ child' = [child EXCEPT ![k].state = "Admitted",
                              ![k].generation = cycle.generation]
    /\ UNCHANGED <<cycle, owner, request, propagation, process, foreign>>

\* record_inert_child_spawn and record_deterministic_evaluator_native_child_spawn:
\* accepted in every state and generation of the cycle. The identity must not be
\* one of a child that is not Finalized. Every open propagation that names the
\* owner now awaits the child.
RecordChildSpawn(k) ==
    /\ child[k].state = "Admitted"
    /\ k \in Experiments => owner[k] = "Live"
    /\ process[k].state # "none"
    /\ \A j \in LiveChildren : child[j].pid # process[k].pid
    /\ child' = [child EXCEPT ![k] =
                   [@ EXCEPT !.state = "Spawned",
                             !.pid = process[k].pid,
                             !.protocol = IF IsPi(k) THEN "InertSpawned" ELSE "None"]]
    /\ propagation' = [q \in Requests |->
                         IF /\ propagation[q].state = "Propagating"
                            /\ propagation[q].target[k] # "NotTarget"
                         THEN [propagation[q] EXCEPT !.target[k] = "Awaiting"]
                         ELSE propagation[q]]
    /\ UNCHANGED <<cycle, owner, request, process, foreign>>

\* The open propagations that still await the unspawned child k.
OutstandingTargets(k) == {q \in Requests : Awaits(q, k)}

\* The kernel's side of record_native_child_not_spawned: at most one propagation
\* may be waiting for the child, exactly one if it was cancelled before its
\* spawn.
InvalidateAdmission(k, verdict) ==
    /\ child[k].state = "Admitted"
    /\ Cardinality(OutstandingTargets(k)) <= 1
    /\ verdict = "Cancelled" => OutstandingTargets(k) # {}
    /\ child' = [child EXCEPT ![k].state = verdict]
    /\ propagation' = [q \in Requests |->
                         IF q \in OutstandingTargets(k)
                         THEN [propagation[q] EXCEPT !.target[k] = "NotRunning"]
                         ELSE propagation[q]]
    /\ UNCHANGED <<cycle, owner, request, process, foreign>>

\* The daemon reports only a fork it knows it did not make
\* (proven_not_spawned_reason): the receipt asserts physical absence.
RecordNativeChildNotSpawned(k, verdict) ==
    /\ process[k].state = "none"
    /\ InvalidateAdmission(k, verdict)

\* The three receipts of the Pi handshake that follow CreateSession stay
\* recordable while a signalled child is ending.
MayHandshake(k) == child[k].state \in {"Spawned", "CancellationRequested"}

SetProtocol(k, protocol) ==
    /\ child' = [child EXCEPT ![k].protocol = protocol]
    /\ UNCHANGED <<cycle, owner, request, propagation, process, foreign>>

RecordPiAdapterReady(k) ==
    /\ MayHandshake(k)
    /\ child[k].protocol = "InertSpawned"
    /\ SetProtocol(k, "AdapterReady")

\* A mutant: a signalled child is given work.
AuthorizeWhileEnding(k) ==
    /\ MayHandshake(k)
    /\ child[k].protocol = "AdapterReady"
    /\ cycle.state = "Running"
    /\ child' = [child EXCEPT ![k].protocol = "CreateAuthorized", ![k].state = "Spawned"]
    /\ UNCHANGED <<cycle, owner, request, propagation, process, foreign>>

\* The first authority to work, and the strict fence of the admission.
AuthorizePiCreateSession(k) ==
    /\ child[k].state = "Spawned"
    /\ child[k].protocol = "AdapterReady"
    /\ cycle.state = "Running"
    /\ child[k].generation = cycle.generation
    /\ ActiveRequests = {}
    /\ owner[k] = "Live"
    /\ SetProtocol(k, "CreateAuthorized")

RecordPiCreateSessionDelivery(k) ==
    /\ MayHandshake(k)
    /\ child[k].protocol = "CreateAuthorized"
    /\ SetProtocol(k, "CreateDelivered")

RecordPiSessionReady(k) ==
    /\ MayHandshake(k)
    /\ child[k].protocol = "CreateDelivered"
    /\ child' = [child EXCEPT ![k].protocol = "SessionReady",
                              ![k].state = IF @ = "Spawned" THEN "Running" ELSE @]
    /\ UNCHANGED <<cycle, owner, request, propagation, process, foreign>>

-----------------------------------------------------------------------------
(* Containment and the end of a child.                                     *)

\* The rest of a receipt's transaction leaves every other table alone.
SetChild(k, row) ==
    /\ child' = [child EXCEPT ![k] = row]
    /\ UNCHANGED <<cycle, owner, request, propagation, process, foreign>>

\* The row of child k with one more observation of its group.
Probed(k, liveness) ==
    [child[k] EXCEPT !.absent = @ \/ liveness = "Absent",
                     !.absentSinceReap =
                         @ \/ (liveness = "Absent" /\ child[k].wait # "None")]

\* record_pi_abort_control_delivery: one per child and propagation, whatever
\* the outcome of the write.
RecordPiAbortControlDelivery(k, q) ==
    /\ child[k].state \in {"Running", "CancellationRequested"}
    /\ child[k].protocol = "SessionReady"
    /\ Awaits(q, k)
    /\ q \notin child[k].aborted
    /\ SetChild(k, [child[k] EXCEPT !.aborted = @ \cup {q}])

\* record_child_stream_seal: an overflowed count is a containment failure. The
\* streams of an evaluator are sealed after its reap.
RecordChildStreamSeal(k, overflow) ==
    /\ IsSpawned(k)
    /\ child[k].state \notin {"Finalized", "RecoveryContainmentRequired", "LostParentage"}
    /\ ~IsPi(k) => child[k].state = "DirectChildReaped"
    /\ child[k].sealed < RequiredStreams(k)
    /\ SetChild(k, [child[k] EXCEPT !.sealed = @ + 1,
                                    !.state = IF overflow THEN "ContainmentFailed" ELSE @])

\* record_child_process_liveness.
RecordChildProcessLiveness(k, liveness) ==
    /\ IsSpawned(k) /\ ~IsTerminal(k)
    /\ Observes(k, liveness)
    /\ ~(child[k].state = "RecoveryContainmentRequired" /\ liveness = "Present")
    /\ SetChild(k, [Probed(k, liveness) EXCEPT !.state =
           IF IsUncontainable(k, liveness) THEN "ContainmentFailed"
           ELSE IF @ = "RecoveryContainmentRequired" THEN "LostParentage"
           ELSE @])

\* Whether the handler lets action be recorded for cause. A propagation must
\* await the child; TERM to a ready session follows its Abort attempt, KILL the
\* TERM of the same cause; lingering descendants are killed after a reap whose
\* second probe saw them.
SignalIsDue(k, action, cause) ==
    /\ cause # Boundary => Awaits(cause, k)
    /\ \/ /\ action = "Terminate"
          /\ \/ cause = Boundary
             \/ child[k].protocol # "SessionReady"
             \/ cause \in child[k].aborted
       \/ action = "Kill" /\ cause \in child[k].tried
       \/ /\ action = "LingeringGroupKill"
          /\ child[k].state = "DirectChildReaped" /\ child[k].lingering

\* The CHECK of native_children: the trigger of process_signal_receipts has
\* already marked a reappeared child ContainmentFailed with its disposition,
\* and CancellationRequested admits none.
StorageAccepts(k, delivery, liveness) ==
    ~ /\ delivery = "Delivered"
      /\ child[k].state \in {"Spawned", "Running"}
      /\ Reappeared(k, liveness)

\* What a receipt may say of the delivery: AbsentBeforeSignal and
\* AbsentDuringSignal, which behave alike, are "Absent".
Deliveries(k, liveness) ==
    {"Delivered"} \cup (IF liveness = "Absent" THEN {"Absent"} ELSE {})
                  \cup (IF liveness = "Inaccessible" THEN {"Inaccessible"} ELSE {})

\* The row of child k once a signal receipt is in it.
Signalled(k, action, delivery, cause, liveness) ==
    [Probed(k, liveness) EXCEPT
       !.tried = IF action = "Terminate" THEN @ \cup {cause} ELSE @,
       !.delivered =
           IF delivery # "Delivered" THEN @
           ELSE @ \cup {IF action = "Terminate" THEN "Terminate" ELSE "Kill"}]

\* record_process_signal_receipt.
RecordProcessSignalReceipt(k, action, delivery, cause, liveness) ==
    /\ IsSpawned(k) /\ ~IsTerminal(k)
    /\ Observes(k, liveness)
    /\ delivery \in Deliveries(k, liveness)
    /\ SignalIsDue(k, action, cause)
    /\ StorageAccepts(k, delivery, liveness)
    /\ SetChild(k, [Signalled(k, action, delivery, cause, liveness) EXCEPT !.state =
           IF IsUncontainable(k, liveness) THEN "ContainmentFailed"
           ELSE IF @ = "RecoveryContainmentRequired" /\ liveness = "Absent" THEN "LostParentage"
           ELSE IF @ \in {"Spawned", "Running"} /\ delivery = "Delivered" THEN "CancellationRequested"
           ELSE @])

\* record_direct_child_reap, by the daemon that waited for the child. before is
\* an older probe of the group than after.
RecordDirectChildReap(k, before, after) ==
    /\ IsSpawned(k)
    /\ child[k].state \notin {"Finalized", "RecoveryContainmentRequired",
                              "LostParentage", "DirectChildReaped"}
    /\ child[k].wait = "None"
    /\ process[k].waited # "None"
    /\ before = "Absent" => ~GroupExists(k)
    /\ Observes(k, after)
    /\ SetChild(k, [child[k] EXCEPT
           !.wait = process[k].waited,
           !.absent = @ \/ "Absent" \in {before, after},
           !.absentSinceReap = after = "Absent",
           !.lingering = after = "Present",
           !.state =
               IF \/ @ = "ContainmentFailed"
                  \/ Reappeared(k, before) \/ IsUncontainable(k, after)
               THEN "ContainmentFailed" ELSE "DirectChildReaped"])

\* record_child_recovery, by a daemon that is no longer the child's parent. Its
\* observation is not among the ones liveness_is_reuse_conflict looks at.
RecordChildRecovery(k, liveness) ==
    /\ IsSpawned(k)
    /\ child[k].state \notin {"Finalized", "DirectChildReaped",
                              "RecoveryContainmentRequired", "LostParentage",
                              "ContainmentFailed"}
    /\ ~process[k].parented
    /\ Observes(k, liveness)
    /\ SetChild(k, [child[k] EXCEPT !.state =
           IF liveness = "Absent" THEN "LostParentage"
           ELSE IF IsUncontainable(k, liveness) THEN "ContainmentFailed"
           ELSE "RecoveryContainmentRequired"])

\* signal_terminal_disposition: a death by signal must be one the supervisor
\* delivered; an unknown status is never an ending.
IsExplained(k) ==
    \/ child[k].wait = "Exited"
    \/ child[k].wait = "Term" /\ "Terminate" \in child[k].delivered
    \/ child[k].wait = "Kill" /\ "Kill" \in child[k].delivered

\* A mutant: the reap of the direct child is enough, whatever it left behind.
FinalizeOnReapAlone(k) ==
    /\ child[k].state = "DirectChildReaped"
    /\ child[k].sealed = RequiredStreams(k)
    /\ IsExplained(k)
    /\ SetChild(k, [child[k] EXCEPT !.state = "Finalized"])

\* finalize_child_process.
FinalizeChildProcess(k) ==
    /\ child[k].state = "DirectChildReaped"
    /\ child[k].absentSinceReap
    /\ child[k].sealed = RequiredStreams(k)
    /\ IsExplained(k)
    /\ SetChild(k, [child[k] EXCEPT !.state = "Finalized"])

-----------------------------------------------------------------------------
(* The specification.                                                      *)

NextEnvironment ==
    \/ RestartDaemon
    \/ \E pid \in Pids : ReusePid(pid)
    \/ \E k \in Children :
          \/ \E pid \in Pids : Fork(k, pid)
          \/ \E status \in WaitStatuses, after \in {"orphans", "gone"} :
                DirectChildEnds(k, status, after)
          \/ DescendantsEnd(k)

NextCycle ==
    \/ QuiesceOperatingCycle
    \/ RecordCycleDrained
    \/ ResumeOperatingCycle
    \/ \E k \in Children : OpenOwner(k) \/ EndPiOwner(k) \/ EndExperiment(k)

NextCancellation(q) ==
    \/ \E state \in {"Quiescing", "Cancelling"} : RequestCancellation(q, state)
    \/ FreezeBudgetAdmission(q)
    \/ BeginCancellationPropagation(q)
    \/ ReconcileCancellationPropagation(q)
    \/ ReconcileCancellation(q)

NextSpawn(k) ==
    \/ AdmitChildSpawn(k)
    \/ RecordChildSpawn(k)
    \/ \E verdict \in {"Invalidated", "Cancelled"} : RecordNativeChildNotSpawned(k, verdict)
    \/ RecordPiAdapterReady(k)
    \/ AuthorizePiCreateSession(k)
    \/ RecordPiCreateSessionDelivery(k)
    \/ RecordPiSessionReady(k)

NextContainment(k) ==
    \/ \E q \in Requests : RecordPiAbortControlDelivery(k, q)
    \/ \E overflow \in BOOLEAN : RecordChildStreamSeal(k, overflow)
    \/ \E liveness \in Livenesses :
          \/ RecordChildProcessLiveness(k, liveness)
          \/ RecordChildRecovery(k, liveness)
          \/ \E action \in {"Terminate", "Kill", "LingeringGroupKill"},
                delivery \in {"Delivered", "Absent", "Inaccessible"}, cause \in Causes :
                RecordProcessSignalReceipt(k, action, delivery, cause, liveness)
          \/ \E before \in Livenesses : RecordDirectChildReap(k, before, liveness)
    \/ FinalizeChildProcess(k)

Next ==
    \/ NextEnvironment
    \/ NextCycle
    \/ \E q \in Requests : NextCancellation(q)
    \/ \E k \in Children : NextSpawn(k) \/ NextContainment(k)

Spec == Init /\ [][Next]_vars

-----------------------------------------------------------------------------
(* Properties.                                                             *)

\* A child whose custody ended as Finalized or as LostParentage has left
\* nothing running: finalize_child_process trusts only an absence observed since
\* the reap, record_child_recovery and the probes of an unparented child only an
\* absence of the whole group. No restart, late receipt or reused process
\* identity makes the ledger end the custody of a group that is still there.
EndedIsGone ==
    \A k \in Children :
        child[k].state \in {"Finalized", "LostParentage"} => process[k].state = "gone"

\* A reconciled propagation accounts for the processes of the owners it named:
\* none that was admitted before the cancellation is still there, also if it
\* was forked or recorded only after the snapshot was taken.
ReconciledIsContained ==
    \A q \in Requests, k \in Children :
        /\ propagation[q].state = "Reconciled"
        /\ propagation[q].target[k] # "NotTarget"
        /\ child[k].state # "None"
        /\ child[k].generation < propagation[q].generation
        => ~GroupExists(k)

\* An open propagation waits only for a child that can still give the receipt:
\* one that is admitted or was spawned. It never waits for an owner that was
\* not admitted or whose admission was invalidated, before or after the
\* snapshot (record_native_child_not_spawned resolves its target).
AwaitedCanAnswer ==
    \A q \in Requests, k \in Children :
        Awaits(q, k) => child[k].state = "Admitted" \/ IsSpawned(k)

\* The coarse life of a child, as OperatingCycle sees it.
Life(k) ==
    CASE child[k].state = "Cancelled" -> "Invalidated"
      [] child[k].state = "Spawned"
         /\ child[k].protocol \in {"CreateAuthorized", "CreateDelivered"} -> "Created"
      [] child[k].state \in {"CancellationRequested", "DirectChildReaped",
                             "RecoveryContainmentRequired"} -> "Ending"
      [] OTHER -> child[k].state

Lives == [k \in Children |-> Life(k)]

Custody == INSTANCE ChildCustody WITH life <- Lives

\* The receipts implement the custody lifecycle: every command moves at most
\* one child, along the lifecycle; a child that is being ended is never
\* authorised to work, and no receipt that comes late (a seal overflow, a probe,
\* a reap, a recovery) takes a child out of a terminal state.
CustodyLifecycle == Custody!Spec

-----------------------------------------------------------------------------
(* What the comments of the code say and the code does not do.             *)

\* store.rs:13000: an identity seen absent and then present "is a durable
\* reuse/containment fact, not an invalid caller request that may simply
\* disappear from the ledger". The receipt of a signal delivered to such an
\* identity would be that fact.
ReuseIsRecordable ==
    \A k \in Children :
        /\ child[k].state \in {"Spawned", "Running"}
        /\ child[k].absent
        /\ IdentityInUse(k)
        => StorageAccepts(k, "Delivered", "Present")

\* store.rs:12408: of the outstanding targets of an admission that was not
\* spawned, "more than one is an invariant breach".
AtMostOneOutstandingTarget ==
    \A k \in Children :
        child[k].state = "Admitted" => Cardinality(OutstandingTargets(k)) <= 1

\* store.rs:12811: a signal of a propagation is legal only if the snapshot names
\* the child, which "prevents a later supervisor action from being retroactively
\* attributed to cancellation". The child a propagation may signal was admitted
\* before that propagation's cancellation.
SignalledChildWasCancelled ==
    \A q \in Requests, k \in Children :
        Awaits(q, k) /\ IsSpawned(k) => child[k].generation < propagation[q].generation

=============================================================================
