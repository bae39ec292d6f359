------------------------- MODULE NativeChildProofs -------------------------
(***************************************************************************)
(* Proofs about the custody of a single child (types, the absence that an  *)
(* ended custody asserts, the lifecycle the receipts implement) and about  *)
(* the propagation of a cancellation: it waits only for children that can  *)
(* answer, and once reconciled it has accounted for every process that was *)
(* admitted before it.                                                     *)
(***************************************************************************)
EXTENDS NativeChild, TLAPS

-----------------------------------------------------------------------------
(* Types.                                                                  *)

\* The tables start well typed: no admission, no process, no request.
LEMMA InitTypeOK == Init => TypeOK
BY DEF Init, TypeOK, NoChild, NoPropagation, NoProcess, CycleRows,
       PropagationRows, ChildRows, ProcessRows, ChildStates, Protocols,
       Dispositions

\* The environment writes only well typed processes.
LEMMA EnvironmentTypeOK ==
  ASSUME TypeOK, NextEnvironment
  PROVE  TypeOK'
<1>1. CASE RestartDaemon
  BY <1>1, ZenonT(40) DEF RestartDaemon, TypeOK, ProcessRows
<1>2. ASSUME NEW pid \in Pids, ReusePid(pid) PROVE TypeOK'
  BY <1>2 DEF ReusePid, TypeOK
<1>3. ASSUME NEW k \in Children, NEW pid \in Pids, Fork(k, pid) PROVE TypeOK'
  BY <1>3 DEF Fork, TypeOK, ProcessRows
<1>4. ASSUME NEW k \in Children, NEW status \in WaitStatuses,
             NEW after \in {"orphans", "gone"}, DirectChildEnds(k, status, after)
      PROVE  TypeOK'
  <2> DEFINE waited == IF process[k].parented THEN status ELSE "None"
  <2>1. waited \in {"None", "Exited", "Term", "Kill", "Other", "Unknown"}
    BY ObservationAssumption
  <2>2. process' = [process EXCEPT ![k].state = after, ![k].waited = waited]
    BY <1>4 DEF DirectChildEnds
  <2> HIDE DEF waited
  <2>3. process' \in [Children -> ProcessRows]
    BY <2>1, <2>2, ZenonT(40) DEF TypeOK, ProcessRows
  <2> QED BY <1>4, <2>3 DEF DirectChildEnds, TypeOK
<1>5. ASSUME NEW k \in Children, DescendantsEnd(k) PROVE TypeOK'
  BY <1>5 DEF DescendantsEnd, TypeOK, ProcessRows
<1> QED BY <1>1, <1>2, <1>3, <1>4, <1>5 DEF NextEnvironment

\* The cycle, its owners and its requests keep their types.
LEMMA CycleTypeOK ==
  ASSUME TypeOK, NextCycle
  PROVE  TypeOK'
<1>1. CASE QuiesceOperatingCycle
  BY <1>1 DEF QuiesceOperatingCycle, Advance, TypeOK, CycleRows
<1>2. CASE RecordCycleDrained
  BY <1>2 DEF RecordCycleDrained, TypeOK, CycleRows
<1>3. CASE ResumeOperatingCycle
  BY <1>3 DEF ResumeOperatingCycle, TypeOK, CycleRows
<1>4. ASSUME NEW k \in Children, OpenOwner(k) \/ EndPiOwner(k) \/ EndExperiment(k)
      PROVE  TypeOK'
  BY <1>4 DEF OpenOwner, EndPiOwner, EndExperiment, TypeOK
<1> QED BY <1>1, <1>2, <1>3, <1>4 DEF NextCycle

\* A disposition computed from a spawned child is a disposition.
LEMMA DispositionType ==
  ASSUME NEW k, NEW otherwise \in Dispositions
  PROVE  SpawnedDisposition(k, otherwise) \in Dispositions
BY DEF SpawnedDisposition, Ending, Dispositions

\* A cancellation writes requests and propagations of their types.
LEMMA CancellationTypeOK ==
  ASSUME TypeOK, NEW q \in Requests, NextCancellation(q)
  PROVE  TypeOK'
<1>1. ASSUME NEW state \in {"Quiescing", "Cancelling"}, RequestCancellation(q, state)
      PROVE  TypeOK'
  BY <1>1 DEF RequestCancellation, Advance, TypeOK, CycleRows
<1>2. CASE FreezeBudgetAdmission(q)
  BY <1>2 DEF FreezeBudgetAdmission, Advance, TypeOK, CycleRows
<1>3. CASE BeginCancellationPropagation(q)
  <2>1. \A k \in Children : Snapshot(k) \in Dispositions
    BY DispositionType DEF Snapshot, Dispositions
  <2> QED BY <1>3, <2>1 DEF BeginCancellationPropagation, TypeOK, PropagationRows,
                            CycleRows
<1>4. CASE ReconcileCancellationPropagation(q)
  <2>1. Refreshed(q) \in [Children -> Dispositions]
    BY DispositionType DEF Refreshed, TypeOK, PropagationRows
  <2> QED BY <1>4, <2>1 DEF ReconcileCancellationPropagation, TypeOK, PropagationRows
<1>5. CASE ReconcileCancellation(q)
  BY <1>5 DEF ReconcileCancellation, TypeOK, CycleRows
<1> QED BY <1>1, <1>2, <1>3, <1>4, <1>5 DEF NextCancellation

\* One row written with the type of its table keeps the table's type.
LEMMA RowTyped ==
  ASSUME TypeOK, NEW k \in Children, NEW row \in ChildRows,
         child' = [child EXCEPT ![k] = row]
  PROVE  child' \in [Children -> ChildRows]
BY DEF TypeOK

\* The columns of a child's row are written one by one with their types.
LEMMA StateTyped ==
  ASSUME NEW row \in ChildRows, NEW state \in ChildStates
  PROVE  [row EXCEPT !.state = state] \in ChildRows
BY DEF ChildRows

\* Likewise for the column the Pi handshake writes.
LEMMA ProtocolTyped ==
  ASSUME NEW row \in ChildRows, NEW protocol \in Protocols
  PROVE  [row EXCEPT !.protocol = protocol] \in ChildRows
BY DEF ChildRows

\* Rewriting one target of some propagations keeps their types.
LEMMA TargetsTyped ==
  ASSUME TypeOK, NEW k \in Children, NEW some \in SUBSET Requests,
         NEW disposition \in Dispositions,
         propagation' = [q \in Requests |->
                           IF q \in some
                           THEN [propagation[q] EXCEPT !.target[k] = disposition]
                           ELSE propagation[q]]
  PROVE  propagation' \in [Requests -> PropagationRows]
<1>1. \A q \in Requests :
          [propagation[q] EXCEPT !.target[k] = disposition] \in PropagationRows
  BY DEF TypeOK, PropagationRows
<1> QED BY <1>1 DEF TypeOK

\* The spawn receipts and the handshake keep the types.
LEMMA SpawnTypeOK ==
  ASSUME TypeOK, NEW k \in Children, NextSpawn(k)
  PROVE  TypeOK'
<1>0. child[k] \in ChildRows
  BY DEF TypeOK
<1>1. CASE AdmitChildSpawn(k)
  <2>1. [child[k] EXCEPT !.state = "Admitted", !.generation = cycle.generation]
            \in ChildRows
    BY <1>0 DEF TypeOK, CycleRows, ChildRows, ChildStates
  <2>2. child' \in [Children -> ChildRows]
    BY <1>1, <2>1, RowTyped DEF AdmitChildSpawn
  <2> QED BY <1>1, <2>2 DEF AdmitChildSpawn, TypeOK
<1>2. CASE RecordChildSpawn(k)
  <2> DEFINE protocol == IF IsPi(k) THEN "InertSpawned" ELSE "None"
             some == {q \in Requests : /\ propagation[q].state = "Propagating"
                                       /\ propagation[q].target[k] # "NotTarget"}
  <2>1. protocol \in Protocols /\ process[k].pid \in Pids \cup {NoPid}
    BY DEF Protocols, TypeOK, ProcessRows
  <2>2. [child[k] EXCEPT !.state = "Spawned", !.pid = process[k].pid,
                         !.protocol = protocol] \in ChildRows
    <3> HIDE DEF protocol
    <3> QED BY <1>0, <2>1 DEF ChildRows, ChildStates
  <2>3. child' \in [Children -> ChildRows]
    <3>1. child' = [child EXCEPT ![k] =
                      [@ EXCEPT !.state = "Spawned", !.pid = process[k].pid,
                                !.protocol = protocol]]
      BY <1>2 DEF RecordChildSpawn
    <3> HIDE DEF protocol
    <3> QED BY <2>2, <3>1, RowTyped
  <2>4. propagation' \in [Requests -> PropagationRows]
    <3>1. propagation' = [q \in Requests |->
                            IF q \in some
                            THEN [propagation[q] EXCEPT !.target[k] = "Awaiting"]
                            ELSE propagation[q]]
      BY <1>2 DEF RecordChildSpawn
    <3>2. some \in SUBSET Requests /\ "Awaiting" \in Dispositions
      BY DEF Dispositions
    <3> HIDE DEF some
    <3> QED BY <3>1, <3>2, TargetsTyped
  <2> QED BY <1>2, <2>3, <2>4 DEF RecordChildSpawn, TypeOK
<1>3. ASSUME NEW verdict \in {"Invalidated", "Cancelled"},
             RecordNativeChildNotSpawned(k, verdict)
      PROVE  TypeOK'
  <2> USE <1>3 DEF RecordNativeChildNotSpawned, InvalidateAdmission
  <2>1. [child[k] EXCEPT !.state = verdict] \in ChildRows
    BY <1>0, StateTyped DEF ChildStates
  <2>2. child' \in [Children -> ChildRows]
    BY <2>1, RowTyped
  <2>3. OutstandingTargets(k) \in SUBSET Requests /\ "NotRunning" \in Dispositions
    BY DEF OutstandingTargets, Dispositions
  <2>4. propagation' \in [Requests -> PropagationRows]
    BY <2>3, TargetsTyped
  <2> QED BY <2>2, <2>4 DEF TypeOK
<1>4. ASSUME NEW protocol \in Protocols, SetProtocol(k, protocol)
      PROVE  TypeOK'
  <2>1. child' \in [Children -> ChildRows]
    BY <1>0, <1>4, ProtocolTyped, RowTyped DEF SetProtocol
  <2> QED BY <1>4, <2>1 DEF SetProtocol, TypeOK
<1>5. CASE RecordPiSessionReady(k)
  <2> DEFINE state == IF child[k].state = "Spawned" THEN "Running" ELSE child[k].state
  <2>1. state \in ChildStates
    BY <1>0 DEF ChildRows, ChildStates
  <2>2. [child[k] EXCEPT !.protocol = "SessionReady", !.state = state] \in ChildRows
    <3> HIDE DEF state
    <3> QED BY <1>0, <2>1 DEF ChildRows, Protocols
  <2>3. child' \in [Children -> ChildRows]
    <3>1. child' = [child EXCEPT ![k].protocol = "SessionReady", ![k].state = state]
      BY <1>0, <1>5 DEF RecordPiSessionReady, ChildRows, TypeOK
    <3> HIDE DEF state
    <3> QED BY <2>2, <3>1, RowTyped, ZenonT(40)
  <2> QED BY <1>5, <2>3 DEF RecordPiSessionReady, TypeOK
<1>6. CASE RecordPiAdapterReady(k) \/ AuthorizePiCreateSession(k)
             \/ RecordPiCreateSessionDelivery(k)
  BY <1>4, <1>6 DEF RecordPiAdapterReady, AuthorizePiCreateSession,
                    RecordPiCreateSessionDelivery, Protocols
<1> QED BY <1>1, <1>2, <1>3, <1>5, <1>6 DEF NextSpawn

\* A probe adds what it saw to the row.
LEMMA ProbedTyped ==
  ASSUME TypeOK, NEW k \in Children, NEW liveness
  PROVE  Probed(k, liveness) \in ChildRows
<1> DEFINE absent == child[k].absent \/ liveness = "Absent"
           since == child[k].absentSinceReap
                       \/ (liveness = "Absent" /\ child[k].wait # "None")
<1>1. child[k] \in ChildRows
  BY DEF TypeOK
<1>2. absent \in BOOLEAN /\ since \in BOOLEAN
  OBVIOUS
<1>3. Probed(k, liveness) = [child[k] EXCEPT !.absent = absent, !.absentSinceReap = since]
  BY DEF Probed
<1> HIDE DEF absent, since
<1> QED BY <1>1, <1>2, <1>3 DEF ChildRows

\* So does a signal receipt.
LEMMA SignalledTyped ==
  ASSUME TypeOK, NEW k \in Children, NEW action, NEW delivery, NEW cause \in Causes,
         NEW liveness
  PROVE  Signalled(k, action, delivery, cause, liveness) \in ChildRows
<1> DEFINE row == Probed(k, liveness)
           tried == IF action = "Terminate" THEN row.tried \cup {cause} ELSE row.tried
           delivered ==
               IF delivery # "Delivered" THEN row.delivered
               ELSE row.delivered \cup {IF action = "Terminate" THEN "Terminate" ELSE "Kill"}
<1>1. row \in ChildRows
  BY ProbedTyped
<1>2. Signalled(k, action, delivery, cause, liveness)
        = [row EXCEPT !.tried = tried, !.delivered = delivered]
  BY DEF Signalled
<1> HIDE DEF row
<1>3. tried \in SUBSET Causes /\ delivered \in SUBSET {"Terminate", "Kill"}
  BY <1>1 DEF ChildRows
<1> HIDE DEF tried, delivered
<1> QED BY <1>1, <1>2, <1>3 DEF ChildRows

\* A signal receipt writes no other column itself.
LEMMA SignalledColumns ==
  ASSUME TypeOK, NEW k \in Children, NEW action, NEW delivery, NEW cause \in Causes,
         NEW liveness
  PROVE  LET row == Signalled(k, action, delivery, cause, liveness)
             probed == Probed(k, liveness) IN
         /\ row.state = probed.state /\ row.protocol = probed.protocol
         /\ row.generation = probed.generation
         /\ row.absentSinceReap = probed.absentSinceReap
<1> DEFINE row == Probed(k, liveness)
           tried == IF action = "Terminate" THEN row.tried \cup {cause} ELSE row.tried
           delivered ==
               IF delivery # "Delivered" THEN row.delivered
               ELSE row.delivered \cup {IF action = "Terminate" THEN "Terminate" ELSE "Kill"}
<1>1. row \in ChildRows
  BY ProbedTyped
<1>2. Signalled(k, action, delivery, cause, liveness)
        = [row EXCEPT !.tried = tried, !.delivered = delivered]
  BY DEF Signalled
<1> HIDE DEF row, tried, delivered
<1>3. LET new == [row EXCEPT !.tried = tried, !.delivered = delivered] IN
      /\ new.state = row.state /\ new.protocol = row.protocol
      /\ new.generation = row.generation
      /\ new.absentSinceReap = row.absentSinceReap
  BY <1>1 DEF ChildRows
<1> QED BY <1>2, <1>3 DEF row

\* The containment receipts keep the types.
LEMMA ContainmentTypeOK ==
  ASSUME TypeOK, NEW k \in Children, NextContainment(k)
  PROVE  TypeOK'
<1>0. child[k] \in ChildRows
  BY DEF TypeOK
<1>1. ASSUME NEW row \in ChildRows, SetChild(k, row) PROVE TypeOK'
  BY <1>1, RowTyped DEF SetChild, TypeOK
<1>2. ASSUME NEW row \in ChildRows, NEW state \in ChildStates,
             SetChild(k, [row EXCEPT !.state = state])
      PROVE  TypeOK'
  BY <1>1, <1>2, StateTyped
<1>3. ASSUME NEW q \in Requests, RecordPiAbortControlDelivery(k, q) PROVE TypeOK'
  <2> DEFINE aborted == child[k].aborted \cup {q}
  <2>1. aborted \in SUBSET Requests
    BY <1>0 DEF ChildRows
  <2>2. SetChild(k, [child[k] EXCEPT !.aborted = aborted])
    BY <1>3 DEF RecordPiAbortControlDelivery
  <2> HIDE DEF aborted
  <2>3. [child[k] EXCEPT !.aborted = aborted] \in ChildRows
    BY <1>0, <2>1 DEF ChildRows
  <2> QED BY <1>1, <2>2, <2>3
<1>4. ASSUME NEW overflow \in BOOLEAN, RecordChildStreamSeal(k, overflow) PROVE TypeOK'
  <2> DEFINE state == IF overflow THEN "ContainmentFailed" ELSE child[k].state
             sealed == child[k].sealed + 1
  <2>1. state \in ChildStates /\ sealed \in Nat
    BY <1>0 DEF ChildRows, ChildStates
  <2>2. SetChild(k, [child[k] EXCEPT !.sealed = sealed, !.state = state])
    BY <1>4 DEF RecordChildStreamSeal
  <2> HIDE DEF state, sealed
  <2>3. [child[k] EXCEPT !.sealed = sealed, !.state = state] \in ChildRows
    BY <1>0, <2>1 DEF ChildRows
  <2> QED BY <1>1, <2>2, <2>3
<1>5. ASSUME NEW liveness \in Livenesses, RecordChildProcessLiveness(k, liveness)
      PROVE  TypeOK'
  <2> DEFINE row == Probed(k, liveness)
             state == IF IsUncontainable(k, liveness) THEN "ContainmentFailed"
                      ELSE IF row.state = "RecoveryContainmentRequired" THEN "LostParentage"
                      ELSE row.state
  <2>1. SetChild(k, [row EXCEPT !.state = state])
    BY <1>5 DEF RecordChildProcessLiveness
  <2>2. row \in ChildRows
    BY ProbedTyped
  <2> HIDE DEF row
  <2>3. state \in ChildStates
    BY <2>2 DEF ChildRows, ChildStates
  <2> HIDE DEF state
  <2> QED BY <1>2, <2>1, <2>2, <2>3
<1>6. ASSUME NEW liveness \in Livenesses, RecordChildRecovery(k, liveness)
      PROVE  TypeOK'
  <2> DEFINE state == IF liveness = "Absent" THEN "LostParentage"
                      ELSE IF IsUncontainable(k, liveness) THEN "ContainmentFailed"
                      ELSE "RecoveryContainmentRequired"
  <2>1. SetChild(k, [child[k] EXCEPT !.state = state])
    BY <1>6 DEF RecordChildRecovery
  <2>2. state \in ChildStates
    BY DEF ChildStates
  <2> HIDE DEF state
  <2> QED BY <1>0, <1>2, <2>1, <2>2
<1>7. ASSUME NEW liveness \in Livenesses, NEW action, NEW delivery, NEW cause \in Causes,
             RecordProcessSignalReceipt(k, action, delivery, cause, liveness)
      PROVE  TypeOK'
  <2> DEFINE row == Signalled(k, action, delivery, cause, liveness)
             state == IF IsUncontainable(k, liveness) THEN "ContainmentFailed"
                      ELSE IF row.state = "RecoveryContainmentRequired" /\ liveness = "Absent"
                           THEN "LostParentage"
                      ELSE IF row.state \in {"Spawned", "Running"} /\ delivery = "Delivered"
                           THEN "CancellationRequested"
                      ELSE row.state
  <2>1. SetChild(k, [row EXCEPT !.state = state])
    BY <1>7 DEF RecordProcessSignalReceipt
  <2>2. row \in ChildRows
    BY SignalledTyped
  <2> HIDE DEF row
  <2>3. state \in ChildStates
    BY <2>2 DEF ChildRows, ChildStates
  <2> HIDE DEF state
  <2> QED BY <1>2, <2>1, <2>2, <2>3
<1>8. ASSUME NEW before \in Livenesses, NEW after \in Livenesses,
             RecordDirectChildReap(k, before, after)
      PROVE  TypeOK'
  <2> DEFINE absent == child[k].absent \/ "Absent" \in {before, after}
             since == after = "Absent"
             lingering == after = "Present"
             state == IF \/ child[k].state = "ContainmentFailed"
                         \/ Reappeared(k, before) \/ IsUncontainable(k, after)
                      THEN "ContainmentFailed" ELSE "DirectChildReaped"
             row == [child[k] EXCEPT !.wait = process[k].waited, !.absent = absent,
                                     !.absentSinceReap = since, !.lingering = lingering,
                                     !.state = state]
  <2>1. SetChild(k, row)
    BY <1>8 DEF RecordDirectChildReap
  <2>2. /\ absent \in BOOLEAN /\ since \in BOOLEAN /\ lingering \in BOOLEAN
        /\ state \in ChildStates
    BY DEF ChildStates
  <2>3. process[k].waited \in {"None", "Exited", "Term", "Kill", "Other", "Unknown"}
    BY DEF TypeOK, ProcessRows
  <2> HIDE DEF absent, since, lingering, state
  <2>4. row \in ChildRows
    BY <1>0, <2>2, <2>3 DEF ChildRows
  <2> QED BY <1>1, <2>1, <2>4
<1>9. CASE FinalizeChildProcess(k)
  BY <1>0, <1>2, <1>9 DEF FinalizeChildProcess, ChildStates
<1> QED BY <1>3, <1>4, <1>5, <1>6, <1>7, <1>8, <1>9 DEF NextContainment

\* Every table of the custody ledger, and the environment, keeps its type.
THEOREM TypeCorrect == Spec => []TypeOK
<1>1. ASSUME TypeOK, [Next]_vars PROVE TypeOK'
  <2>1. CASE UNCHANGED vars
    BY <1>1, <2>1 DEF TypeOK, vars
  <2>2. CASE Next
    BY <1>1, <2>2, EnvironmentTypeOK, CycleTypeOK, CancellationTypeOK, SpawnTypeOK,
       ContainmentTypeOK DEF Next
  <2> QED BY <1>1, <2>1, <2>2
<1> QED BY <1>1, InitTypeOK, PTL DEF Spec

-----------------------------------------------------------------------------
(* An ended custody left nothing running.                                  *)

\* What keeps EndedIsGone true of child k: a spawn was recorded for a process
\* that was forked, so an observed absence means that it is gone; and so does
\* what the reap receipt remembers of its second probe.
Accounted(k) ==
    /\ IsSpawned(k) => process[k].state # "none"
    /\ child[k].absentSinceReap => process[k].state = "gone"
    /\ child[k].state \in {"Finalized", "LostParentage"} => process[k].state = "gone"

\* The inductive strengthening of EndedIsGone.
AllAccounted == \A k \in Children : Accounted(k)

\* The environment never brings a process back: a gone group stays gone.
LEMMA EnvironmentAccounted ==
  ASSUME TypeOK, AllAccounted, NextEnvironment
  PROVE  AllAccounted'
<1>1. child' = child
  BY DEF NextEnvironment, RestartDaemon, ReusePid, Fork, DirectChildEnds, DescendantsEnd
<1>2. ASSUME NEW j \in Children
      PROVE  /\ process[j].state = "gone" => process'[j].state = "gone"
             /\ process[j].state # "none" => process'[j].state # "none"
  <2>1. CASE RestartDaemon
    BY <2>1, ZenonT(40) DEF RestartDaemon, TypeOK, ProcessRows
  <2>2. ASSUME NEW pid \in Pids, ReusePid(pid) PROVE process' = process
    BY <2>2 DEF ReusePid
  <2>3. ASSUME NEW k \in Children, NEW pid \in Pids, Fork(k, pid)
        PROVE  /\ process[j].state = "gone" => process'[j].state = "gone"
               /\ process[j].state # "none" => process'[j].state # "none"
    BY <2>3 DEF Fork, TypeOK, ProcessRows
  <2>4. ASSUME NEW k \in Children, NEW status \in WaitStatuses,
               NEW after \in {"orphans", "gone"}, DirectChildEnds(k, status, after)
        PROVE  /\ process[j].state = "gone" => process'[j].state = "gone"
               /\ process[j].state # "none" => process'[j].state # "none"
    <3> DEFINE waited == IF process[k].parented THEN status ELSE "None"
    <3>1. process' = [process EXCEPT ![k].state = after, ![k].waited = waited]
      BY <2>4 DEF DirectChildEnds
    <3> HIDE DEF waited
    <3> QED BY <2>4, <3>1 DEF DirectChildEnds, TypeOK, ProcessRows
  <2>5. ASSUME NEW k \in Children, DescendantsEnd(k)
        PROVE  /\ process[j].state = "gone" => process'[j].state = "gone"
               /\ process[j].state # "none" => process'[j].state # "none"
    BY <2>5 DEF DescendantsEnd, TypeOK, ProcessRows
  <2> QED BY <2>1, <2>2, <2>3, <2>4, <2>5 DEF NextEnvironment
<1> QED BY <1>1, <1>2 DEF AllAccounted, Accounted, IsSpawned

\* A command that writes the row of one child keeps the others accounted for.
LEMMA RowAccounted ==
  ASSUME TypeOK, AllAccounted, NEW k \in Children, NEW row,
         child' = [child EXCEPT ![k] = row], process' = process,
         row.state \notin {"None", "Admitted", "Invalidated", "Cancelled"}
             => process[k].state # "none",
         row.absentSinceReap => process[k].state = "gone",
         row.state \in {"Finalized", "LostParentage"} => process[k].state = "gone"
  PROVE  AllAccounted'
<1>1. ASSUME NEW j \in Children, j # k PROVE Accounted(j)'
  BY <1>1 DEF TypeOK, AllAccounted, Accounted, IsSpawned
<1>2. Accounted(k)'
  BY DEF TypeOK, AllAccounted, Accounted, IsSpawned
<1> QED BY <1>1, <1>2 DEF AllAccounted

\* The spawn receipts and the handshake end no custody.
LEMMA SpawnAccounted ==
  ASSUME TypeOK, AllAccounted, NEW k \in Children, NextSpawn(k)
  PROVE  AllAccounted'
<1>0. /\ child[k] \in ChildRows
      /\ Accounted(k)
  BY DEF TypeOK, AllAccounted
<1>1. CASE AdmitChildSpawn(k)
  <2> DEFINE row == [child[k] EXCEPT !.state = "Admitted", !.generation = cycle.generation]
  <2>1. /\ child' = [child EXCEPT ![k] = row] /\ process' = process
        /\ row.state = "Admitted" /\ row.absentSinceReap = child[k].absentSinceReap
    BY <1>0, <1>1 DEF AdmitChildSpawn, ChildRows
  <2> HIDE DEF row
  <2> QED BY <1>0, <2>1, RowAccounted DEF Accounted
<1>2. CASE RecordChildSpawn(k)
  <2> DEFINE protocol == IF IsPi(k) THEN "InertSpawned" ELSE "None"
             row == [child[k] EXCEPT !.state = "Spawned", !.pid = process[k].pid,
                                     !.protocol = protocol]
  <2>1. /\ child' = [child EXCEPT ![k] = row] /\ process' = process
        /\ process[k].state # "none"
    BY <1>2 DEF RecordChildSpawn
  <2> HIDE DEF protocol
  <2>2. row.state = "Spawned" /\ row.absentSinceReap = child[k].absentSinceReap
    BY <1>0 DEF ChildRows
  <2> HIDE DEF row
  <2> QED BY <1>0, <2>1, <2>2, RowAccounted DEF Accounted
<1>3. ASSUME NEW verdict \in {"Invalidated", "Cancelled"},
             RecordNativeChildNotSpawned(k, verdict)
      PROVE  AllAccounted'
  <2> DEFINE row == [child[k] EXCEPT !.state = verdict]
  <2>1. /\ child' = [child EXCEPT ![k] = row] /\ process' = process
        /\ row.state = verdict /\ row.absentSinceReap = child[k].absentSinceReap
    BY <1>0, <1>3 DEF RecordNativeChildNotSpawned, InvalidateAdmission, ChildRows
  <2> HIDE DEF row
  <2> QED BY <1>0, <2>1, RowAccounted DEF Accounted
<1>4. ASSUME NEW protocol, MayHandshake(k), SetProtocol(k, protocol)
      PROVE  AllAccounted'
  <2> DEFINE row == [child[k] EXCEPT !.protocol = protocol]
  <2>1. /\ child' = [child EXCEPT ![k] = row] /\ process' = process
        /\ row.state = child[k].state /\ row.absentSinceReap = child[k].absentSinceReap
    BY <1>0, <1>4 DEF SetProtocol, ChildRows
  <2> HIDE DEF row
  <2> QED BY <1>0, <2>1, RowAccounted DEF Accounted, IsSpawned
<1>5. CASE RecordPiSessionReady(k)
  <2> DEFINE state == IF child[k].state = "Spawned" THEN "Running" ELSE child[k].state
             row == [child[k] EXCEPT !.protocol = "SessionReady", !.state = state]
  <2>1. /\ child' = [child EXCEPT ![k] = row] /\ process' = process
        /\ child[k].state \in {"Spawned", "CancellationRequested"}
    BY <1>0, <1>5 DEF RecordPiSessionReady, MayHandshake, TypeOK, ChildRows
  <2>2. state \in {"Running", "CancellationRequested"}
    BY <2>1
  <2> HIDE DEF state
  <2>3. row.state = state /\ row.absentSinceReap = child[k].absentSinceReap
    BY <1>0 DEF ChildRows
  <2> HIDE DEF row
  <2> QED BY <1>0, <2>1, <2>2, <2>3, RowAccounted DEF Accounted, IsSpawned
<1>6. CASE RecordPiAdapterReady(k) \/ AuthorizePiCreateSession(k)
             \/ RecordPiCreateSessionDelivery(k)
  BY <1>4, <1>6 DEF RecordPiAdapterReady, AuthorizePiCreateSession,
                    RecordPiCreateSessionDelivery, MayHandshake
<1> QED BY <1>1, <1>2, <1>3, <1>5, <1>6 DEF NextSpawn

\* A probe remembers an absence only of a group that is gone.
LEMMA ProbedAccounted ==
  ASSUME TypeOK, NEW k \in Children, Accounted(k), IsSpawned(k),
         NEW liveness, Observes(k, liveness)
  PROVE  /\ process[k].state # "none"
         /\ liveness = "Absent" => process[k].state = "gone"
         /\ Probed(k, liveness).state = child[k].state
         /\ Probed(k, liveness).absentSinceReap => process[k].state = "gone"
<1> DEFINE absent == child[k].absent \/ liveness = "Absent"
           since == child[k].absentSinceReap
                       \/ (liveness = "Absent" /\ child[k].wait # "None")
<1>1. child[k] \in ChildRows /\ process[k] \in ProcessRows
  BY DEF TypeOK
<1>2. process[k].state # "none" /\ (liveness = "Absent" => process[k].state = "gone")
  BY <1>1 DEF Accounted, Observes, GroupExists, ProcessRows
<1>3. since => process[k].state = "gone"
  BY <1>2 DEF Accounted
<1>4. Probed(k, liveness) = [child[k] EXCEPT !.absent = absent, !.absentSinceReap = since]
  BY DEF Probed
<1> HIDE DEF absent, since
<1>5. /\ Probed(k, liveness).state = child[k].state
      /\ Probed(k, liveness).absentSinceReap = since
  BY <1>1, <1>4 DEF ChildRows
<1> QED BY <1>2, <1>3, <1>5

\* The containment receipts end a custody only of a group that is gone.
LEMMA ContainmentAccounted ==
  ASSUME TypeOK, AllAccounted, NEW k \in Children, NextContainment(k)
  PROVE  AllAccounted'
<1>0. /\ child[k] \in ChildRows
      /\ Accounted(k)
  BY DEF TypeOK, AllAccounted
<1>1. ASSUME NEW row, NEW state, row \in ChildRows, SetChild(k, [row EXCEPT !.state = state]),
             process[k].state # "none",
             row.absentSinceReap => process[k].state = "gone",
             state \in {"Finalized", "LostParentage"} => process[k].state = "gone"
      PROVE  AllAccounted'
  <2> DEFINE new == [row EXCEPT !.state = state]
  <2>1. /\ child' = [child EXCEPT ![k] = new] /\ process' = process
        /\ new.state = state /\ new.absentSinceReap = row.absentSinceReap
    BY <1>1 DEF SetChild, ChildRows
  <2> HIDE DEF new
  <2> QED BY <1>1, <2>1, RowAccounted
<1>2. ASSUME NEW q \in Requests, RecordPiAbortControlDelivery(k, q) PROVE AllAccounted'
  <2> DEFINE aborted == child[k].aborted \cup {q}
             row == [child[k] EXCEPT !.aborted = aborted]
  <2>1. /\ child' = [child EXCEPT ![k] = row] /\ process' = process
        /\ child[k].state \in {"Running", "CancellationRequested"}
    BY <1>2 DEF RecordPiAbortControlDelivery, SetChild
  <2> HIDE DEF aborted
  <2>2. row.state = child[k].state /\ row.absentSinceReap = child[k].absentSinceReap
    BY <1>0 DEF ChildRows
  <2> HIDE DEF row
  <2> QED BY <1>0, <2>1, <2>2, RowAccounted DEF Accounted, IsSpawned
<1>3. ASSUME NEW overflow \in BOOLEAN, RecordChildStreamSeal(k, overflow) PROVE AllAccounted'
  <2> DEFINE state == IF overflow THEN "ContainmentFailed" ELSE child[k].state
             sealed == child[k].sealed + 1
             row == [child[k] EXCEPT !.sealed = sealed, !.state = state]
  <2>1. /\ child' = [child EXCEPT ![k] = row] /\ process' = process
        /\ IsSpawned(k)
    BY <1>3 DEF RecordChildStreamSeal, SetChild
  <2>2. state \in {child[k].state, "ContainmentFailed"}
    OBVIOUS
  <2> HIDE DEF state, sealed
  <2>3. row.state = state /\ row.absentSinceReap = child[k].absentSinceReap
    BY <1>0 DEF ChildRows
  <2> HIDE DEF row
  <2> QED BY <1>0, <2>1, <2>2, <2>3, RowAccounted DEF Accounted
<1>4. ASSUME NEW liveness \in Livenesses, RecordChildProcessLiveness(k, liveness)
      PROVE  AllAccounted'
  <2> DEFINE row == Probed(k, liveness)
             state == IF IsUncontainable(k, liveness) THEN "ContainmentFailed"
                      ELSE IF row.state = "RecoveryContainmentRequired" THEN "LostParentage"
                      ELSE row.state
  <2>1. SetChild(k, [row EXCEPT !.state = state])
    BY <1>4 DEF RecordChildProcessLiveness
  <2>2. /\ IsSpawned(k) /\ ~IsTerminal(k) /\ Observes(k, liveness)
        /\ ~(child[k].state = "RecoveryContainmentRequired" /\ liveness = "Present")
        /\ liveness \in {"Present", "Absent", "Inaccessible"}
    BY <1>4, ObservationAssumption DEF RecordChildProcessLiveness
  <2>3. /\ row \in ChildRows /\ process[k].state # "none"
        /\ liveness = "Absent" => process[k].state = "gone"
        /\ row.state = child[k].state
        /\ row.absentSinceReap => process[k].state = "gone"
    BY <1>0, <2>2, ProbedTyped, ProbedAccounted
  <2> HIDE DEF row
  <2>4. state \in {"Finalized", "LostParentage"} => process[k].state = "gone"
    BY <2>2, <2>3 DEF IsTerminal, IsUncontainable
  <2> HIDE DEF state
  <2> QED BY <1>1, <2>1, <2>3, <2>4
<1>5. ASSUME NEW liveness \in Livenesses, RecordChildRecovery(k, liveness)
      PROVE  AllAccounted'
  <2> DEFINE state == IF liveness = "Absent" THEN "LostParentage"
                      ELSE IF IsUncontainable(k, liveness) THEN "ContainmentFailed"
                      ELSE "RecoveryContainmentRequired"
  <2>1. SetChild(k, [child[k] EXCEPT !.state = state])
    BY <1>5 DEF RecordChildRecovery
  <2>2. /\ process[k].state # "none"
        /\ liveness = "Absent" => process[k].state = "gone"
    BY <1>0, <1>5, ProbedAccounted DEF RecordChildRecovery
  <2>3. state \in {"Finalized", "LostParentage"} => process[k].state = "gone"
    BY <2>2
  <2> HIDE DEF state
  <2> QED BY <1>0, <1>1, <2>1, <2>2, <2>3 DEF Accounted
<1>6. ASSUME NEW liveness \in Livenesses, NEW action, NEW delivery, NEW cause \in Causes,
             RecordProcessSignalReceipt(k, action, delivery, cause, liveness)
      PROVE  AllAccounted'
  <2> DEFINE probed == Probed(k, liveness)
             row == Signalled(k, action, delivery, cause, liveness)
             state == IF IsUncontainable(k, liveness) THEN "ContainmentFailed"
                      ELSE IF row.state = "RecoveryContainmentRequired" /\ liveness = "Absent"
                           THEN "LostParentage"
                      ELSE IF row.state \in {"Spawned", "Running"} /\ delivery = "Delivered"
                           THEN "CancellationRequested"
                      ELSE row.state
  <2>1. SetChild(k, [row EXCEPT !.state = state])
    BY <1>6 DEF RecordProcessSignalReceipt
  <2>2. IsSpawned(k) /\ ~IsTerminal(k) /\ Observes(k, liveness)
    BY <1>6 DEF RecordProcessSignalReceipt
  <2>3. /\ probed \in ChildRows /\ row \in ChildRows /\ process[k].state # "none"
        /\ liveness = "Absent" => process[k].state = "gone"
        /\ probed.state = child[k].state
        /\ probed.absentSinceReap => process[k].state = "gone"
    BY <1>0, <2>2, ProbedTyped, SignalledTyped, ProbedAccounted
  <2>4. /\ row.state = probed.state
        /\ row.absentSinceReap = probed.absentSinceReap
    BY <1>6, SignalledColumns
  <2> HIDE DEF row, probed
  <2>5. state \in {"Finalized", "LostParentage"} => process[k].state = "gone"
    BY <2>2, <2>3, <2>4 DEF IsTerminal
  <2> HIDE DEF state
  <2> QED BY <1>1, <2>1, <2>3, <2>4, <2>5
<1>7. ASSUME NEW before \in Livenesses, NEW after \in Livenesses,
             RecordDirectChildReap(k, before, after)
      PROVE  AllAccounted'
  <2> DEFINE absent == child[k].absent \/ "Absent" \in {before, after}
             since == after = "Absent"
             lingering == after = "Present"
             state == IF \/ child[k].state = "ContainmentFailed"
                         \/ Reappeared(k, before) \/ IsUncontainable(k, after)
                      THEN "ContainmentFailed" ELSE "DirectChildReaped"
             row == [child[k] EXCEPT !.wait = process[k].waited, !.absent = absent,
                                     !.absentSinceReap = since, !.lingering = lingering,
                                     !.state = state]
  <2>1. child' = [child EXCEPT ![k] = row] /\ process' = process
    BY <1>7 DEF RecordDirectChildReap, SetChild
  <2>2. /\ process[k].state # "none"
        /\ since => process[k].state = "gone"
    BY <1>0, <1>7, ProbedAccounted DEF RecordDirectChildReap
  <2>3. state \in {"ContainmentFailed", "DirectChildReaped"}
    OBVIOUS
  <2> HIDE DEF absent, since, lingering, state
  <2>4. row.state = state /\ row.absentSinceReap = since
    BY <1>0 DEF ChildRows
  <2> HIDE DEF row
  <2> QED BY <2>1, <2>2, <2>3, <2>4, RowAccounted
<1>8. CASE FinalizeChildProcess(k)
  <2>1. process[k].state = "gone" /\ SetChild(k, [child[k] EXCEPT !.state = "Finalized"])
    BY <1>0, <1>8 DEF FinalizeChildProcess, Accounted
  <2> QED BY <1>0, <1>1, <2>1
<1> QED BY <1>2, <1>3, <1>4, <1>5, <1>6, <1>7, <1>8 DEF NextContainment

\* Every reachable state accounts for the process of every child.
LEMMA AccountedInvariant == Spec => []AllAccounted
<1>1. Init => AllAccounted
  BY DEF Init, AllAccounted, Accounted, IsSpawned, NoChild
<1>2. ASSUME TypeOK, AllAccounted, [Next]_vars PROVE AllAccounted'
  <2>1. CASE UNCHANGED <<child, process>>
    BY <1>2, <2>1 DEF AllAccounted, Accounted, IsSpawned
  <2>2. ASSUME NEW q \in Requests, NextCancellation(q) PROVE UNCHANGED <<child, process>>
    BY <2>2 DEF NextCancellation, RequestCancellation, FreezeBudgetAdmission,
       BeginCancellationPropagation, ReconcileCancellationPropagation, ReconcileCancellation
  <2>3. CASE NextCycle
    BY <2>1, <2>3 DEF NextCycle, QuiesceOperatingCycle, RecordCycleDrained,
       ResumeOperatingCycle, OpenOwner, EndPiOwner, EndExperiment
  <2> QED BY <1>2, <2>1, <2>2, <2>3, EnvironmentAccounted, SpawnAccounted,
             ContainmentAccounted DEF Next, vars
<1> QED BY <1>1, <1>2, TypeCorrect, PTL DEF Spec

\* Whatever receipts are lost, late or repeated, and however the daemon is
\* restarted and process identities are reused, the ledger ends a custody as
\* Finalized or as LostParentage only when the whole process group is gone.
THEOREM CustodyEndsWithTheGroup == Spec => []EndedIsGone
<1>1. AllAccounted => EndedIsGone
  BY DEF AllAccounted, Accounted, EndedIsGone
<1> QED BY <1>1, AccountedInvariant, PTL

-----------------------------------------------------------------------------
(* The receipts implement the custody lifecycle.                           *)

\* Where a state of the lifecycle leads, or stays.
Follows(old, new) == new = old \/ new \in Custody!Successors[old]

\* The life a row tells of.
LifeOf(row) ==
    CASE row.state = "Cancelled" -> "Invalidated"
      [] row.state = "Spawned"
         /\ row.protocol \in {"CreateAuthorized", "CreateDelivered"} -> "Created"
      [] row.state \in {"CancellationRequested", "DirectChildReaped",
                        "RecoveryContainmentRequired"} -> "Ending"
      [] OTHER -> row.state

\* A command that writes the row of one child takes a step of the lifecycle.
LEMMA RowFollows ==
  ASSUME TypeOK, NEW k \in Children, NEW row,
         child' = [child EXCEPT ![k] = row],
         Follows(LifeOf(child[k]), LifeOf(row))
  PROVE  [Custody!Next]_Lives
<1>1. \A j \in Children : Life(j) = LifeOf(child[j]) /\ Life(j)' = LifeOf(child'[j])
  BY DEF Life, LifeOf
<1>2. child'[k] = row /\ \A j \in Children \ {k} : child'[j] = child[j]
  BY DEF TypeOK
<1>3. Lives' = [Lives EXCEPT ![k] = LifeOf(row)]
  BY <1>1, <1>2 DEF Lives
<1>4. CASE LifeOf(row) = LifeOf(child[k])
  BY <1>1, <1>3, <1>4 DEF Lives
<1>5. CASE LifeOf(row) \in Custody!Successors[LifeOf(child[k])]
  <2>1. Custody!Advance(k)
    BY <1>1, <1>3, <1>5 DEF Custody!Advance, Lives
  <2> QED BY <2>1 DEF Custody!Next
<1> QED BY <1>4, <1>5 DEF Follows

\* The rows of the lifecycle's table that the receipts use.
LEMMA LifecycleTable ==
  /\ \A life : Follows(life, life)
  /\ Follows("None", "Admitted")
  /\ Follows("Admitted", "Spawned") /\ Follows("Admitted", "Invalidated")
  /\ Follows("Spawned", "Created") /\ Follows("Created", "Running")
  /\ \A life \in {"Spawned", "Created", "Running", "Ending"} :
        /\ Follows(life, "Ending") /\ Follows(life, "LostParentage")
        /\ Follows(life, "ContainmentFailed")
  /\ Follows("Ending", "Finalized")
BY DEF Follows, Custody!Successors

\* A receipt of a spawned, not terminal child may end it in every way but one.
LEMMA EndingFollows ==
  ASSUME TypeOK, NEW k \in Children, IsSpawned(k), ~IsTerminal(k), NEW row,
         row.protocol = child[k].protocol,
         row.state \in {child[k].state, "CancellationRequested", "DirectChildReaped",
                        "RecoveryContainmentRequired", "LostParentage",
                        "ContainmentFailed"}
  PROVE  Follows(LifeOf(child[k]), LifeOf(row))
<1>1. child[k].state \in {"Spawned", "Running", "CancellationRequested",
                          "DirectChildReaped", "RecoveryContainmentRequired"}
  BY DEF TypeOK, ChildRows, ChildStates, IsSpawned, IsTerminal
<1>2. LifeOf(child[k]) \in {"Spawned", "Created", "Running", "Ending"}
  BY <1>1 DEF LifeOf
<1>3. CASE row.state = child[k].state
  BY <1>3, LifecycleTable DEF LifeOf
<1>4. CASE row.state # child[k].state
  <2>1. LifeOf(row) \in {"Ending", "LostParentage", "ContainmentFailed"}
    BY <1>4 DEF LifeOf
  <2> QED BY <1>2, <2>1, LifecycleTable
<1> QED BY <1>3, <1>4

\* The spawn receipts and the handshake follow the lifecycle.
LEMMA SpawnFollows ==
  ASSUME TypeOK, NEW k \in Children, NextSpawn(k)
  PROVE  \E row : /\ child' = [child EXCEPT ![k] = row]
                  /\ Follows(LifeOf(child[k]), LifeOf(row))
<1>0. child[k] \in ChildRows
  BY DEF TypeOK
<1>1. CASE AdmitChildSpawn(k)
  <2> DEFINE row == [child[k] EXCEPT !.state = "Admitted", !.generation = cycle.generation]
  <2>1. child' = [child EXCEPT ![k] = row] /\ child[k].state = "None" /\ row.state = "Admitted"
    BY <1>0, <1>1 DEF AdmitChildSpawn, ChildRows
  <2> HIDE DEF row
  <2>2. LifeOf(child[k]) = "None" /\ LifeOf(row) = "Admitted"
    BY <2>1 DEF LifeOf
  <2> QED BY <2>1, <2>2, LifecycleTable
<1>2. CASE RecordChildSpawn(k)
  <2> DEFINE protocol == IF IsPi(k) THEN "InertSpawned" ELSE "None"
             row == [child[k] EXCEPT !.state = "Spawned", !.pid = process[k].pid,
                                     !.protocol = protocol]
  <2>1. child' = [child EXCEPT ![k] = row] /\ child[k].state = "Admitted"
    BY <1>2 DEF RecordChildSpawn
  <2>2. protocol \notin {"CreateAuthorized", "CreateDelivered"}
    OBVIOUS
  <2> HIDE DEF protocol
  <2>3. row.state = "Spawned" /\ row.protocol = protocol
    BY <1>0 DEF ChildRows
  <2> HIDE DEF row
  <2>4. LifeOf(child[k]) = "Admitted" /\ LifeOf(row) = "Spawned"
    BY <2>1, <2>2, <2>3 DEF LifeOf
  <2> QED BY <2>1, <2>4, LifecycleTable
<1>3. ASSUME NEW verdict \in {"Invalidated", "Cancelled"},
             RecordNativeChildNotSpawned(k, verdict)
      PROVE  \E row : /\ child' = [child EXCEPT ![k] = row]
                      /\ Follows(LifeOf(child[k]), LifeOf(row))
  <2> DEFINE row == [child[k] EXCEPT !.state = verdict]
  <2>1. /\ child' = [child EXCEPT ![k] = row] /\ child[k].state = "Admitted"
        /\ row.state = verdict
    BY <1>0, <1>3 DEF RecordNativeChildNotSpawned, InvalidateAdmission, ChildRows
  <2> HIDE DEF row
  <2>2. LifeOf(child[k]) = "Admitted" /\ LifeOf(row) = "Invalidated"
    BY <2>1 DEF LifeOf
  <2> QED BY <2>1, <2>2, LifecycleTable
<1>4. ASSUME NEW protocol, SetProtocol(k, protocol),
             \/ /\ MayHandshake(k) /\ child[k].protocol = "InertSpawned"
                /\ protocol = "AdapterReady"
             \/ /\ child[k].state = "Spawned" /\ child[k].protocol = "AdapterReady"
                /\ protocol = "CreateAuthorized"
             \/ /\ MayHandshake(k) /\ child[k].protocol = "CreateAuthorized"
                /\ protocol = "CreateDelivered"
      PROVE  \E row : /\ child' = [child EXCEPT ![k] = row]
                      /\ Follows(LifeOf(child[k]), LifeOf(row))
  <2> DEFINE row == [child[k] EXCEPT !.protocol = protocol]
  <2>1. /\ child' = [child EXCEPT ![k] = row]
        /\ row.state = child[k].state /\ row.protocol = protocol
    BY <1>0, <1>4 DEF SetProtocol, ChildRows
  <2> HIDE DEF row
  <2>2. \/ LifeOf(row) = LifeOf(child[k])
        \/ LifeOf(child[k]) = "Spawned" /\ LifeOf(row) = "Created"
    BY <1>4, <2>1 DEF MayHandshake, LifeOf
  <2> QED BY <2>1, <2>2, LifecycleTable
<1>5. CASE RecordPiSessionReady(k)
  <2> DEFINE state == IF child[k].state = "Spawned" THEN "Running" ELSE child[k].state
             row == [child[k] EXCEPT !.protocol = "SessionReady", !.state = state]
  <2>1. /\ child' = [child EXCEPT ![k] = row]
        /\ child[k].state \in {"Spawned", "CancellationRequested"}
        /\ child[k].protocol = "CreateDelivered"
    BY <1>0, <1>5 DEF RecordPiSessionReady, MayHandshake, TypeOK, ChildRows
  <2>2. \/ child[k].state = "Spawned" /\ state = "Running"
        \/ child[k].state = "CancellationRequested" /\ state = "CancellationRequested"
    BY <2>1
  <2> HIDE DEF state
  <2>3. row.state = state
    BY <1>0 DEF ChildRows
  <2> HIDE DEF row
  <2>4. \/ LifeOf(child[k]) = "Created" /\ LifeOf(row) = "Running"
        \/ LifeOf(row) = LifeOf(child[k])
    BY <2>1, <2>2, <2>3 DEF LifeOf
  <2> QED BY <2>1, <2>4, LifecycleTable
<1>6. CASE RecordPiAdapterReady(k) \/ AuthorizePiCreateSession(k)
             \/ RecordPiCreateSessionDelivery(k)
  BY <1>4, <1>6 DEF RecordPiAdapterReady, AuthorizePiCreateSession,
                    RecordPiCreateSessionDelivery
<1> QED BY <1>1, <1>2, <1>3, <1>5, <1>6 DEF NextSpawn

\* A receipt that leaves a failed containment failed does not move the child.
LEMMA FailedFollows ==
  ASSUME NEW k, child[k].state = "ContainmentFailed", NEW row,
         row.state = "ContainmentFailed"
  PROVE  Follows(LifeOf(child[k]), LifeOf(row))
<1>1. LifeOf(child[k]) = "ContainmentFailed" /\ LifeOf(row) = "ContainmentFailed"
  BY DEF LifeOf
<1> QED BY <1>1, LifecycleTable

\* A probe does not touch the columns the lifecycle is read from.
LEMMA ProbedColumns ==
  ASSUME TypeOK, NEW k \in Children, NEW liveness
  PROVE  /\ Probed(k, liveness).state = child[k].state
         /\ Probed(k, liveness).protocol = child[k].protocol
         /\ Probed(k, liveness).generation = child[k].generation
<1> DEFINE absent == child[k].absent \/ liveness = "Absent"
           since == child[k].absentSinceReap
                       \/ (liveness = "Absent" /\ child[k].wait # "None")
<1>1. Probed(k, liveness) = [child[k] EXCEPT !.absent = absent, !.absentSinceReap = since]
  BY DEF Probed
<1> HIDE DEF absent, since
<1> QED BY <1>1 DEF TypeOK, ChildRows

\* A receipt of the spawned child k moves it along the lifecycle and leaves it
\* spawned, in the generation that admitted it.
IsReceipt(k) ==
    \E row : /\ child' = [child EXCEPT ![k] = row]
             /\ IsSpawned(k)
             /\ row.state \notin {"None", "Admitted", "Invalidated", "Cancelled"}
             /\ row.generation = child[k].generation
             /\ Follows(LifeOf(child[k]), LifeOf(row))

\* The containment receipts are receipts of a spawned child.
LEMMA ContainmentReceipts ==
  ASSUME TypeOK, NEW k \in Children, NextContainment(k)
  PROVE  IsReceipt(k)
<1>0. child[k] \in ChildRows
  BY DEF TypeOK
<1>1. ASSUME NEW row, NEW state, row \in ChildRows, row.protocol = child[k].protocol,
             row.generation = child[k].generation,
             SetChild(k, [row EXCEPT !.state = state]), IsSpawned(k), ~IsTerminal(k),
             state \in {child[k].state, "CancellationRequested", "DirectChildReaped",
                        "RecoveryContainmentRequired", "LostParentage",
                        "ContainmentFailed"}
      PROVE  IsReceipt(k)
  <2> DEFINE new == [row EXCEPT !.state = state]
  <2>1. /\ child' = [child EXCEPT ![k] = new]
        /\ new.state = state /\ new.protocol = child[k].protocol
        /\ new.generation = child[k].generation
    BY <1>1 DEF SetChild, ChildRows
  <2> HIDE DEF new
  <2>2. Follows(LifeOf(child[k]), LifeOf(new))
    BY <1>1, <2>1, EndingFollows
  <2> QED BY <1>1, <2>1, <2>2 DEF IsReceipt, IsSpawned
<1>2. ASSUME NEW q \in Requests, RecordPiAbortControlDelivery(k, q)
      PROVE  IsReceipt(k)
  <2> DEFINE aborted == child[k].aborted \cup {q}
             row == [child[k] EXCEPT !.aborted = aborted]
  <2>1. child' = [child EXCEPT ![k] = row] /\ IsSpawned(k) /\ ~IsTerminal(k)
    BY <1>2 DEF RecordPiAbortControlDelivery, SetChild, IsSpawned, IsTerminal
  <2> HIDE DEF aborted
  <2>2. /\ row.state = child[k].state /\ row.protocol = child[k].protocol
        /\ row.generation = child[k].generation
    BY <1>0 DEF ChildRows
  <2> HIDE DEF row
  <2> QED BY <2>1, <2>2, EndingFollows DEF IsReceipt, IsSpawned
<1>3. ASSUME NEW overflow \in BOOLEAN, RecordChildStreamSeal(k, overflow)
      PROVE  IsReceipt(k)
  <2> DEFINE state == IF overflow THEN "ContainmentFailed" ELSE child[k].state
             sealed == child[k].sealed + 1
             row == [child[k] EXCEPT !.sealed = sealed, !.state = state]
  <2>1. /\ child' = [child EXCEPT ![k] = row] /\ IsSpawned(k)
        /\ ~IsTerminal(k) \/ child[k].state = "ContainmentFailed"
    BY <1>3 DEF RecordChildStreamSeal, SetChild, IsTerminal
  <2>2. state \in {child[k].state, "ContainmentFailed"}
    OBVIOUS
  <2> HIDE DEF state, sealed
  <2>3. /\ row.state = state /\ row.protocol = child[k].protocol
        /\ row.generation = child[k].generation
    BY <1>0 DEF ChildRows
  <2> HIDE DEF row
  <2> QED BY <2>1, <2>2, <2>3, EndingFollows, FailedFollows DEF IsReceipt, IsSpawned
<1>4. ASSUME NEW liveness \in Livenesses, RecordChildProcessLiveness(k, liveness)
      PROVE  IsReceipt(k)
  <2> DEFINE row == Probed(k, liveness)
             state == IF IsUncontainable(k, liveness) THEN "ContainmentFailed"
                      ELSE IF row.state = "RecoveryContainmentRequired" THEN "LostParentage"
                      ELSE row.state
  <2>1. SetChild(k, [row EXCEPT !.state = state]) /\ IsSpawned(k) /\ ~IsTerminal(k)
    BY <1>4 DEF RecordChildProcessLiveness
  <2>2. /\ row \in ChildRows /\ row.state = child[k].state /\ row.protocol = child[k].protocol
        /\ row.generation = child[k].generation
    BY ProbedTyped, ProbedColumns
  <2>3. state \in {child[k].state, "LostParentage", "ContainmentFailed"}
    BY <2>2
  <2> HIDE DEF row, state
  <2> QED BY <1>1, <2>1, <2>2, <2>3
<1>5. ASSUME NEW liveness \in Livenesses, RecordChildRecovery(k, liveness)
      PROVE  IsReceipt(k)
  <2> DEFINE state == IF liveness = "Absent" THEN "LostParentage"
                      ELSE IF IsUncontainable(k, liveness) THEN "ContainmentFailed"
                      ELSE "RecoveryContainmentRequired"
  <2>1. SetChild(k, [child[k] EXCEPT !.state = state]) /\ IsSpawned(k) /\ ~IsTerminal(k)
    BY <1>5 DEF RecordChildRecovery, IsTerminal
  <2>2. state \in {"LostParentage", "ContainmentFailed", "RecoveryContainmentRequired"}
    OBVIOUS
  <2> HIDE DEF state
  <2> QED BY <1>0, <1>1, <2>1, <2>2
<1>6. ASSUME NEW liveness \in Livenesses, NEW action, NEW delivery, NEW cause \in Causes,
             RecordProcessSignalReceipt(k, action, delivery, cause, liveness)
      PROVE  IsReceipt(k)
  <2> DEFINE row == Signalled(k, action, delivery, cause, liveness)
             state == IF IsUncontainable(k, liveness) THEN "ContainmentFailed"
                      ELSE IF row.state = "RecoveryContainmentRequired" /\ liveness = "Absent"
                           THEN "LostParentage"
                      ELSE IF row.state \in {"Spawned", "Running"} /\ delivery = "Delivered"
                           THEN "CancellationRequested"
                      ELSE row.state
  <2>1. SetChild(k, [row EXCEPT !.state = state]) /\ IsSpawned(k) /\ ~IsTerminal(k)
    BY <1>6 DEF RecordProcessSignalReceipt
  <2>2. /\ row \in ChildRows /\ row.state = child[k].state /\ row.protocol = child[k].protocol
        /\ row.generation = child[k].generation
    BY <1>6, SignalledTyped, SignalledColumns, ProbedColumns
  <2>3. state \in {child[k].state, "LostParentage", "ContainmentFailed", "CancellationRequested"}
    BY <2>2
  <2> HIDE DEF row, state
  <2> QED BY <1>1, <2>1, <2>2, <2>3
<1>7. ASSUME NEW before \in Livenesses, NEW after \in Livenesses,
             RecordDirectChildReap(k, before, after)
      PROVE  IsReceipt(k)
  <2> DEFINE absent == child[k].absent \/ "Absent" \in {before, after}
             since == after = "Absent"
             lingering == after = "Present"
             state == IF \/ child[k].state = "ContainmentFailed"
                         \/ Reappeared(k, before) \/ IsUncontainable(k, after)
                      THEN "ContainmentFailed" ELSE "DirectChildReaped"
             row == [child[k] EXCEPT !.wait = process[k].waited, !.absent = absent,
                                     !.absentSinceReap = since, !.lingering = lingering,
                                     !.state = state]
  <2>1. /\ child' = [child EXCEPT ![k] = row] /\ IsSpawned(k)
        /\ ~IsTerminal(k) \/ child[k].state = "ContainmentFailed"
    BY <1>7 DEF RecordDirectChildReap, SetChild, IsTerminal
  <2>2. /\ state \in {"ContainmentFailed", "DirectChildReaped"}
        /\ child[k].state = "ContainmentFailed" => state = "ContainmentFailed"
    OBVIOUS
  <2> HIDE DEF absent, since, lingering, state
  <2>3. /\ row.state = state /\ row.protocol = child[k].protocol
        /\ row.generation = child[k].generation
    BY <1>0 DEF ChildRows
  <2> HIDE DEF row
  <2> QED BY <2>1, <2>2, <2>3, EndingFollows, FailedFollows DEF IsReceipt, IsSpawned
<1>8. CASE FinalizeChildProcess(k)
  <2> DEFINE row == [child[k] EXCEPT !.state = "Finalized"]
  <2>1. /\ child' = [child EXCEPT ![k] = row] /\ row.state = "Finalized"
        /\ row.generation = child[k].generation
        /\ child[k].state = "DirectChildReaped"
    BY <1>0, <1>8 DEF FinalizeChildProcess, SetChild, ChildRows
  <2> HIDE DEF row
  <2>2. LifeOf(child[k]) = "Ending" /\ LifeOf(row) = "Finalized"
    BY <2>1 DEF LifeOf
  <2> QED BY <2>1, <2>2, LifecycleTable DEF IsReceipt, IsSpawned
<1> QED BY <1>2, <1>3, <1>4, <1>5, <1>6, <1>7, <1>8 DEF NextContainment

\* The receipts implement the custody lifecycle: no command, in whatever order
\* the receipts come, resolves an admission twice, gives work to a child that
\* is being ended, or takes a child out of a terminal state.
THEOREM ReceiptsImplementCustody == Spec => CustodyLifecycle
<1>1. Init => Custody!Init
  BY DEF Init, NoChild, Custody!Init, Lives, Life
<1>2. ASSUME TypeOK, [Next]_vars
      PROVE  [Custody!Next]_Lives
  <2>1. CASE child' = child
    BY <2>1 DEF Lives, Life
  <2>2. CASE UNCHANGED vars \/ NextEnvironment \/ NextCycle
              \/ \E q \in Requests : NextCancellation(q)
    <3>1. child' = child
      BY <2>2 DEF vars, NextEnvironment, RestartDaemon, ReusePid, Fork, DirectChildEnds,
         DescendantsEnd, NextCycle, QuiesceOperatingCycle, RecordCycleDrained,
         ResumeOperatingCycle, OpenOwner, EndPiOwner, EndExperiment, NextCancellation,
         RequestCancellation, FreezeBudgetAdmission, BeginCancellationPropagation,
         ReconcileCancellationPropagation, ReconcileCancellation
    <3> QED BY <2>1, <3>1
  <2>3. ASSUME NEW k \in Children, NextSpawn(k) \/ NextContainment(k)
        PROVE  [Custody!Next]_Lives
    <3>1. PICK row : /\ child' = [child EXCEPT ![k] = row]
                     /\ Follows(LifeOf(child[k]), LifeOf(row))
      BY <1>2, <2>3, SpawnFollows, ContainmentReceipts DEF IsReceipt
    <3> QED BY <1>2, <3>1, RowFollows
  <2> QED BY <1>2, <2>2, <2>3 DEF Next
<1> QED BY <1>1, <1>2, TypeCorrect, PTL DEF Spec, CustodyLifecycle, Custody!Spec

-----------------------------------------------------------------------------
(* The invariant of propagations.                                          *)

\* A propagation is of no later generation than its cycle, so what is admitted
\* after it is told apart by its generation.
NotAhead == \A q \in Requests : propagation[q].generation <= cycle.generation

\* A child that was not admitted, or whose admission was invalidated, has no
\* process: record_native_child_not_spawned is reported only of a fork that did
\* not happen.
NeverForked ==
    \A k \in Children :
        child[k].state \in {"None", "Invalidated", "Cancelled"}
            => process[k].state = "none"

\* Propagation q names child k, and k was admitted before it.
Caught(q, k) ==
    /\ child[k].state # "None"
    /\ child[k].generation < propagation[q].generation
    /\ propagation[q].target[k] # "NotTarget"

\* What makes a caught child's containment inductive: while the propagation is
\* open it awaits every caught child that may still have, or still get, a
\* process; a spawn recorded after the snapshot is awaited again.
Watched(q, k) ==
    Caught(q, k) =>
        /\ propagation[q].state = "Propagating" =>
              \/ propagation[q].target[k] \in {"Awaiting", "ContainmentFailed"}
              \/ ~GroupExists(k)
        /\ propagation[q].state = "Reconciled" => ~GroupExists(k)
        /\ child[k].state = "Admitted" =>
              \/ Awaits(q, k)
              \/ propagation[q].state \in {"None", "ContainmentFailed"}

AllWatched == \A q \in Requests, k \in Children : Watched(q, k)

PropagationInv == NotAhead /\ NeverForked /\ AllWatched /\ AwaitedCanAnswer

-----------------------------------------------------------------------------
(* Steps that leave the propagations alone.                                *)

\* A process appears only for an admitted child; a group never comes back.
LEMMA EnvironmentPropagation ==
  ASSUME TypeOK, PropagationInv, NextEnvironment
  PROVE  PropagationInv'
<1>1. UNCHANGED <<cycle, propagation, child>>
  BY DEF NextEnvironment, RestartDaemon, ReusePid, Fork, DirectChildEnds, DescendantsEnd
<1>2. ASSUME NEW j \in Children, child[j].state # "Admitted"
      PROVE  /\ GroupExists(j)' => GroupExists(j)
             /\ process[j].state = "none" => process'[j].state = "none"
  <2>1. CASE RestartDaemon
    BY <2>1 DEF RestartDaemon, TypeOK, ProcessRows, GroupExists
  <2>2. ASSUME NEW pid \in Pids, ReusePid(pid) PROVE process' = process
    BY <2>2 DEF ReusePid
  <2>3. ASSUME NEW k \in Children, NEW pid \in Pids, Fork(k, pid)
        PROVE  process'[j] = process[j]
    BY <1>2, <2>3 DEF Fork, TypeOK
  <2>4. ASSUME NEW k \in Children, NEW status \in WaitStatuses,
               NEW after \in {"orphans", "gone"}, DirectChildEnds(k, status, after)
        PROVE  /\ GroupExists(j)' => GroupExists(j)
               /\ process[j].state = "none" => process'[j].state = "none"
    <3> DEFINE waited == IF process[k].parented THEN status ELSE "None"
    <3>1. process' = [process EXCEPT ![k].state = after, ![k].waited = waited]
      BY <2>4 DEF DirectChildEnds
    <3> HIDE DEF waited
    <3> QED BY <2>4, <3>1 DEF DirectChildEnds, TypeOK, ProcessRows, GroupExists
  <2>5. ASSUME NEW k \in Children, DescendantsEnd(k)
        PROVE  /\ GroupExists(j)' => GroupExists(j)
               /\ process[j].state = "none" => process'[j].state = "none"
    BY <2>5 DEF DescendantsEnd, TypeOK, ProcessRows, GroupExists
  <2> QED BY <2>1, <2>2, <2>3, <2>4, <2>5 DEF NextEnvironment, GroupExists
<1>3. NotAhead' /\ AwaitedCanAnswer'
  BY <1>1 DEF PropagationInv, NotAhead, AwaitedCanAnswer, Awaits, IsSpawned
<1>4. NeverForked'
  BY <1>1, <1>2 DEF PropagationInv, NeverForked
<1>5. ASSUME NEW q \in Requests, NEW k \in Children PROVE Watched(q, k)'
  <2>1. Watched(q, k)
    BY DEF PropagationInv, AllWatched
  <2>2. CASE child[k].state = "Admitted"
    BY <1>1, <2>1, <2>2 DEF Watched, Caught, Awaits
  <2>3. CASE child[k].state # "Admitted"
    BY <1>1, <1>2, <2>1, <2>3 DEF Watched, Caught, Awaits
  <2> QED BY <2>2, <2>3
<1> QED BY <1>3, <1>4, <1>5 DEF PropagationInv, AllWatched

\* The cycle's commands and the requests only raise the generation.
LEMMA GenerationPropagation ==
  ASSUME PropagationInv, TypeOK, UNCHANGED <<propagation, child, process>>,
         cycle' \in CycleRows, cycle'.generation >= cycle.generation
  PROVE  PropagationInv'
<1>1. NotAhead'
  BY DEF PropagationInv, NotAhead, TypeOK, PropagationRows, CycleRows
<1>2. AwaitedCanAnswer' /\ NeverForked'
  BY DEF PropagationInv, AwaitedCanAnswer, NeverForked, Awaits, IsSpawned
<1>3. AllWatched'
  BY DEF PropagationInv, AllWatched, Watched, Caught, Awaits, GroupExists
<1> QED BY <1>1, <1>2, <1>3 DEF PropagationInv

\* Receipts of spawned children leave them spawned, in their generation.
LEMMA ReceiptPropagation ==
  ASSUME TypeOK, PropagationInv, UNCHANGED <<cycle, propagation, process>>,
         \A j \in Children :
            /\ child'[j].generation = child[j].generation
            /\ child'[j].state = child[j].state \/ (IsSpawned(j) /\ IsSpawned(j)')
  PROVE  PropagationInv'
<1>1. NotAhead' /\ AwaitedCanAnswer' /\ NeverForked'
  BY DEF PropagationInv, NotAhead, AwaitedCanAnswer, NeverForked, Awaits, IsSpawned
<1>2. ASSUME NEW q \in Requests, NEW k \in Children PROVE Watched(q, k)'
  BY DEF PropagationInv, AllWatched, Watched, Caught, Awaits, GroupExists, IsSpawned
<1> QED BY <1>1, <1>2 DEF PropagationInv, AllWatched

-----------------------------------------------------------------------------
(* Steps that write a propagation or spawn a child.                        *)

\* The snapshot awaits every live owner that may have a process.
LEMMA BeginPropagation ==
  ASSUME TypeOK, AllAccounted, PropagationInv, NEW q \in Requests,
         BeginCancellationPropagation(q)
  PROVE  PropagationInv'
<1> DEFINE row == [state |-> "Propagating", generation |-> cycle.generation,
                   target |-> [k \in Children |-> Snapshot(k)]]
<1>1. /\ propagation' = [propagation EXCEPT ![q] = row]
      /\ UNCHANGED <<cycle, child, process>>
  BY DEF BeginCancellationPropagation
<1>2. /\ propagation'[q] = row
      /\ \A r \in Requests \ {q} : propagation'[r] = propagation[r]
  BY <1>1 DEF TypeOK
<1>3. ASSUME NEW k \in Children, row.target[k] = "Awaiting"
      PROVE  child[k].state = "Admitted" \/ IsSpawned(k)
  BY <1>3 DEF Snapshot, IsSpawned
<1>4. ASSUME NEW k \in Children, row.target[k] # "NotTarget"
      PROVE  /\ row.target[k] \in {"Awaiting", "ContainmentFailed"} \/ ~GroupExists(k)
             /\ child[k].state = "Admitted" => row.target[k] = "Awaiting"
  <2>1. Snapshot(k) # "NotTarget" /\ row.target[k] = Snapshot(k)
    BY <1>4
  <2>2. CASE child[k].state \in {"None", "Invalidated", "Cancelled"}
    BY <2>2 DEF PropagationInv, NeverForked, GroupExists
  <2>3. CASE child[k].state \in {"Finalized", "LostParentage"}
    BY <2>3 DEF AllAccounted, Accounted, GroupExists
  <2>4. CASE child[k].state = "ContainmentFailed"
    BY <2>1, <2>4 DEF Snapshot, SpawnedDisposition
  <2>5. CASE child[k].state \notin {"None", "Invalidated", "Cancelled", "Finalized",
                                    "LostParentage", "ContainmentFailed"}
    BY <2>1, <2>5 DEF Snapshot, SpawnedDisposition
  <2> QED BY <2>2, <2>3, <2>4, <2>5
<1>5. NotAhead'
  BY <1>1, <1>2 DEF PropagationInv, NotAhead, TypeOK, CycleRows
<1>6. NeverForked'
  BY <1>1 DEF PropagationInv, NeverForked
<1>7. AwaitedCanAnswer'
  BY <1>1, <1>2, <1>3 DEF PropagationInv, AwaitedCanAnswer, Awaits, IsSpawned
<1>8. ASSUME NEW r \in Requests, NEW k \in Children PROVE Watched(r, k)'
  <2>1. CASE r = q
    BY <1>1, <1>2, <1>4, <2>1 DEF Watched, Caught, Awaits, GroupExists
  <2>2. CASE r # q
    BY <1>1, <1>2, <2>2 DEF PropagationInv, AllWatched, Watched, Caught, Awaits, GroupExists
  <2> QED BY <2>1, <2>2
<1> QED BY <1>5, <1>6, <1>7, <1>8 DEF PropagationInv, AllWatched

\* A propagation is reconciled only with every awaited child accounted for.
LEMMA ReconcilePropagation ==
  ASSUME TypeOK, AllAccounted, PropagationInv, NEW q \in Requests,
         ReconcileCancellationPropagation(q)
  PROVE  PropagationInv'
<1> DEFINE target == Refreshed(q)
<1>1. UNCHANGED <<cycle, child, process>> /\ propagation[q].state = "Propagating"
  BY DEF ReconcileCancellationPropagation
<1>2. PICK state \in {"ContainmentFailed", "Reconciled"} :
        /\ propagation' = [propagation EXCEPT ![q].target = target, ![q].state = state]
        /\ state = "Reconciled" =>
              \A k \in Children : target[k] \notin {"Awaiting", "ContainmentFailed"}
  BY DEF ReconcileCancellationPropagation
<1>3. /\ propagation'[q].state = state /\ propagation'[q].target = target
      /\ propagation'[q].generation = propagation[q].generation
      /\ \A r \in Requests \ {q} : propagation'[r] = propagation[r]
  BY <1>2 DEF TypeOK, PropagationRows
<1>4. ASSUME NEW k \in Children, state = "Reconciled", Caught(q, k)
      PROVE  ~GroupExists(k) /\ child[k].state # "Admitted"
  <2>1. Watched(q, k) /\ target[k] \notin {"Awaiting", "ContainmentFailed"}
    BY <1>2, <1>4 DEF PropagationInv, AllWatched
  <2>2. CASE child[k].state \in {"Finalized", "LostParentage"}
    BY <2>2 DEF AllAccounted, Accounted, GroupExists
  <2>3. CASE child[k].state \notin {"Finalized", "LostParentage"}
    <3>1. target[k] = propagation[q].target[k]
            \/ (child[k].state = "ContainmentFailed" /\ target[k] = "ContainmentFailed")
      BY <2>3 DEF Refreshed, SpawnedDisposition
    <3> QED BY <1>1, <1>4, <2>1, <3>1 DEF Watched, Awaits
  <2> QED BY <2>2, <2>3
<1>5. \A k \in Children : target[k] = "NotTarget" <=> propagation[q].target[k] = "NotTarget"
  BY DEF Refreshed, SpawnedDisposition, Ending
<1> HIDE DEF target
<1>6. NotAhead'
  BY <1>1, <1>3 DEF PropagationInv, NotAhead
<1>7. NeverForked'
  BY <1>1 DEF PropagationInv, NeverForked
<1>8. AwaitedCanAnswer'
  BY <1>1, <1>3 DEF PropagationInv, AwaitedCanAnswer, Awaits, IsSpawned
<1>9. ASSUME NEW r \in Requests, NEW k \in Children PROVE Watched(r, k)'
  <2>1. CASE r = q
    BY <1>1, <1>3, <1>4, <1>5, <2>1 DEF Watched, Caught, Awaits, GroupExists
  <2>2. CASE r # q
    BY <1>1, <1>3, <2>2 DEF PropagationInv, AllWatched, Watched, Caught, Awaits, GroupExists
  <2> QED BY <2>1, <2>2
<1> QED BY <1>6, <1>7, <1>8, <1>9 DEF PropagationInv, AllWatched

\* The cycle, the requests and the propagations.
LEMMA CancellationPropagation ==
  ASSUME TypeOK, TypeOK', AllAccounted, PropagationInv,
         NextCycle \/ \E q \in Requests : NextCancellation(q)
  PROVE  PropagationInv'
<1>1. CASE UNCHANGED <<propagation, child, process>>
            /\ (cycle' = cycle \/ cycle'.generation = cycle.generation
                 \/ cycle'.generation = cycle.generation + 1)
  BY <1>1, GenerationPropagation DEF TypeOK, CycleRows
<1>2. CASE NextCycle
  BY <1>1, <1>2 DEF NextCycle, QuiesceOperatingCycle, RecordCycleDrained,
     ResumeOperatingCycle, OpenOwner, EndPiOwner, EndExperiment, Advance, TypeOK, CycleRows
<1>3. ASSUME NEW q \in Requests, NextCancellation(q) PROVE PropagationInv'
  <2>1. CASE BeginCancellationPropagation(q) \/ ReconcileCancellationPropagation(q)
    BY <2>1, BeginPropagation, ReconcilePropagation
  <2>2. ASSUME NEW state, RequestCancellation(q, state) PROVE PropagationInv'
    BY <1>1, <2>2 DEF RequestCancellation, Advance
  <2>3. CASE FreezeBudgetAdmission(q) \/ ReconcileCancellation(q)
    BY <1>1, <2>3 DEF FreezeBudgetAdmission, ReconcileCancellation, Advance, TypeOK, CycleRows
  <2> QED BY <1>3, <2>1, <2>2, <2>3 DEF NextCancellation
<1> QED BY <1>2, <1>3

\* What a command that writes some columns of child k's row leaves alone.
LEMMA OtherRows ==
  ASSUME TypeOK, NEW k \in Children, NEW row, child' = [child EXCEPT ![k] = row]
  PROVE  child'[k] = row /\ \A j \in Children \ {k} : child'[j] = child[j]
BY DEF TypeOK

\* An admission is of the present generation, so no open propagation caught it.
LEMMA AdmitPropagation ==
  ASSUME TypeOK, PropagationInv, NEW k \in Children, AdmitChildSpawn(k)
  PROVE  PropagationInv'
<1> DEFINE row == [child[k] EXCEPT !.state = "Admitted", !.generation = cycle.generation]
<1>1. /\ UNCHANGED <<cycle, propagation, process>>
      /\ child' = [child EXCEPT ![k] = row]
      /\ child[k].state = "None"
  BY DEF AdmitChildSpawn
<1>2. row.state = "Admitted" /\ row.generation = cycle.generation
  BY DEF TypeOK, ChildRows
<1> HIDE DEF row
<1>3. child'[k] = row /\ \A j \in Children \ {k} : child'[j] = child[j]
  BY <1>1, OtherRows
<1>4. NotAhead' /\ NeverForked'
  BY <1>1, <1>2, <1>3 DEF PropagationInv, NotAhead, NeverForked
<1>5. AwaitedCanAnswer'
  BY <1>1, <1>2, <1>3 DEF PropagationInv, AwaitedCanAnswer, Awaits, IsSpawned
<1>6. ASSUME NEW q \in Requests, NEW j \in Children PROVE Watched(q, j)'
  <2>1. CASE j = k
    <3>1. ~Caught(q, j)'
      BY <1>1, <1>2, <1>3, <2>1 DEF PropagationInv, NotAhead, Caught, TypeOK,
         CycleRows, PropagationRows
    <3> QED BY <3>1 DEF Watched
  <2>2. CASE j # k
    BY <1>1, <1>3, <2>2 DEF PropagationInv, AllWatched, Watched, Caught, Awaits, GroupExists
  <2> QED BY <2>1, <2>2
<1> QED BY <1>4, <1>5, <1>6 DEF PropagationInv, AllWatched

\* A spawn recorded after the snapshot is awaited by every open propagation
\* that names its owner.
LEMMA RecordSpawnPropagation ==
  ASSUME TypeOK, PropagationInv, NEW k \in Children, RecordChildSpawn(k)
  PROVE  PropagationInv'
<1> DEFINE protocol == IF IsPi(k) THEN "InertSpawned" ELSE "None"
           row == [child[k] EXCEPT !.state = "Spawned", !.pid = process[k].pid,
                                   !.protocol = protocol]
           named(q) == /\ propagation[q].state = "Propagating"
                       /\ propagation[q].target[k] # "NotTarget"
<1>1. /\ UNCHANGED <<cycle, process>>
      /\ child' = [child EXCEPT ![k] = row]
      /\ child[k].state = "Admitted"
  BY DEF RecordChildSpawn
<1>2. row.state = "Spawned" /\ row.generation = child[k].generation
  <2> HIDE DEF protocol
  <2> QED BY DEF TypeOK, ChildRows
<1>3. \A q \in Requests :
        propagation'[q] = IF named(q) THEN [propagation[q] EXCEPT !.target[k] = "Awaiting"]
                                      ELSE propagation[q]
  BY DEF RecordChildSpawn
<1>4. ASSUME NEW q \in Requests
      PROVE  /\ propagation'[q].state = propagation[q].state
             /\ propagation'[q].generation = propagation[q].generation
             /\ \A j \in Children \ {k} : propagation'[q].target[j] = propagation[q].target[j]
             /\ named(q) => propagation'[q].target[k] = "Awaiting"
             /\ ~named(q) => propagation'[q].target[k] = propagation[q].target[k]
  <2>1. propagation[q] \in PropagationRows
    BY DEF TypeOK
  <2>2. CASE named(q)
    <3>1. propagation'[q] = [propagation[q] EXCEPT !.target[k] = "Awaiting"]
      BY <1>3, <2>2
    <3> QED BY <2>1, <2>2, <3>1 DEF PropagationRows
  <2>3. CASE ~named(q)
    BY <1>3, <2>3
  <2> QED BY <2>2, <2>3
<1> HIDE DEF row
<1>5. child'[k] = row /\ \A j \in Children \ {k} : child'[j] = child[j]
  BY <1>1, OtherRows
<1>6. NotAhead' /\ NeverForked'
  BY <1>1, <1>2, <1>4, <1>5 DEF PropagationInv, NotAhead, NeverForked
<1>7. AwaitedCanAnswer'
  BY <1>1, <1>2, <1>4, <1>5 DEF PropagationInv, AwaitedCanAnswer, Awaits, IsSpawned
<1>8. ASSUME NEW q \in Requests, NEW j \in Children PROVE Watched(q, j)'
  <2>1. Watched(q, j)
    BY DEF PropagationInv, AllWatched
  <2>2. CASE j = k
    <3>1. child'[j].state = "Spawned" /\ child'[j].generation = child[j].generation
      BY <1>2, <1>5, <2>2
    <3>2. CASE Caught(q, j)
      BY <1>1, <1>4, <2>1, <2>2, <3>1, <3>2 DEF Watched, Caught, Awaits, GroupExists
    <3>3. CASE ~Caught(q, j)
      BY <1>1, <1>4, <2>2, <3>1, <3>3 DEF Watched, Caught
    <3> QED BY <3>2, <3>3
  <2>3. CASE j # k
    BY <1>1, <1>4, <1>5, <2>1, <2>3 DEF Watched, Caught, Awaits, GroupExists
  <2> QED BY <2>2, <2>3
<1> QED BY <1>6, <1>7, <1>8 DEF PropagationInv, AllWatched

\* An invalidated admission never had a process and is awaited no more.
LEMMA NotSpawnedPropagation ==
  ASSUME TypeOK, PropagationInv, NEW k \in Children,
         NEW verdict \in {"Invalidated", "Cancelled"},
         RecordNativeChildNotSpawned(k, verdict)
  PROVE  PropagationInv'
<1> DEFINE row == [child[k] EXCEPT !.state = verdict]
<1>1. /\ UNCHANGED <<cycle, process>> /\ process[k].state = "none"
      /\ child' = [child EXCEPT ![k] = row]
      /\ child[k].state = "Admitted"
  BY DEF RecordNativeChildNotSpawned, InvalidateAdmission
<1>2. row.state = verdict /\ row.generation = child[k].generation
  BY DEF TypeOK, ChildRows
<1>3. ASSUME NEW q \in Requests
      PROVE  /\ propagation'[q].state = propagation[q].state
             /\ propagation'[q].generation = propagation[q].generation
             /\ \A j \in Children \ {k} : propagation'[q].target[j] = propagation[q].target[j]
             /\ Awaits(q, k) => propagation'[q].target[k] = "NotRunning"
             /\ ~Awaits(q, k) => propagation'[q].target[k] = propagation[q].target[k]
  <2>1. propagation[q] \in PropagationRows
    BY DEF TypeOK
  <2>2. CASE Awaits(q, k)
    <3>1. propagation'[q] = [propagation[q] EXCEPT !.target[k] = "NotRunning"]
      BY <2>2 DEF RecordNativeChildNotSpawned, InvalidateAdmission, OutstandingTargets
    <3> QED BY <2>1, <2>2, <3>1 DEF PropagationRows
  <2>3. CASE ~Awaits(q, k)
    BY <2>3 DEF RecordNativeChildNotSpawned, InvalidateAdmission, OutstandingTargets
  <2> QED BY <2>2, <2>3
<1> HIDE DEF row
<1>4. child'[k] = row /\ \A j \in Children \ {k} : child'[j] = child[j]
  BY <1>1, OtherRows
<1>5. NotAhead' /\ NeverForked'
  BY <1>1, <1>2, <1>3, <1>4 DEF PropagationInv, NotAhead, NeverForked
<1>6. AwaitedCanAnswer'
  BY <1>1, <1>2, <1>3, <1>4 DEF PropagationInv, AwaitedCanAnswer, Awaits, IsSpawned
<1>7. ASSUME NEW q \in Requests, NEW j \in Children PROVE Watched(q, j)'
  <2>1. Watched(q, j)
    BY DEF PropagationInv, AllWatched
  <2>2. CASE j = k
    BY <1>1, <1>2, <1>4, <2>2 DEF Watched, GroupExists
  <2>3. CASE j # k
    BY <1>1, <1>3, <1>4, <2>1, <2>3 DEF Watched, Caught, Awaits, GroupExists
  <2> QED BY <2>2, <2>3
<1> QED BY <1>5, <1>6, <1>7 DEF PropagationInv, AllWatched

\* The handshake is a sequence of receipts of a spawned child.
LEMMA SpawnPropagation ==
  ASSUME TypeOK, PropagationInv, NEW k \in Children, NextSpawn(k)
  PROVE  PropagationInv'
<1>1. ASSUME NEW protocol, MayHandshake(k), SetProtocol(k, protocol)
      PROVE  PropagationInv'
  <2> DEFINE row == [child[k] EXCEPT !.protocol = protocol]
  <2>1. /\ child' = [child EXCEPT ![k] = row]
        /\ UNCHANGED <<cycle, propagation, process>>
        /\ row.state = child[k].state /\ row.generation = child[k].generation
    BY <1>1 DEF SetProtocol, TypeOK, ChildRows
  <2> HIDE DEF row
  <2> QED BY <2>1, OtherRows, ReceiptPropagation
<1>2. CASE RecordPiSessionReady(k)
  <2> DEFINE state == IF child[k].state = "Spawned" THEN "Running" ELSE child[k].state
             row == [child[k] EXCEPT !.protocol = "SessionReady", !.state = state]
  <2>1. /\ child' = [child EXCEPT ![k] = row]
        /\ UNCHANGED <<cycle, propagation, process>>
        /\ child[k].state \in {"Spawned", "CancellationRequested"}
    BY <1>2 DEF RecordPiSessionReady, MayHandshake, TypeOK, ChildRows
  <2>2. state \in {"Running", "CancellationRequested"}
    BY <2>1
  <2> HIDE DEF state
  <2>3. row.state = state /\ row.generation = child[k].generation
    BY DEF TypeOK, ChildRows
  <2> HIDE DEF row
  <2> QED BY <2>1, <2>2, <2>3, OtherRows, ReceiptPropagation DEF IsSpawned
<1>3. CASE RecordPiAdapterReady(k) \/ AuthorizePiCreateSession(k)
             \/ RecordPiCreateSessionDelivery(k)
  BY <1>1, <1>3 DEF RecordPiAdapterReady, AuthorizePiCreateSession,
                    RecordPiCreateSessionDelivery, MayHandshake
<1> QED BY <1>2, <1>3, AdmitPropagation, RecordSpawnPropagation, NotSpawnedPropagation
        DEF NextSpawn

-----------------------------------------------------------------------------
(* The theorems.                                                           *)

\* The invariant the two theorems follow from.
LEMMA PropagationInvariant == Spec => []PropagationInv
<1>1. Init => PropagationInv
  BY DEF Init, PropagationInv, NotAhead, NeverForked, AllWatched, Watched, Caught,
     AwaitedCanAnswer, Awaits, NoChild, NoPropagation, NoProcess
<1>2. ASSUME TypeOK, TypeOK', AllAccounted, PropagationInv, [Next]_vars
      PROVE  PropagationInv'
  <2>1. CASE UNCHANGED vars
    BY <1>2, <2>1, GenerationPropagation DEF vars, TypeOK, CycleRows
  <2>2. ASSUME NEW k \in Children, NextContainment(k) PROVE PropagationInv'
    <3>1. PICK row : /\ child' = [child EXCEPT ![k] = row]
                     /\ IsSpawned(k)
                     /\ row.state \notin {"None", "Admitted", "Invalidated", "Cancelled"}
                     /\ row.generation = child[k].generation
      BY <1>2, <2>2, ContainmentReceipts DEF IsReceipt
    <3>2. UNCHANGED <<cycle, propagation, process>>
      <4>1. ASSUME NEW new, SetChild(k, new) PROVE UNCHANGED <<cycle, propagation, process>>
        BY <4>1 DEF SetChild
      <4>2. ASSUME NEW q \in Requests, RecordPiAbortControlDelivery(k, q)
            PROVE  UNCHANGED <<cycle, propagation, process>>
        BY <4>1, <4>2 DEF RecordPiAbortControlDelivery
      <4>3. ASSUME NEW overflow \in BOOLEAN, RecordChildStreamSeal(k, overflow)
            PROVE  UNCHANGED <<cycle, propagation, process>>
        BY <4>3 DEF RecordChildStreamSeal, SetChild
      <4>4. ASSUME NEW liveness \in Livenesses,
                   RecordChildProcessLiveness(k, liveness) \/ RecordChildRecovery(k, liveness)
            PROVE  UNCHANGED <<cycle, propagation, process>>
        BY <4>4 DEF RecordChildProcessLiveness, RecordChildRecovery, SetChild
      <4>5. ASSUME NEW liveness, NEW action, NEW delivery, NEW cause,
                   RecordProcessSignalReceipt(k, action, delivery, cause, liveness)
            PROVE  UNCHANGED <<cycle, propagation, process>>
        BY <4>5 DEF RecordProcessSignalReceipt, SetChild
      <4>6. ASSUME NEW before, NEW after, RecordDirectChildReap(k, before, after)
            PROVE  UNCHANGED <<cycle, propagation, process>>
        BY <4>6 DEF RecordDirectChildReap, SetChild
      <4>7. CASE FinalizeChildProcess(k)
        BY <4>1, <4>7 DEF FinalizeChildProcess
      <4> QED BY <2>2, <4>2, <4>3, <4>4, <4>5, <4>6, <4>7 DEF NextContainment
    <3> QED BY <1>2, <3>1, <3>2, OtherRows, ReceiptPropagation DEF IsSpawned
  <2> QED BY <1>2, <2>1, <2>2, EnvironmentPropagation, CancellationPropagation,
             SpawnPropagation DEF Next
<1> QED BY <1>1, <1>2, TypeCorrect, AccountedInvariant, PTL DEF Spec

\* For every set of owners, requests and process identities: what a reconciled
\* propagation caught is gone, however the forks, the spawn receipts and the
\* snapshots were interleaved.
THEOREM PropagationContains == Spec => []ReconciledIsContained
<1>1. PropagationInv => ReconciledIsContained
  BY DEF PropagationInv, AllWatched, Watched, Caught, ReconciledIsContained
<1> QED BY <1>1, PropagationInvariant, PTL

\* A propagation is never left waiting for a child that will not be spawned.
THEOREM AwaitedAnswers == Spec => []AwaitedCanAnswer
<1>1. PropagationInv => AwaitedCanAnswer
  BY DEF PropagationInv
<1> QED BY <1>1, PropagationInvariant, PTL

=============================================================================
