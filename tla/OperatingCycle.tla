--------------------------- MODULE OperatingCycle ---------------------------
(***************************************************************************)
(* The kernel's Operating Cycle: its lifecycle and admission generation,   *)
(* the two budget envelopes every paid reservation is charged to (the      *)
(* society's and the cycle's own), the freeze of a reservation whose cost  *)
(* is unknown or overran, the cancellation duty a freeze or a request      *)
(* opens, the cost Postmortem that resolves a frozen reservation, and the  *)
(* execution a cycle owns: its Root Authority Office session and turn, one *)
(* work item's lease and attempt, and the custody of native children.      *)
(*                                                                         *)
(* Source: crates/society-kernel/src/store.rs. Every action is one ledger  *)
(* command. KernelStore::execute runs a command in one serialised database *)
(* transaction and rolls a rejected one back to a savepoint, so a command  *)
(* is atomic and a rejected command changes nothing: its guard is simply   *)
(* false here. A table is a function from row identities to rows; an       *)
(* identity whose row has state "None" has not been inserted.              *)
(*                                                                         *)
(* A command that carries an expected generation is accepted only when it  *)
(* equals the cycle's (cycle_for_generation), so an accepted command always *)
(* acts on the current generation: that is what the actions describe.      *)
(***************************************************************************)
EXTENDS Integers, FiniteSets, Functions

CONSTANTS
    Cycles,         \* identities of operating cycles
    Reservations,   \* identities of budget reservations
    Requests,       \* identities of cancellation requests
    Children,       \* identities of native child spawn admissions
    Society,        \* identity of the society's budget envelope
    None,           \* the SQL NULL of an identity column
    HardCeiling,    \* the R0 hard ceiling of the society, in micro-USD
    Ceilings,       \* ceilings a proposer may ask for
    Amounts,        \* amounts a reservation may ask for
    Observations,   \* cumulative costs a provider may report
    Treatments,     \* operating treatments that are proposed
    MaxGeneration   \* the greatest admission generation (i64::MAX in the code)

ASSUME SocietyAssumption == Society \notin Cycles
ASSUME NoneAssumption ==
    None \notin Cycles \cup Reservations \cup Requests \cup Children
ASSUME MoneyAssumption ==
    /\ HardCeiling \in Nat
    /\ Ceilings \subseteq Nat
    /\ Amounts \subseteq Nat
    /\ Observations \subseteq Nat
ASSUME TreatmentAssumption == Treatments \subseteq {"Office", "Qualification"}
ASSUME GenerationAssumption == MaxGeneration \in Nat

VARIABLES
    cycle,          \* operating_cycles, with its admission and reconciliation rows
    envelope,       \* budget_envelopes: the society's and one per cycle
    reservation,    \* budget_reservations and their charge rows
    cancellation,   \* cancellation_requests and their propagation
    postmortem,     \* cost_postmortems, unique per reservation
    session,        \* the cycle's office session, its turn and bound reservation
    work,           \* the cycle's one work item: its lease and live attempt
    child           \* native_child_spawn_admissions and native_children

vars == <<cycle, envelope, reservation, cancellation, postmortem,
          session, work, child>>

-----------------------------------------------------------------------------
(* Rows.                                                                   *)

\* OperatingCycleState. Reaping, Cancelled and Failed are in the enumeration
\* and no handler enters them.
CycleStates == {"None", "Proposed", "Admitted", "Running", "Quiescing",
                "Drained", "Reconciling", "Closed", "Cancelling"}

\* OfficeSessionState, without the states no handler enters.
SessionStates == {"None", "Reserved", "Ready", "TurnActive", "Quiescing",
                  "Closed", "Cancelled", "Failed"}

\* A spawn admission (Admitted, Invalidated) and, once spawned, its native
\* child: "Spawned" is inert, "Created" has been authorised to create its Pi
\* session, "Running" is SessionReady, and "Ending" stands for
\* CancellationRequested, DirectChildReaped and RecoveryContainmentRequired.
ChildStates == {"None", "Admitted", "Invalidated", "Spawned", "Created",
                "Running", "Ending", "LostParentage", "ContainmentFailed",
                "Finalized"}

Envelopes == Cycles \cup {Society}
NoGeneration == -1

\* reconciling: the row of operating_cycle_reconciliations exists.
CycleRows == [state : CycleStates, treatment : {"Office", "Qualification"},
              generation : Nat, reconciling : BOOLEAN]

EnvelopeRows == [ceiling : Nat, reserved : Int, spent : Nat]

\* held: what the two charge rows of the reservation still hold. Every handler
\* writes both rows alike, so one column stands for both.
ReservationRows == [state : {"None", "Reserved", "Reconciled", "Frozen"},
                    cycle : Cycles \cup {None}, amount : Nat,
                    charged : Nat, held : Nat]

\* targetsSession: the propagation's snapshot named the cycle's session.
CancellationRows == [state : {"None", "Accepted", "Propagating", "Completed"},
                     cycle : Cycles \cup {None},
                     propagation : {"None", "Propagating", "Reconciled",
                                    "ContainmentFailed"},
                     targetsSession : BOOLEAN]

PostmortemRows == [state : {"None", "Open", "Closed"},
                   cause : {"None", "KnownOverrun", "UnknownCost"},
                   observed : Nat, reserved : Nat]

\* purpose and prompt describe the active turn: an office turn is Active
\* exactly while its session is TurnActive. prompt is the generation its
\* prompt was authorised at.
SessionRows == [state : SessionStates, reservation : Reservations \cup {None},
                child : Children \cup {None},
                purpose : {"None", "OrdinaryWork", "Closure"},
                prompt : Nat \cup {NoGeneration}]

WorkStates == {"None", "Leased", "Attempting"}

ChildRows == [state : ChildStates, cycle : Cycles \cup {None},
              owner : {"None", "Session", "Qualification"},
              reservation : Reservations \cup {None},
              generation : Nat]

\* Every table has rows of its type.
TypeOK ==
    /\ cycle \in [Cycles -> CycleRows]
    /\ envelope \in [Envelopes -> EnvelopeRows]
    /\ reservation \in [Reservations -> ReservationRows]
    /\ cancellation \in [Requests -> CancellationRows]
    /\ postmortem \in [Reservations -> PostmortemRows]
    /\ session \in [Cycles -> SessionRows]
    /\ work \in [Cycles -> WorkStates]
    /\ child \in [Children -> ChildRows]

NoCycle == [state |-> "None", treatment |-> "Office", generation |-> 0,
            reconciling |-> FALSE]
NoReservation == [state |-> "None", cycle |-> None, amount |-> 0,
                  charged |-> 0, held |-> 0]
NoRequest == [state |-> "None", cycle |-> None, propagation |-> "None",
              targetsSession |-> FALSE]
NoPostmortem == [state |-> "None", cause |-> "None", observed |-> 0,
                 reserved |-> 0]
NoSession == [state |-> "None", reservation |-> None, child |-> None,
              purpose |-> "None", prompt |-> NoGeneration]
NoChild == [state |-> "None", cycle |-> None, owner |-> "None",
            reservation |-> None, generation |-> 0]

\* A bootstrapped society: its envelope carries the hard ceiling, and no cycle
\* has been proposed (bootstrap_society, create_budget_envelope).
Init ==
    /\ cycle = [c \in Cycles |-> NoCycle]
    /\ envelope = [e \in Envelopes |->
                     [ceiling |-> IF e = Society THEN HardCeiling ELSE 0,
                      reserved |-> 0, spent |-> 0]]
    /\ reservation = [r \in Reservations |-> NoReservation]
    /\ cancellation = [q \in Requests |-> NoRequest]
    /\ postmortem = [r \in Reservations |-> NoPostmortem]
    /\ session = [c \in Cycles |-> NoSession]
    /\ work = [c \in Cycles |-> "None"]
    /\ child = [k \in Children |-> NoChild]

-----------------------------------------------------------------------------
(* What the handlers count.                                                *)

\* OperatingCycleState::is_nonterminal of a row that exists.
IsNonterminal(c) == cycle[c].state \notin {"None", "Closed"}

\* OperatingCycleState::admits_task_work.
AdmitsTaskWork(c) == cycle[c].state = "Running"

ActiveCancellations(c) ==
    {q \in Requests : /\ cancellation[q].cycle = c
                      /\ cancellation[q].state \in {"Accepted", "Propagating"}}

UnreconciledReservations(c) ==
    {r \in Reservations : /\ reservation[r].cycle = c
                          /\ reservation[r].state \in {"Reserved", "Frozen"}}

HasLiveSession(c) ==
    session[c].state \in {"Reserved", "Ready", "TurnActive", "Quiescing"}

\* active_office_turn_count # 0.
HasActiveTurn(c) == session[c].state = "TurnActive"

\* A row of native_children exists, whatever became of the process.
IsSpawned(k) == child[k].state \notin {"None", "Admitted", "Invalidated"}

SpawnedChildren(c) == {k \in Children : child[k].cycle = c /\ IsSpawned(k)}

\* live_native_child_count counts every child that is not Finalized: one whose
\* parentage or containment was lost still counts.
LiveChildren(c) == {k \in SpawnedChildren(c) : child[k].state # "Finalized"}

\* Every Pi spawn admission has a sidecar, whatever its state.
UndisposedWorkspaces(c) == {k \in Children : child[k].cycle = c}

\* The session's supervised child runs and its Pi protocol is SessionReady.
ChildIsOperational(c) ==
    /\ session[c].child # None
    /\ child[session[c].child].state = "Running"

\* No lease, attempt or child of the cycle is live.
OwnedWorkDrained(c) == work[c] = "None" /\ LiveChildren(c) = {}

\* RequestCancellation, ResumeOperatingCycle and CloseCostPostmortem are
\* refused for a qualification cycle, and so are Office and actor work.
NotFencedByTreatment(c) == cycle[c].treatment = "Office"

-----------------------------------------------------------------------------
(* Effects shared by several handlers.                                     *)

TransitionCycle(c, state, generation) ==
    cycle' = [cycle EXCEPT ![c].state = state, ![c].generation = generation]

\* The two envelopes of reservation r release released and spend spent.
Charge(c, released, spent) ==
    envelope' = [e \in Envelopes |->
                   IF e \in {Society, c}
                   THEN [ceiling |-> envelope[e].ceiling,
                         reserved |-> envelope[e].reserved - released,
                         spent |-> envelope[e].spent + spent]
                   ELSE envelope[e]]

\* A mutant: only live reservations are compared with the ceiling.
FitsWithoutSpent(e, amount) ==
    envelope[e].reserved + amount <= envelope[e].ceiling

\* The check of reserve_budget against one envelope.
Fits(e, amount) ==
    envelope[e].reserved + amount + envelope[e].spent <= envelope[e].ceiling

\* reserve_budget and reserve_attempt_budget: the same checks and effects.
InsertReservation(r, c, amount) ==
    /\ amount > 0
    /\ Fits(Society, amount)
    /\ Fits(c, amount)
    /\ reservation[r].state = "None"
    /\ reservation' = [reservation EXCEPT ![r] =
                         [state |-> "Reserved", cycle |-> c, amount |-> amount,
                          charged |-> 0, held |-> amount]]
    /\ Charge(c, -amount, 0)

InsertCancellation(q, c) ==
    /\ cancellation[q].state = "None"
    /\ cancellation' = [cancellation EXCEPT ![q] =
                          [state |-> "Accepted", cycle |-> c,
                           propagation |-> "None", targetsSession |-> FALSE]]

\* freeze_budget_admission: hold what remains of the reservation, fence the
\* cycle whatever state it is in, make sure a cancellation duty is active and
\* open the reservation's Postmortem.
Freeze(r, cause, observed) ==
    LET c == reservation[r].cycle IN
    /\ reservation' = [reservation EXCEPT ![r].state = "Frozen"]
    /\ cycle[c].generation < MaxGeneration
    /\ TransitionCycle(c, "Cancelling", cycle[c].generation + 1)
    /\ IF ActiveCancellations(c) = {}
       THEN \E q \in Requests : InsertCancellation(q, c)
       ELSE UNCHANGED cancellation
    /\ postmortem' = [postmortem EXCEPT ![r] =
                        [state |-> "Open", cause |-> cause,
                         observed |-> observed,
                         reserved |-> reservation[r].amount - reservation[r].charged]]
    /\ UNCHANGED envelope

\* The reservation settles at a known cumulative cost within its amount: both
\* envelopes release everything still held and spend what was not yet charged.
\* left is what the charge rows show afterwards: only Dispose clears them.
SettleKnown(r, observed, left) ==
    /\ Charge(reservation[r].cycle, reservation[r].held,
              observed - reservation[r].charged)
    /\ reservation' = [reservation EXCEPT ![r].state = "Reconciled",
                                          ![r].charged = observed,
                                          ![r].held = left]
    /\ UNCHANGED <<cycle, cancellation, postmortem>>

-----------------------------------------------------------------------------
(* Cycle lifecycle.                                                        *)

ProposeOperatingCycle(c, treatment, ceiling) ==
    /\ ceiling > 0 /\ ceiling <= HardCeiling
    /\ \A d \in Cycles : ~IsNonterminal(d)
    /\ cycle[c].state = "None"
    /\ cycle' = [cycle EXCEPT ![c] = [NoCycle EXCEPT !.state = "Proposed",
                                                     !.treatment = treatment]]
    /\ envelope' = [envelope EXCEPT ![c] = [ceiling |-> ceiling,
                                            reserved |-> 0, spent |-> 0]]
    /\ UNCHANGED <<reservation, cancellation, postmortem, session, work, child>>

AdmitOperatingCycle(c) ==
    /\ cycle[c].state = "Proposed"
    /\ TransitionCycle(c, "Admitted", cycle[c].generation)
    /\ UNCHANGED <<envelope, reservation, cancellation, postmortem, session,
                   work, child>>

StartRootAuthorityOfficeSession(c) ==
    /\ NotFencedByTreatment(c)
    /\ cycle[c].state = "Admitted"
    /\ TransitionCycle(c, "Running", cycle[c].generation)
    /\ session' = [session EXCEPT ![c] = [NoSession EXCEPT !.state = "Reserved"]]
    /\ UNCHANGED <<envelope, reservation, cancellation, postmortem, work, child>>

StartNativeExecutionProfileQualification(c) ==
    /\ cycle[c].treatment = "Qualification"
    /\ cycle[c].state = "Admitted"
    /\ TransitionCycle(c, "Running", cycle[c].generation)
    /\ UNCHANGED <<envelope, reservation, cancellation, postmortem, session,
                   work, child>>

\* A mutant: quiescing keeps the admission generation.
QuiesceWithoutGeneration(c) ==
    /\ cycle[c].state \in {"Admitted", "Running"}
    /\ TransitionCycle(c, "Quiescing", cycle[c].generation)
    /\ UNCHANGED <<envelope, reservation, cancellation, postmortem, session,
                   work, child>>

QuiesceOperatingCycle(c) ==
    /\ cycle[c].state \in {"Admitted", "Running"}
    /\ cycle[c].generation < MaxGeneration
    /\ TransitionCycle(c, "Quiescing", cycle[c].generation + 1)
    /\ UNCHANGED <<envelope, reservation, cancellation, postmortem, session,
                   work, child>>

\* A mutant: a drained cycle forgets that its quiescence was a cancellation.
DrainIgnoringCancellation(c) ==
    /\ cycle[c].state = "Quiescing"
    /\ ~HasActiveTurn(c)
    /\ OwnedWorkDrained(c)
    /\ TransitionCycle(c, "Drained", cycle[c].generation)
    /\ UNCHANGED <<envelope, reservation, cancellation, postmortem, session,
                   work, child>>

\* A Quiesce-mode cancellation stays a duty: its cycle drains into Cancelling.
RecordCycleDrained(c) ==
    /\ cycle[c].state = "Quiescing"
    /\ ~HasActiveTurn(c)
    /\ OwnedWorkDrained(c)
    /\ TransitionCycle(c, IF ActiveCancellations(c) # {} THEN "Cancelling"
                                                         ELSE "Drained",
                       cycle[c].generation)
    /\ UNCHANGED <<envelope, reservation, cancellation, postmortem, session,
                   work, child>>

\* A mutant: resuming only looks at cancellations, not at unresolved cost.
ResumeIgnoringCost(c) ==
    /\ NotFencedByTreatment(c)
    /\ cycle[c].state = "Drained"
    /\ ActiveCancellations(c) = {}
    /\ OwnedWorkDrained(c)
    /\ UndisposedWorkspaces(c) = {}
    /\ TransitionCycle(c, "Running", cycle[c].generation)
    /\ UNCHANGED <<envelope, reservation, cancellation, postmortem, session,
                   work, child>>

ResumeOperatingCycle(c) ==
    /\ NotFencedByTreatment(c)
    /\ cycle[c].state = "Drained"
    /\ UnreconciledReservations(c) = {}
    /\ ActiveCancellations(c) = {}
    /\ OwnedWorkDrained(c)
    /\ UndisposedWorkspaces(c) = {}
    /\ TransitionCycle(c, "Running", cycle[c].generation)
    /\ UNCHANGED <<envelope, reservation, cancellation, postmortem, session,
                   work, child>>

\* begin_reconciliation. The insert into operating_cycle_reconciliations fails
\* when the cycle already has its row.
ReconcileOperatingCycle(c) ==
    /\ cycle[c].state = "Drained"
    /\ ~cycle[c].reconciling
    /\ cycle' = [cycle EXCEPT ![c].state = "Reconciling", ![c].reconciling = TRUE]
    /\ UNCHANGED <<envelope, reservation, cancellation, postmortem, session,
                   work, child>>

\* A mutant: closing does not wait for outstanding reservations.
CloseIgnoringReservations(c) ==
    /\ cycle[c].state = "Reconciling"
    /\ ~HasLiveSession(c)
    /\ ActiveCancellations(c) = {}
    /\ OwnedWorkDrained(c)
    /\ TransitionCycle(c, "Closed", cycle[c].generation)
    /\ UNCHANGED <<envelope, reservation, cancellation, postmortem, session,
                   work, child>>

CloseOperatingCycle(c) ==
    /\ cycle[c].state = "Reconciling"
    /\ ~HasLiveSession(c)
    /\ UnreconciledReservations(c) = {}
    /\ ActiveCancellations(c) = {}
    /\ OwnedWorkDrained(c)
    /\ TransitionCycle(c, "Closed", cycle[c].generation)
    /\ UNCHANGED <<envelope, reservation, cancellation, postmortem, session,
                   work, child>>

-----------------------------------------------------------------------------
(* Budget.                                                                 *)

ReserveBudget(r, c, amount) ==
    /\ AdmitsTaskWork(c)
    /\ InsertReservation(r, c, amount)
    /\ UNCHANGED <<cycle, cancellation, postmortem, session, work, child>>

\* The reservation of an Office session is settled by its turns and its
\* Dispose, never by the generic command.
IsOfficeReservation(r) == \E c \in Cycles : session[c].reservation = r

\* A mutant: a second cost receipt is applied to a reconciled reservation.
ReconcileKnownAgain(r, observed) ==
    /\ reservation[r].state \in {"Reserved", "Reconciled"}
    /\ ~IsOfficeReservation(r)
    /\ IF observed > reservation[r].amount
       THEN Freeze(r, "KnownOverrun", observed)
       ELSE SettleKnown(r, observed, reservation[r].held)
    /\ UNCHANGED <<session, work, child>>

\* reconcile_budget with CostObservation::Known. No generation and no cycle
\* state is checked: cost is a fact, whenever it arrives.
ReconcileKnownBudget(r, observed) ==
    /\ reservation[r].state = "Reserved"
    /\ ~IsOfficeReservation(r)
    /\ observed >= reservation[r].charged
    /\ IF observed > reservation[r].amount
       THEN Freeze(r, "KnownOverrun", observed)
       ELSE SettleKnown(r, observed, reservation[r].held)
    /\ UNCHANGED <<session, work, child>>

\* reconcile_budget with CostObservation::Unknown or ::Unavailable, which
\* differ only in the recorded reason.
ReconcileUnknownBudget(r) ==
    /\ reservation[r].state = "Reserved"
    /\ ~IsOfficeReservation(r)
    /\ Freeze(r, "UnknownCost", 0)
    /\ UNCHANGED <<session, work, child>>

\* A mutant: uncertain accounting is resolved as if nothing had been spent.
PostmortemChargeNothing(r) ==
    IF postmortem[r].cause = "KnownOverrun"
    THEN postmortem[r].observed - reservation[r].charged
    ELSE 0

\* What closing the Postmortem of r charges: the observed overrun, or all that
\* was held when the cost is not known.
PostmortemCharge(r) ==
    IF postmortem[r].cause = "KnownOverrun"
    THEN postmortem[r].observed - reservation[r].charged
    ELSE postmortem[r].reserved

\* A mutant: the freed amount is taken from the reservation, not from what the
\* charge rows still hold.
ClosePostmortemReleasingAmount(r) ==
    LET c == reservation[r].cycle
        charged == PostmortemCharge(r) IN
    /\ postmortem[r].state = "Open"
    /\ reservation[r].state = "Frozen"
    /\ NotFencedByTreatment(c)
    /\ cycle[c].state \in {"Drained", "Reconciling"}
    /\ ActiveCancellations(c) = {}
    /\ Charge(c, reservation[r].amount, charged)
    /\ reservation' = [reservation EXCEPT ![r].state = "Reconciled",
                                          ![r].charged = @ + charged]
    /\ postmortem' = [postmortem EXCEPT ![r].state = "Closed"]
    /\ UNCHANGED <<cycle, cancellation, session, work, child>>

\* A mutant: the reservation row is given the Postmortem's state.
ClosePostmortemWrongState(r) ==
    LET c == reservation[r].cycle IN
    /\ postmortem[r].state = "Open"
    /\ NotFencedByTreatment(c)
    /\ cycle[c].state \in {"Drained", "Reconciling"}
    /\ ActiveCancellations(c) = {}
    /\ Charge(c, reservation[r].held, PostmortemCharge(r))
    /\ reservation' = [reservation EXCEPT ![r].state = "Closed"]
    /\ postmortem' = [postmortem EXCEPT ![r].state = "Closed"]
    /\ UNCHANGED <<cycle, cancellation, session, work, child>>

\* close_cost_postmortem with the one resolution its cause admits.
CloseCostPostmortem(r) ==
    LET c == reservation[r].cycle
        charged == PostmortemCharge(r) IN
    /\ postmortem[r].state = "Open"
    /\ reservation[r].state = "Frozen"
    /\ NotFencedByTreatment(c)
    /\ cycle[c].state \in {"Drained", "Reconciling"}
    /\ ActiveCancellations(c) = {}
    /\ reservation[r].amount - reservation[r].charged = postmortem[r].reserved
    /\ postmortem[r].cause = "KnownOverrun" => charged >= postmortem[r].reserved
    /\ Charge(c, reservation[r].held, charged)
    /\ reservation' = [reservation EXCEPT ![r].state = "Reconciled",
                                          ![r].charged = @ + charged]
    /\ postmortem' = [postmortem EXCEPT ![r].state = "Closed"]
    /\ UNCHANGED <<cycle, cancellation, session, work, child>>

-----------------------------------------------------------------------------
(* Cancellation.                                                           *)

\* GracefulCancel and EmergencyStop have the same effect on the kernel's
\* state; mode "Quiesce" lets the cycle drain first. The partial unique index
\* one_active_cancellation_per_cycle rejects a second active request.
RequestCancellation(q, c, mode) ==
    /\ NotFencedByTreatment(c)
    /\ cycle[c].state \in {"Proposed", "Admitted", "Running", "Quiescing", "Drained"}
    /\ ActiveCancellations(c) = {}
    /\ cycle[c].generation < MaxGeneration
    /\ TransitionCycle(c, IF mode = "Quiesce" THEN "Quiescing" ELSE "Cancelling",
                       cycle[c].generation + 1)
    /\ InsertCancellation(q, c)
    /\ UNCHANGED <<envelope, reservation, postmortem, session, work, child>>

\* begin_cancellation_propagation. The snapshot names the cycle's live session
\* (and its live attempts, whose own children are not modelled here); a child
\* owned by a qualification cycle is not in any target. One propagation per
\* request.
BeginCancellationPropagation(q) ==
    LET c == cancellation[q].cycle IN
    /\ cancellation[q].state \in {"Accepted", "Propagating"}
    /\ cancellation[q].propagation = "None"
    /\ cycle[c].state = "Cancelling"
    /\ cancellation' = [cancellation EXCEPT ![q] =
                          [state |-> "Propagating", cycle |-> c,
                           propagation |-> "Propagating",
                           targetsSession |-> HasLiveSession(c)]]
    /\ UNCHANGED <<cycle, envelope, reservation, postmortem, session, work, child>>

\* The child a propagation waits for, if its session has one.
TargetChildren(q) ==
    {k \in Children : /\ cancellation[q].targetsSession
                      /\ session[cancellation[q].cycle].child = k}

\* A target awaits its child's receipt from admission until the process is
\* finalized or its parentage is lost.
AwaitsReceipt(k) ==
    child[k].state \in {"Admitted", "Spawned", "Created", "Running", "Ending"}

\* reconcile_cancellation_propagation.
ReconcileCancellationPropagation(q) ==
    /\ cancellation[q].propagation = "Propagating"
    /\ LET failed == {k \in TargetChildren(q) : child[k].state = "ContainmentFailed"} IN
       \/ /\ failed # {}
          /\ cancellation' = [cancellation EXCEPT ![q].propagation = "ContainmentFailed"]
       \/ /\ failed = {}
          /\ \A k \in TargetChildren(q) : ~AwaitsReceipt(k)
          /\ cancellation' = [cancellation EXCEPT ![q].propagation = "Reconciled"]
    /\ UNCHANGED <<cycle, envelope, reservation, postmortem, session, work, child>>

\* reconcile_cancellation. A live session includes one with an active turn.
ReconcileCancellation(q) ==
    LET c == cancellation[q].cycle IN
    /\ cancellation[q].state \in {"Accepted", "Propagating"}
    /\ cycle[c].state = "Cancelling"
    /\ ~HasLiveSession(c)
    /\ SpawnedChildren(c) # {} => cancellation[q].propagation = "Reconciled"
    /\ cancellation' = [cancellation EXCEPT ![q].state = "Completed"]
    /\ TransitionCycle(c, "Drained", cycle[c].generation)
    /\ UNCHANGED <<envelope, reservation, postmortem, session, work, child>>

-----------------------------------------------------------------------------
(* The Office session and its turn.                                        *)

RecordOfficeSessionReady(c) ==
    /\ session[c].state = "Reserved"
    /\ cycle[c].state = "Running"
    /\ ChildIsOperational(c)
    /\ session' = [session EXCEPT ![c].state = "Ready"]
    /\ UNCHANGED <<cycle, envelope, reservation, cancellation, postmortem, work, child>>

\* record_office_session_terminal: only a session without a supervised child
\* may be classified by this receipt. Such a session is never Ready, so Closed
\* is unreachable here.
RecordOfficeSessionTerminal(c, terminal) ==
    /\ session[c].child = None
    /\ \/ /\ terminal = "Cancelled"
          /\ session[c].state \in {"Reserved", "Ready"}
          /\ cycle[c].state = "Cancelling"
       \/ /\ terminal = "Failed"
          /\ HasLiveSession(c) /\ ~HasActiveTurn(c)
          /\ IsNonterminal(c)
    /\ session' = [session EXCEPT ![c].state = terminal]
    /\ UNCHANGED <<cycle, envelope, reservation, cancellation, postmortem, work, child>>

\* Recovery, Cancellation and Closure turns are admitted alike.
OpenOfficeTurn(c, purpose) ==
    /\ session[c].state = "Ready"
    /\ ChildIsOperational(c)
    /\ \/ purpose = "OrdinaryWork" /\ AdmitsTaskWork(c)
       \/ purpose = "Closure" /\ cycle[c].state \in {"Quiescing", "Drained", "Reconciling"}
    /\ session' = [session EXCEPT ![c].state = "TurnActive",
                                  ![c].purpose = purpose,
                                  ![c].prompt = NoGeneration]
    /\ UNCHANGED <<cycle, envelope, reservation, cancellation, postmortem, work, child>>

\* authorize_pi_office_turn_prompt, up to the delivery and acceptance receipts
\* that follow it. One authorization per turn.
AuthorizePiOfficeTurnPrompt(c) ==
    /\ HasActiveTurn(c)
    /\ session[c].purpose = "OrdinaryWork"
    /\ session[c].prompt = NoGeneration
    /\ cycle[c].state = "Running"
    /\ ChildIsOperational(c)
    /\ ActiveCancellations(c) = {}
    /\ reservation[session[c].reservation].state = "Reserved"
    /\ session' = [session EXCEPT ![c].prompt = cycle[c].generation]
    /\ UNCHANGED <<cycle, envelope, reservation, cancellation, postmortem, work, child>>

\* A mutant: the charge rows keep what the turn has spent.
SettleTurnKeepingHold(c, observed) ==
    LET r == session[c].reservation
        delta == observed - reservation[r].charged IN
    /\ HasActiveTurn(c)
    /\ session[c].prompt = cycle[c].generation
    /\ cycle[c].state = "Running"
    /\ reservation[r].state = "Reserved"
    /\ observed >= reservation[r].charged
    /\ observed <= reservation[r].amount
    /\ Charge(c, delta, delta)
    /\ reservation' = [reservation EXCEPT ![r].charged = @ + delta]
    /\ session' = [session EXCEPT ![c].state = "Ready", ![c].purpose = "None",
                                  ![c].prompt = NoGeneration]
    /\ UNCHANGED <<cycle, cancellation, postmortem, work, child>>

\* settle_office_turn at the turn's cumulative cost. An overrun freezes and
\* leaves the turn active.
SettleOfficeTurn(c, observed) ==
    LET r == session[c].reservation
        delta == observed - reservation[r].charged IN
    /\ HasActiveTurn(c)
    /\ session[c].prompt = cycle[c].generation
    /\ cycle[c].state = "Running"
    /\ ActiveCancellations(c) = {}
    /\ ChildIsOperational(c)
    /\ reservation[r].state = "Reserved"
    /\ observed >= reservation[r].charged
    /\ \/ /\ observed > reservation[r].amount
          /\ Freeze(r, "KnownOverrun", observed)
          /\ UNCHANGED session
       \/ /\ observed <= reservation[r].amount
          /\ delta <= reservation[r].held
          /\ Charge(c, delta, delta)
          /\ reservation' = [reservation EXCEPT ![r].charged = @ + delta,
                                                ![r].held = @ - delta]
          /\ session' = [session EXCEPT ![c].state = "Ready",
                                        ![c].purpose = "None",
                                        ![c].prompt = NoGeneration]
          /\ UNCHANGED <<cycle, cancellation, postmortem>>
    /\ UNCHANGED <<work, child>>

\* record_pi_office_turn_usage_failure: the turn's cost cannot be known. The
\* cycle's state and generation are not checked.
RecordPiOfficeTurnUsageFailure(c) ==
    LET r == session[c].reservation IN
    /\ HasActiveTurn(c)
    /\ session[c].prompt # NoGeneration
    /\ reservation[r].state = "Reserved"
    /\ Freeze(r, "UnknownCost", 0)
    /\ UNCHANGED <<session, work, child>>

\* authorize_pi_office_session_dispose and the delivery and acceptance
\* receipts that follow it.
AuthorizePiOfficeSessionDispose(c) ==
    /\ session[c].state = "Ready"
    /\ cycle[c].state = "Quiescing"
    /\ ChildIsOperational(c)
    /\ reservation[session[c].reservation].state = "Reserved"
    /\ session' = [session EXCEPT ![c].state = "Quiescing"]
    /\ UNCHANGED <<cycle, envelope, reservation, cancellation, postmortem, work, child>>

\* record_pi_office_session_disposed: the remainder of the session's
\* reservation. It is fenced by the generation of its own authorization, so it
\* is accepted in whatever state the cycle is by then.
RecordPiOfficeSessionDisposed(c, observed) ==
    LET r == session[c].reservation IN
    /\ session[c].state = "Quiescing"
    /\ reservation[r].state = "Reserved"
    /\ observed >= reservation[r].charged
    /\ \/ /\ observed > reservation[r].amount
          /\ Freeze(r, "KnownOverrun", observed)
          /\ session' = [session EXCEPT ![c].state = "Cancelled"]
       \/ /\ observed <= reservation[r].amount
          /\ observed - reservation[r].charged <= reservation[r].held
          /\ SettleKnown(r, observed, 0)
          /\ session' = [session EXCEPT ![c].state = "Closed"]
    /\ UNCHANGED <<work, child>>

RecordPiOfficeSessionDisposeUsageFailure(c) ==
    LET r == session[c].reservation IN
    /\ session[c].state = "Quiescing"
    /\ reservation[r].state = "Reserved"
    /\ Freeze(r, "UnknownCost", 0)
    /\ UNCHANGED <<session, work, child>>

-----------------------------------------------------------------------------
(* The work item of a cycle, coarsely: a lease, then an attempt under it.  *)

ClaimWorkItem(c) ==
    /\ NotFencedByTreatment(c)
    /\ AdmitsTaskWork(c)
    /\ work[c] = "None"
    /\ work' = [work EXCEPT ![c] = "Leased"]
    /\ UNCHANGED <<cycle, envelope, reservation, cancellation, postmortem, session, child>>

\* start_actor_attempt reserves the attempt's budget in the same command.
StartActorAttempt(c, r, amount) ==
    /\ AdmitsTaskWork(c)
    /\ work[c] = "Leased"
    /\ InsertReservation(r, c, amount)
    /\ work' = [work EXCEPT ![c] = "Attempting"]
    /\ UNCHANGED <<cycle, cancellation, postmortem, session, child>>

\* A terminal attempt releases or cancels its lease.
AttestActorAttemptTerminal(c) ==
    /\ work[c] = "Attempting"
    /\ work' = [work EXCEPT ![c] = "None"]
    /\ UNCHANGED <<cycle, envelope, reservation, cancellation, postmortem, session, child>>

ExpireWorkLease(c) ==
    /\ work[c] = "Leased"
    /\ work' = [work EXCEPT ![c] = "None"]
    /\ UNCHANGED <<cycle, envelope, reservation, cancellation, postmortem, session, child>>

-----------------------------------------------------------------------------
(* Native children, coarsely.                                              *)

\* A session has at most one spawn admission, and a reservation is bound to at
\* most one session.
AdmitPiChildSpawn(k, c, r, owner) ==
    /\ cycle[c].state = "Running"
    /\ reservation[r].cycle = c
    /\ reservation[r].state = "Reserved"
    /\ child[k].state = "None"
    /\ \/ /\ owner = "Session"
          /\ session[c].state \in {"Reserved", "Ready", "TurnActive"}
          /\ session[c].child = None
          /\ ~IsOfficeReservation(r)
          /\ session' = [session EXCEPT ![c].child = k, ![c].reservation = r]
       \/ /\ owner = "Qualification"
          /\ cycle[c].treatment = "Qualification"
          /\ UNCHANGED session
    /\ child' = [child EXCEPT ![k] = [state |-> "Admitted", cycle |-> c,
                                      owner |-> owner, reservation |-> r,
                                      generation |-> cycle[c].generation]]
    /\ UNCHANGED <<cycle, envelope, reservation, cancellation, postmortem, work>>

SetChild(k, state) ==
    /\ child' = [child EXCEPT ![k].state = state]
    /\ UNCHANGED <<cycle, envelope, reservation, cancellation, postmortem, session, work>>

\* A mutant: a spawn recorded after its absence was.
RecordSpawnTwice(k) ==
    /\ child[k].state \in {"Admitted", "Invalidated"}
    /\ SetChild(k, "Spawned")

\* record_inert_child_spawn: a recovery receipt, recordable in every state and
\* generation of the cycle so that a raced child is never orphaned.
RecordInertChildSpawn(k) ==
    /\ child[k].state = "Admitted"
    /\ SetChild(k, "Spawned")

RecordNativeChildNotSpawned(k) ==
    /\ child[k].state = "Admitted"
    /\ SetChild(k, "Invalidated")

\* The owner of child k still is what its admission named.
OwnerIsActive(k) ==
    child[k].owner = "Session" =>
        session[child[k].cycle].state \in {"Reserved", "Ready", "TurnActive"}

\* authorize_pi_create_session: the strict generation fence of a spawn.
AuthorizePiCreateSession(k) ==
    LET c == child[k].cycle IN
    /\ child[k].state = "Spawned"
    /\ cycle[c].state = "Running"
    /\ child[k].generation = cycle[c].generation
    /\ reservation[child[k].reservation].state = "Reserved"
    /\ ActiveCancellations(c) = {}
    /\ OwnerIsActive(k)
    /\ SetChild(k, "Created")

RecordPiSessionReady(k) ==
    /\ child[k].state = "Created"
    /\ SetChild(k, "Running")

\* The custody receipts of a child, coarsely: signals and the wait of the
\* direct child, lost parentage, failed containment, finalization.
RecordChildCustody(k, state) ==
    /\ \/ /\ child[k].state \in {"Spawned", "Created", "Running"}
          /\ state \in {"Ending", "LostParentage", "ContainmentFailed"}
       \/ /\ child[k].state = "Ending"
          /\ state \in {"LostParentage", "ContainmentFailed", "Finalized"}
    /\ SetChild(k, state)

-----------------------------------------------------------------------------
(* The specification.                                                      *)

NextCycle(c) ==
    \/ \E treatment \in Treatments, ceiling \in Ceilings :
           ProposeOperatingCycle(c, treatment, ceiling)
    \/ AdmitOperatingCycle(c)
    \/ StartRootAuthorityOfficeSession(c)
    \/ StartNativeExecutionProfileQualification(c)
    \/ QuiesceOperatingCycle(c)
    \/ RecordCycleDrained(c)
    \/ ResumeOperatingCycle(c)
    \/ ReconcileOperatingCycle(c)
    \/ CloseOperatingCycle(c)

NextBudget(r) ==
    \/ \E c \in Cycles, amount \in Amounts : ReserveBudget(r, c, amount)
    \/ \E observed \in Observations : ReconcileKnownBudget(r, observed)
    \/ ReconcileUnknownBudget(r)
    \/ CloseCostPostmortem(r)

NextCancellation(q) ==
    \/ \E c \in Cycles, mode \in {"Quiesce", "GracefulCancel"} :
           RequestCancellation(q, c, mode)
    \/ BeginCancellationPropagation(q)
    \/ ReconcileCancellationPropagation(q)
    \/ ReconcileCancellation(q)

NextOffice(c) ==
    \/ RecordOfficeSessionReady(c)
    \/ \E terminal \in {"Cancelled", "Failed"} :
           RecordOfficeSessionTerminal(c, terminal)
    \/ \E purpose \in {"OrdinaryWork", "Closure"} : OpenOfficeTurn(c, purpose)
    \/ AuthorizePiOfficeTurnPrompt(c)
    \/ \E observed \in Observations : SettleOfficeTurn(c, observed)
    \/ RecordPiOfficeTurnUsageFailure(c)
    \/ AuthorizePiOfficeSessionDispose(c)
    \/ \E observed \in Observations : RecordPiOfficeSessionDisposed(c, observed)
    \/ RecordPiOfficeSessionDisposeUsageFailure(c)

NextWork(c) ==
    \/ ClaimWorkItem(c)
    \/ \E r \in Reservations, amount \in Amounts : StartActorAttempt(c, r, amount)
    \/ AttestActorAttemptTerminal(c)
    \/ ExpireWorkLease(c)

NextChild(k) ==
    \/ \E c \in Cycles, r \in Reservations, owner \in {"Session", "Qualification"} :
           AdmitPiChildSpawn(k, c, r, owner)
    \/ RecordInertChildSpawn(k)
    \/ RecordNativeChildNotSpawned(k)
    \/ AuthorizePiCreateSession(k)
    \/ RecordPiSessionReady(k)
    \/ \E state \in {"Ending", "LostParentage", "ContainmentFailed", "Finalized"} :
           RecordChildCustody(k, state)

Next ==
    \/ \E c \in Cycles : NextCycle(c) \/ NextOffice(c) \/ NextWork(c)
    \/ \E r \in Reservations : NextBudget(r)
    \/ \E q \in Requests : NextCancellation(q)
    \/ \E k \in Children : NextChild(k)

Spec == Init /\ [][Next]_vars

-----------------------------------------------------------------------------
(* Budget properties.                                                      *)

\* The reservations an envelope carries.
ChargedTo(e) ==
    {r \in Reservations : /\ reservation[r].state # "None"
                          /\ e = Society \/ reservation[r].cycle = e}

\* What each reservation still holds of its envelopes, and was charged.
Holdings ==
    [r \in Reservations |->
        IF reservation[r].state \in {"Reserved", "Frozen"} THEN reservation[r].held ELSE 0]
Charges == [r \in Reservations |-> reservation[r].charged]

\* Known cost reconciles exactly: whatever the order of turns, settlements,
\* freezes and Postmortems, both counters of every envelope (store.rs updates
\* them by increments in eight handlers) are the sums over its reservations of
\* what they still hold and of what they were charged.
EnvelopeAccounting ==
    \A e \in Envelopes :
        /\ envelope[e].reserved = SumFunctionOnSet(Holdings, ChargedTo(e))
        /\ envelope[e].spent = SumFunctionOnSet(Charges, ChargedTo(e))

\* A reservation of the envelope was charged more than it was authorised to.
Overran(e) ==
    \E r \in ChargedTo(e) : reservation[r].charged > reservation[r].amount

\* Budgets are hard ceilings: what is held never exceeds the ceiling of the
\* society or the cycle (the storage CHECK on budget_envelopes, so no
\* settlement is refused by it), and what is held and spent together exceeds it
\* only after the provider reported more than a reservation had authorised.
CeilingHeld ==
    \A e \in Envelopes :
        /\ envelope[e].reserved <= envelope[e].ceiling
        /\ ~Overran(e) => envelope[e].reserved + envelope[e].spent <= envelope[e].ceiling

\* A Reserved or Frozen reservation has not been charged more than its
\* authorisation, and its charge rows hold exactly the rest of it: turns that
\* settle in increments, and the Dispose or freeze that follows, agree on it.
ReservationHold ==
    \A r \in Reservations :
        reservation[r].state \in {"Reserved", "Frozen"} =>
            /\ reservation[r].charged <= reservation[r].amount
            /\ reservation[r].held = reservation[r].amount - reservation[r].charged

\* Unknown cost freezes later paid admission: while a reservation is Frozen its
\* Postmortem is open and its cycle is past every state that admits work, and
\* can neither be resumed nor closed (resume_cycle, close_cycle).
FrozenCostFencesAdmission ==
    \A r \in Reservations :
        /\ reservation[r].state = "Frozen" <=> postmortem[r].state = "Open"
        /\ reservation[r].state = "Frozen" =>
               cycle[reservation[r].cycle].state
                   \in {"Quiescing", "Cancelling", "Drained", "Reconciling"}

\* Unknown cost never becomes zero: a resolved Postmortem charged the whole
\* authorisation, or the observed overrun where the cost was known.
ResolvedCostIsCharged ==
    \A r \in Reservations :
        postmortem[r].state = "Closed" =>
            /\ reservation[r].state = "Reconciled"
            /\ reservation[r].charged =
                   IF postmortem[r].cause = "KnownOverrun" THEN postmortem[r].observed
                                                           ELSE reservation[r].amount

\* Cost is never taken back: no step lowers what an envelope has spent or a
\* reservation was charged, and a reconciled reservation is final.
CostIsFinal ==
    [][/\ \A e \in Envelopes : envelope'[e].spent >= envelope[e].spent
       /\ \A r \in Reservations :
            /\ reservation'[r].charged >= reservation[r].charged
            /\ reservation[r].state = "Reconciled" => reservation'[r] = reservation[r]]_vars

-----------------------------------------------------------------------------
(* Lifecycle properties.                                                   *)

\* One Operating Cycle at a time: proposing waits for the last one to close,
\* and no late receipt (a freeze moves a cycle from any state to Cancelling)
\* reopens a closed cycle.
AtMostOneOpenCycle ==
    \A c, d \in Cycles : IsNonterminal(c) /\ IsNonterminal(d) => c = d

\* A closed cycle left nothing behind: every reservation is reconciled, no
\* cancellation is active, its Office session ended and its work is over.
ClosedIsSettled ==
    \A c \in Cycles :
        cycle[c].state = "Closed" =>
            /\ UnreconciledReservations(c) = {}
            /\ ActiveCancellations(c) = {}
            /\ ~HasLiveSession(c)
            /\ work[c] = "None"

\* A closed cycle is final, whatever receipts still arrive: no late cost,
\* freeze, Postmortem or cancellation touches its row, its envelope, its session,
\* its work or its reservations, none is added to it, and a child whose spawn is
\* recorded only now (record_inert_child_spawn accepts it in every state of the
\* cycle) is never authorised to create a session nor reported ready.
ClosedIsFinal ==
    [][\A c \in Cycles :
          cycle[c].state = "Closed" =>
              /\ cycle'[c] = cycle[c] /\ envelope'[c] = envelope[c]
              /\ session'[c] = session[c] /\ work'[c] = work[c]
              /\ ChargedTo(c)' = ChargedTo(c)
              /\ \A r \in ChargedTo(c) : reservation'[r] = reservation[r]
              /\ \A k \in Children :
                     child'[k].cycle = c => child'[k].state \notin {"Created", "Running"}]_vars

\* The children of the cycles, their handshake one command at a time and the
\* rest of their custody coarsely, follow the lifecycle the custody ledger
\* promises, whatever becomes of their cycle meanwhile.
Custody == INSTANCE ChildCustody WITH life <- [k \in Children |-> child[k].state]
ChildrenFollowCustody == Custody!Spec

\* A cancellation duty fences its cycle until it is reconciled, whether the
\* duty came from a request or from a freeze, a cycle has at most one, and a
\* cycle is Cancelling only while somebody has that duty.
CancellationFences ==
    \A c \in Cycles :
        /\ ActiveCancellations(c) # {} => cycle[c].state \in {"Quiescing", "Cancelling"}
        /\ cycle[c].state = "Cancelling" => ActiveCancellations(c) # {}
        /\ \A p, q \in ActiveCancellations(c) : p = q

\* The admission generation fences: what was admitted or authorised at the
\* current generation (a spawn admission, a prompt) finds its cycle Running,
\* without a cancellation and without a frozen reservation. Every way out of
\* Running must therefore advance the generation, and no way back in may
\* revive what was admitted before.
GenerationFences ==
    \A c \in Cycles :
        (\/ \E k \in Children : child[k].cycle = c /\ child[k].generation = cycle[c].generation
         \/ session[c].prompt = cycle[c].generation)
        => /\ cycle[c].state = "Running"
           /\ ActiveCancellations(c) = {}
           /\ \A r \in UnreconciledReservations(c) : reservation[r].state = "Reserved"

\* What the comment in resume_cycle says of a child whose workspace nothing
\* disposes of yet: "A physically exited child therefore does not make a cycle
\* close-eligible yet".
ExitedChildBarsClosure ==
    \A c \in Cycles :
        cycle[c].state = "Closed" =>
            \A k \in UndisposedWorkspaces(c) : child[k].state # "Finalized"

\* What the comment in resume_cycle says of a drained cycle: "Drained only says
\* that owned execution has stopped".
DrainedOwnsNoExecution ==
    \A c \in Cycles :
        cycle[c].state = "Drained" => ~HasActiveTurn(c) /\ OwnedWorkDrained(c)

\* What the comment of live_native_child_count says of a closed cycle: it
\* "cannot disappear while any process remains live or indeterminate".
ClosedOwnsNoLiveChild ==
    \A c \in Cycles : cycle[c].state = "Closed" => LiveChildren(c) = {}

\* A drained cycle can still be reconciled, and so closed.
DrainedCanReconcile ==
    \A c \in Cycles : cycle[c].state = "Drained" => ~cycle[c].reconciling

-----------------------------------------------------------------------------
(* What the properties above rest on.                                      *)

\* Rows refer to rows that exist: a reservation and a spawn admission to a
\* proposed cycle, an active cancellation to a cycle, and an Office session to
\* a reservation of its own cycle from its spawn admission on, which comes
\* before it can be Ready.
RowsLinked ==
    /\ \A r \in Reservations :
           reservation[r].state # "None" =>
               /\ reservation[r].cycle \in Cycles
               /\ cycle[reservation[r].cycle].state # "None"
    /\ \A r \in Reservations :
           reservation[r].state = "None" => postmortem[r].state = "None"
    /\ \A q \in Requests :
           cancellation[q].state # "None" => cancellation[q].cycle \in Cycles
    /\ \A c \in Cycles :
           /\ session[c].state \in {"Ready", "TurnActive", "Quiescing"} =>
                  session[c].child # None
           /\ session[c].child # None => session[c].reservation # None
           /\ session[c].reservation # None =>
                  /\ reservation[session[c].reservation].state # "None"
                  /\ reservation[session[c].reservation].cycle = c
    /\ \A k \in Children :
           child[k].cycle # None => cycle[child[k].cycle].state # "None"

\* The Postmortem of a reservation: open exactly while it is Frozen, holding
\* what remains of it, and opened for an overrun only beyond its amount.
PostmortemMatches ==
    \A r \in Reservations :
        /\ reservation[r].state = "Frozen" <=> postmortem[r].state = "Open"
        /\ postmortem[r].state = "Open" =>
               /\ postmortem[r].reserved = reservation[r].amount - reservation[r].charged
               /\ postmortem[r].cause = "KnownOverrun" =>
                      postmortem[r].observed > reservation[r].amount
               /\ postmortem[r].cause # "None"
        /\ reservation[r].state = "Reserved" => postmortem[r].state = "None"

\* The fences, each about one row and its cycle.
FrozenFenced ==
    \A r \in Reservations :
        reservation[r].state = "Frozen" =>
            cycle[reservation[r].cycle].state
                \in {"Quiescing", "Cancelling", "Drained", "Reconciling"}

IsActive(q) == cancellation[q].state \in {"Accepted", "Propagating"}

DutyFenced ==
    /\ \A q \in Requests :
           IsActive(q) => cycle[cancellation[q].cycle].state \in {"Quiescing", "Cancelling"}
    /\ \A p, q \in Requests :
           IsActive(p) /\ IsActive(q) /\ cancellation[p].cycle = cancellation[q].cycle => p = q
    /\ \A c \in Cycles :
           cycle[c].state = "Cancelling" =>
               \E q \in Requests : IsActive(q) /\ cancellation[q].cycle = c

NothingLeft ==
    \A c \in Cycles :
        cycle[c].state = "Closed" =>
            /\ \A r \in Reservations :
                   reservation[r].cycle = c => reservation[r].state \notin {"Reserved", "Frozen"}
            /\ ~HasLiveSession(c)
            /\ work[c] = "None"

\* No child of a closed cycle works.
ClosedChildrenInert ==
    \A k \in Children :
        child[k].cycle # None /\ cycle[child[k].cycle].state = "Closed" =>
            child[k].state \notin {"Created", "Running"}

\* Nothing was admitted or authorised at a generation still to come, and what
\* was at the current one finds its cycle Running.
GenerationsFenced ==
    /\ \A c \in Cycles :
           /\ cycle[c].state = "None" => cycle[c].generation = 0
           /\ session[c].prompt <= cycle[c].generation
           /\ session[c].prompt = cycle[c].generation => cycle[c].state = "Running"
    /\ \A k \in Children :
           child[k].cycle # None =>
               /\ child[k].generation <= cycle[child[k].cycle].generation
               /\ child[k].generation = cycle[child[k].cycle].generation =>
                      cycle[child[k].cycle].state = "Running"

\* The inductive invariant: money, then fences.
MoneyInv ==
    /\ TypeOK
    /\ RowsLinked
    /\ ReservationHold
    /\ PostmortemMatches
    /\ ResolvedCostIsCharged
    /\ CeilingHeld

FenceInv ==
    /\ AtMostOneOpenCycle
    /\ FrozenFenced
    /\ DutyFenced
    /\ NothingLeft
    /\ GenerationsFenced

=============================================================================
