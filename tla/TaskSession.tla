----------------------------- MODULE TaskSession -----------------------------
(***************************************************************************)
(* One task attempt from its spawn to the completion of its obligation:    *)
(* the runner and its schedule (task_attempt_scheduler.rs), the driver     *)
(* (pi_execution.rs), the supervisor (supervision.rs), the peer that       *)
(* judges every frame (peer.rs) and the receipts of the kernel.            *)
(*                                                                         *)
(* The caller may make any call of the runner in any order.  The host is   *)
(* not trusted: it may write any frame at any time, or none, and may exit  *)
(* whenever it likes.  A kernel command may be refused whatever the        *)
(* receipts below say: its cycle may have moved on, or the store may fail. *)
(* A call that is refused for its lifecycle changes nothing and is left    *)
(* out.  What a call answers its caller is the parameter of its action.    *)
(* A frame with a foreign identity, sequence or correlation, and one that  *)
(* does not decode, is "Broken": peer, supervisor and driver treat all of  *)
(* them alike.                                                             *)
(***************************************************************************)
EXTENDS Integers, FiniteSets, FiniteSetsExt

CONSTANTS
    Calls,          \* identities of Forum tool calls, and of their results
    NoCall,
    Amount,         \* what the attempt's reservation holds
    KernelCeiling,  \* the largest usage the kernel's integers can represent
    MaxTotal,       \* the largest cumulative usage a host reports
    MaxFrames       \* the most frames a host writes

ASSUME SessionAssumption ==
    /\ NoCall \notin Calls
    /\ (Calls \cup {NoCall}) \cap {"Create", "Prompt", "Dispose"} = {}
    /\ {Amount, KernelCeiling, MaxTotal, MaxFrames} \subseteq Nat

VARIABLES
    schedule,   \* TaskAttemptScheduleState
    child,      \* the driver's phase of the child
    prompt,     \* the runner's prompt: its phase and the sequences it has seen
    dispose,    \* the runner's dispose, likewise
    forum,      \* the Forum call the runner has yet to route
    peer,       \* the boundary peer
    pipe,       \* the supervisor: control pipe, cancellation and reap
    host,       \* the process
    kernel,     \* the receipts of the attempt in the ledger
    frontier    \* whether the sealed prompt's event is the ledger's last

vars == <<schedule, child, prompt, dispose, forum, peer, pipe, host, kernel, frontier>>

-----------------------------------------------------------------------------
ScheduleStates == {"None", "Spawned", "RuntimeBound", "Ready", "Disposed",
                   "ContainmentRequired", "PhysicalReconciled", "Reconciled"}

\* "Contained" is PostSpawnSetupContained and BoundaryContainmentRequired;
\* TaskPromptTerminalBlocked never outlives the step that sets it.
ReapPhases == {"DirectChildReapRecorded", "AwaitingLingeringGroupAbsence",
               "LingeringCleanupRecorded", "Reconciled"}
ChildPhases == {"None", "SpawnRegistered", "AdapterReadyRecorded",
                "CreateAuthorized", "CreateDelivered", "SessionReadyRecorded",
                "TaskPromptDeliveryPending", "TaskPromptActive",
                "TaskPromptTerminalRecorded", "DisposeDeliveryPending",
                "DisposeRequested", "Disposed", "Contained", "Unregistered",
                "Gone"} \cup ReapPhases

PromptPhases == {"None", "PromptDeliveryPending", "AwaitingPromptAcceptance",
                 "AwaitingTerminalEvidence", "UsageFrozen", "TerminalRecorded"}
DisposePhases == {"None", "DeliveryPending", "AwaitingAcceptance",
                  "AwaitingFinalAccounting", "AwaitingDisposed", "UsageFrozen",
                  "Disposed"}
PeerPhases == {"AwaitingAdapterReady", "Inert", "Creating", "Ready", "Closing",
               "Disposed", "Fatal"}
EvidencePhases == {"NoTurn", "AwaitingAgentStart", "ActiveAttempt",
                   "RetryLifecycle", "AwaitingAgentSettled",
                   "AwaitingFinalPromptUsage", "AwaitingSettledFrame"}

Commands == {"Create", "Prompt", "Dispose"} \cup Calls
Stops == {"Stop", "Length"}   \* Length stands for Error and Aborted too
Outcomes == Stops \cup {"Failed", "ProtocolFailed"}

\* A frame: its kind, its correlation, what it says and the total it reports.
\* Inconsistent is a Settled whose classification contradicts its outcome.
Frame(k, c, x, n) == [kind |-> k, on |-> c, says |-> x, total |-> n]
Frames ==
    {Frame("AdapterReady", NoCall, "", 0), Frame("SessionReady", "Create", "", 0),
     Frame("Unavailable", "Prompt", "", 0), Frame("Unavailable", "Dispose", "", 0),
     Frame("Disposed", "Dispose", "", 0), Frame("Broken", "Prompt", "", 0),
     Frame("Eof", "Prompt", "", 0)}
    \cup [kind : {"CommandResult"}, on : Commands, says : {"Accepted", "Rejected"}, total : {0}]
    \cup [kind : {"AgentEvent"}, on : {"Prompt", NoCall},
          says : {"Start", "Retry", "Settled", "Other"} \cup Stops, total : {0}]
    \cup [kind : {"ForumToolCall"}, on : Calls, says : {""}, total : {0}]
    \cup [kind : {"Usage"}, on : {"Prompt", "Dispose"}, says : {""}, total : 1..MaxTotal]
    \cup [kind : {"Settled"}, on : {"Prompt"}, says : Outcomes \cup {"Inconsistent"}, total : {0}]

-----------------------------------------------------------------------------
(* The boundary peer: a verdict on every frame.                            *)

NoTurn == [evidence |-> "NoTurn", stop |-> "", latest |-> 0]
NoClosing == [accepted |-> 0, usage |-> 0]
NewPeer == [phase |-> "AwaitingAdapterReady", next |-> 1,
            sent |-> [c \in Commands |-> "None"], turn |-> NoTurn,
            closing |-> NoClosing, total |-> 0, calls |-> {}, settled |-> ""]

HasTurn(p) == p.turn.evidence # "NoTurn"

\* fence: a fenced peer has neither turn nor dispose.
Fence(p) == [p EXCEPT !.phase = "Fatal", !.turn = NoTurn, !.closing = NoClosing]

Accept(p) == [peer |-> p, verdict |-> "Accepted"]
Refuse(p, why) == [peer |-> Fence(p), verdict |-> why]

ObserveAdapter(p) ==
    IF p.phase = "AwaitingAdapterReady"
    THEN Accept([p EXCEPT !.phase = "Inert"])
    ELSE Refuse(p, "Refused")

ObserveReady(p) ==
    IF p.phase = "Creating"
    THEN Accept([p EXCEPT !.phase = "Ready"])
    ELSE Refuse(p, "Refused")

\* The first result of a command.  A host that rejects Dispose is fenced.
ObserveResult(p, f) ==
    LET q == [p EXCEPT !.sent[f.on] = f.says]
    IN  CASE p.sent[f.on] # "Sent" -> Refuse(p, "Refused")
          [] p.sent[f.on] = "Sent" /\ f.says = "Rejected" ->
                IF f.on = "Dispose" THEN Refuse(q, "Refused") ELSE Accept(q)
          [] p.sent[f.on] = "Sent" /\ f.says = "Accepted" ->
                Accept([q EXCEPT
                    !.phase = CASE f.on = "Create" -> "Creating"
                                [] f.on = "Dispose" -> "Closing"
                                [] OTHER -> @,
                    !.turn.evidence = IF f.on = "Prompt" THEN "AwaitingAgentStart" ELSE @,
                    !.closing.accepted = IF f.on = "Dispose" THEN p.next - 1 ELSE @])

\* observe_turn_evidence: the evidence phases an agent event may be seen in.
EvidenceAllows(e, x) ==
    CASE x = "Start" -> e \in {"AwaitingAgentStart", "RetryLifecycle"}
      [] x \in Stops \cup {"Retry"} -> e \in {"ActiveAttempt", "RetryLifecycle"}
      [] x = "Settled" -> e = "AwaitingAgentSettled"
      [] x = "Other" -> e \notin {"AwaitingFinalPromptUsage", "AwaitingSettledFrame"}

EvidenceAfter(t, x) ==
    CASE x = "Start" -> [t EXCEPT !.evidence = "ActiveAttempt"]
      [] x = "Retry" -> [t EXCEPT !.evidence = "RetryLifecycle"]
      [] x \in Stops -> [t EXCEPT !.evidence = "AwaitingAgentSettled", !.stop = x]
      [] x = "Settled" -> [t EXCEPT !.evidence = "AwaitingFinalPromptUsage"]
      [] x = "Other" -> t

ObserveAgentEvent(p, f) ==
    CASE p.phase \notin {"Ready", "Closing"} -> Refuse(p, "Refused")
      [] p.phase \in {"Ready", "Closing"} /\ ~HasTurn(p) ->
            IF f.on = NoCall THEN Accept(p) ELSE Refuse(p, "Refused")
      [] p.phase \in {"Ready", "Closing"} /\ HasTurn(p) ->
            IF f.on = "Prompt" /\ EvidenceAllows(p.turn.evidence, f.says)
            THEN Accept([p EXCEPT !.turn = EvidenceAfter(@, f.says)])
            ELSE Refuse(p, "Refused")

ObserveForumToolCall(p, f) ==
    IF HasTurn(p) /\ f.on \notin p.calls
    THEN Accept([p EXCEPT !.calls = @ \cup {f.on}])
    ELSE Refuse(p, "Refused")

\* Usage belongs to an accepted command: to the prompt while its turn lasts,
\* to Dispose otherwise, and during a dispose once, right after its result.
UsageBelongs(p, f) ==
    /\ p.sent[f.on] = "Accepted"
    /\ f.on = (IF HasTurn(p) THEN "Prompt" ELSE "Dispose")
    /\ p.closing.accepted # 0 =>
         f.on = "Dispose" /\ p.closing.usage = 0 /\ p.closing.accepted + 1 = p.next - 1

\* A usage of the turn, the last one before the turn settles if it has ended.
UsageSeen(p) ==
    IF ~HasTurn(p) THEN p.turn
    ELSE [p.turn EXCEPT
            !.latest = p.next - 1,
            !.evidence = IF @ = "AwaitingFinalPromptUsage" THEN "AwaitingSettledFrame" ELSE @]

ObserveUsage(p, f) ==
    CASE ~UsageBelongs(p, f) -> Refuse(p, "Refused")
      [] UsageBelongs(p, f) /\ f.kind = "Unavailable" -> Accept(Fence(p))
      [] UsageBelongs(p, f) /\ f.kind = "Usage" ->
            IF f.total < p.total \/ p.turn.evidence = "AwaitingSettledFrame"
            THEN Refuse(p, "Refused")
            ELSE Accept([p EXCEPT
                    !.total = f.total,
                    !.closing.usage = IF p.closing.accepted # 0 THEN p.next - 1 ELSE @,
                    !.turn = UsageSeen(p)])

\* The usage snapshot stands right before the frame that closes the turn.
AdjacentUsage(p) == p.turn.latest # 0 /\ p.turn.latest + 1 = p.next - 1

\* A missing outcome ends the session, but its receipt stands.
ObserveSettled(p, f) ==
    LET q == [p EXCEPT !.turn = NoTurn, !.settled = f.says]
    IN  CASE ~HasTurn(p) -> Refuse(p, "Refused")
          [] HasTurn(p) ->
                IF /\ f.says # "Inconsistent" /\ AdjacentUsage(p)
                   /\ f.says \in Stops =>
                        p.turn.evidence = "AwaitingSettledFrame" /\ p.turn.stop = f.says
                THEN Accept(IF f.says = "ProtocolFailed" THEN Fence(q) ELSE q)
                ELSE Refuse(p, "Missing")

ObserveDisposed(p) ==
    CASE p.phase # "Closing" \/ HasTurn(p) -> Refuse(p, "Refused")
      [] p.phase = "Closing" /\ ~HasTurn(p) ->
            IF p.closing.usage # 0 /\ p.closing.usage + 1 = p.next - 1
            THEN Accept([p EXCEPT !.phase = "Disposed", !.closing = NoClosing])
            ELSE Refuse(p, "Missing")

\* observe_outbound and observe_stdout_eof; q.next - 1 is this frame's sequence.
Observe(p, f) ==
    LET q == [p EXCEPT !.next = @ + 1]
    IN  CASE f.kind = "Eof" ->
                [peer |-> IF p.phase \in {"Disposed", "Fatal"} THEN p ELSE Fence(p),
                 verdict |-> "Refused"]
          [] f.kind = "Broken" \/ (f.kind # "Eof" /\ p.phase = "Fatal") -> Refuse(q, "Refused")
          [] f.kind = "AdapterReady" /\ p.phase # "Fatal" -> ObserveAdapter(q)
          [] f.kind = "SessionReady" /\ p.phase # "Fatal" -> ObserveReady(q)
          [] f.kind = "CommandResult" /\ p.phase # "Fatal" -> ObserveResult(q, f)
          [] f.kind = "AgentEvent" /\ p.phase # "Fatal" -> ObserveAgentEvent(q, f)
          [] f.kind = "ForumToolCall" /\ p.phase # "Fatal" -> ObserveForumToolCall(q, f)
          [] f.kind \in {"Usage", "Unavailable"} /\ p.phase # "Fatal" -> ObserveUsage(q, f)
          [] f.kind = "Settled" /\ p.phase # "Fatal" -> ObserveSettled(q, f)
          [] f.kind = "Disposed" /\ p.phase # "Fatal" -> ObserveDisposed(q)

\* validate_command_admission, with admit_inbound's duplicate check.
Admits(p, c) ==
    /\ p.sent[c] = "None" /\ p.sent["Dispose"] # "Sent"
    /\ CASE c = "Create" -> p.phase = "Inert"
         [] c \in {"Prompt", "Dispose"} ->
              p.phase = "Ready" /\ ~HasTurn(p) /\ p.sent["Prompt"] # "Sent"
         [] c \in Calls -> p.phase = "Ready" /\ HasTurn(p) /\ c \in p.calls

Admitted(p, c) == [p EXCEPT !.sent[c] = "Sent", !.calls = @ \ {c}]

-----------------------------------------------------------------------------
(* The supervisor.                                                         *)

NewPipe == [control |-> NoCall, stdin |-> FALSE, cancel |-> "None",
            lost |-> FALSE, reaped |-> "No", seen |-> "None",
            remains |-> "Absent", swept |-> FALSE]

\* start_automatic_boundary_containment
Arm(p) ==
    IF p.reaped = "Done" THEN p
    ELSE [p EXCEPT !.stdin = FALSE, !.control = NoCall,
                   !.cancel = IF @ = "None" THEN "Armed" ELSE @]

\* Mutant: the escalation stops at TERM.
TermOnly(p) ==
    {[p EXCEPT !.cancel = "Termed", !.lost = @ \/ l] :
        l \in IF p.cancel = "Armed" THEN BOOLEAN ELSE {}}

\* advance_cancellation_without_reap: TERM when its deadline is over, then KILL,
\* each sent once; a group that is not accessible loses the signal.
AdvanceCancellation(p) ==
    LET signals == CASE p.cancel = "Armed" -> {"Termed", "Killed"}
                     [] p.cancel = "Termed" -> {"Killed"}
                     [] OTHER -> {}
        losses == IF p.reaped = "No" THEN BOOLEAN ELSE {FALSE}
    IN  {[p EXCEPT !.cancel = sent[1], !.lost = @ \/ sent[2]] : sent \in signals \X losses}

-----------------------------------------------------------------------------
(* The kernel's receipts.                                                  *)

NoUsage == [at |-> 0, total |-> 0]
NewKernel == [child |-> "None", session |-> "None", binding |-> "None",
              prompt |-> "None", accepted |-> 0, usage |-> NoUsage, failure |-> 0,
              terminal |-> "", settled |-> 0,
              dispose |-> "None", closeAccepted |-> 0, closeUsage |-> NoUsage,
              closeFailure |-> 0, disposed |-> 0,
              reservation |-> "Reserved", charged |-> 0, obligation |-> "Active"]

\* pi_task_attempt_session_max_sequence
LastSequence(k) ==
    Max({k.accepted, k.usage.at, k.failure, k.settled, k.closeAccepted,
         k.closeUsage.at, k.closeFailure})

Commit(k) == kernel' = k /\ frontier' = "Stale"
Refused == UNCHANGED <<kernel, frontier>>

PromptAuthorized(k) == [k EXCEPT !.prompt = "Authorized"]
MayAuthorizePrompt(k) ==
    k.prompt = "None" /\ k.child = "Running" /\ k.session = "SessionReady"
    /\ k.reservation = "Reserved" /\ k.usage.total = k.charged

MayRecordAccepted(k, s) == k.prompt = "Delivered" /\ s > LastSequence(k)

MayRecordUsage(k, s, n) ==
    /\ k.terminal = "" /\ k.failure = 0 /\ k.prompt = "Accepted"
    /\ s > LastSequence(k) /\ n >= k.usage.total

MayRecordFailure(k, s) ==
    /\ k.terminal = "" /\ k.prompt = "Accepted" /\ s > LastSequence(k)
    /\ k.reservation = "Reserved"

\* The final accounting fact is a known usage of this prompt, right before.
MayRecordTerminal(k, final, s) ==
    /\ k.terminal = "" /\ k.prompt = "Accepted" /\ final + 1 = s
    /\ final > k.accepted /\ final = k.usage.at

MayAuthorizeDispose(k) ==
    k.dispose = "None" /\ k.child = "Running" /\ k.session = "SessionReady" /\ k.terminal # ""

MayRecordClose(k, s) ==
    k.dispose = "Accepted" /\ s > k.closeAccepted /\ s > LastSequence(k)

MayRecordCloseUsage(k, s, n) ==
    /\ MayRecordClose(k, s) /\ k.failure = 0 /\ k.closeFailure = 0
    /\ n >= k.usage.total

MayRecordDisposed(k, s) ==
    /\ MayRecordClose(k, s) /\ k.closeUsage.at # 0
    /\ k.reservation = "Reserved" /\ k.closeUsage.total >= k.charged

\* Mutant: an overrun is charged like any other usage.
OverrunReceipt(k, s) ==
    [k EXCEPT !.disposed = s, !.reservation = "Reconciled", !.charged = k.closeUsage.total]

\* Mutant: the prompt's usage is charged, not the final accounting.
PromptOnlyReceipt(k, s) ==
    [k EXCEPT !.disposed = s, !.reservation = "Reconciled", !.charged = k.usage.total]

\* reconcile_task_attempt_reservation: an overrun freezes the reservation.
DisposedReceipt(k, s) ==
    IF k.closeUsage.total > Amount
    THEN [k EXCEPT !.disposed = s, !.reservation = "Frozen"]
    ELSE [k EXCEPT !.disposed = s, !.reservation = "Reconciled",
                   !.charged = k.closeUsage.total]

-----------------------------------------------------------------------------
(* The driver's answers to a call.                                         *)

Answers == {"Ok", "Waiting", "Error", "Forum", "Terminal", "Frozen", "Disposed", "Done"}

\* The boundary failed: begin_task_attempt_boundary_containment.
Contained == child' = "Contained" /\ pipe' = Arm(pipe)
Contain(a) == a = "Error" /\ Contained /\ UNCHANGED <<prompt, dispose>>

\* next_frame, stage_inbound: the peer admits the frame before it is written.
Stage(c) == pipe.control = NoCall /\ Admits(peer, c) /\ peer' = Admitted(peer, c)

\* An earlier write is unfinished, or the peer refuses, or the write fails, or
\* the kernel refuses the receipt of its delivery.
StageFails(c, a) ==
    /\ Contain(a)
    /\ peer' = CASE pipe.control # NoCall -> peer
                 [] pipe.control = NoCall /\ Admits(peer, c) -> Admitted(peer, c)
                 [] pipe.control = NoCall /\ ~Admits(peer, c) -> Fence(peer)

Waits(c) == pipe' = [pipe EXCEPT !.control = c]
Written == pipe' = [pipe EXCEPT !.control = NoCall]

\* The caller seals the prompt: its registration is the ledger's last event.
SealPrompt ==
    /\ kernel.prompt = "None"
    /\ frontier' = "Current"
    /\ UNCHANGED <<schedule, child, prompt, dispose, forum, peer, pipe, host, kernel>>

-----------------------------------------------------------------------------
(* Spawn, binding and handshake.                                           *)

\* A spawn that leaves no process is part of NativeChild.  A process whose
\* registration fails has no schedule and fences the daemon.
Spawn(a) ==
    /\ child = "None" /\ host' = "Running"
    /\ \/ /\ a = "Ok" /\ schedule' = "Spawned" /\ child' = "SpawnRegistered"
          /\ pipe' = [pipe EXCEPT !.stdin = TRUE]
          /\ Commit([kernel EXCEPT !.child = "Running"])
       \/ /\ a = "Error" /\ schedule' = "ContainmentRequired" /\ child' = "Contained"
          /\ pipe' = Arm(pipe)
          /\ Commit([kernel EXCEPT !.child = "Running"])
       \/ /\ a = "Error" /\ child' = "Unregistered"
          /\ pipe' = Arm(pipe)
          /\ Commit(kernel) /\ UNCHANGED schedule
    /\ UNCHANGED <<prompt, dispose, forum, peer>>

BindRuntime(a) ==
    /\ schedule = "Spawned"
    /\ \/ /\ a = "Ok" /\ kernel.binding = "None" /\ kernel.child = "Running"
          /\ Commit([kernel EXCEPT !.binding = "Bound"]) /\ schedule' = "RuntimeBound"
       \/ a = "Error" /\ Refused /\ UNCHANGED schedule
    /\ UNCHANGED <<child, prompt, dispose, forum, peer, pipe, host>>

\* Expired or overrun: no frame before the deadline, or too many of them.
ObserveAdapterReady(a) ==
    /\ child = "SpawnRegistered"
    /\ \/ Contain(a) /\ Refused /\ UNCHANGED peer
       \/ \E f \in Frames :
            LET o == Observe(peer, f)
            IN  /\ peer' = o.peer
                /\ \/ Contain(a) /\ Refused
                   \/ /\ a = "Ok" /\ o.peer.phase = "Inert"
                      /\ Commit([kernel EXCEPT !.session = "AdapterReady"])
                      /\ child' = "AdapterReadyRecorded"
                      /\ UNCHANGED <<prompt, dispose, pipe>>
    /\ UNCHANGED <<schedule, forum, host>>

CreateAuthorized == [kernel EXCEPT !.session = "CreateAuthorized"]
CreateDelivered == [kernel EXCEPT !.session = "CreateDelivered"]

BeginCreate(a) ==
    /\ child = "AdapterReadyRecorded"
    /\ \/ Refused /\ Contain(a) /\ UNCHANGED peer
       \/ Commit(CreateAuthorized) /\ StageFails("Create", a)
       \/ /\ Commit(CreateAuthorized) /\ Stage("Create") /\ Waits("Create")
          /\ a = "Waiting" /\ child' = "CreateAuthorized" /\ UNCHANGED <<prompt, dispose>>
       \/ /\ Commit(CreateDelivered) /\ Stage("Create")
          /\ a = "Ok" /\ child' = "CreateDelivered" /\ UNCHANGED <<prompt, dispose, pipe>>
    /\ UNCHANGED <<schedule, forum, host>>

DriveCreate(a) ==
    /\ child = "CreateAuthorized" /\ pipe.control # NoCall
    /\ \/ Refused /\ Contain(a)
       \/ /\ Commit(CreateDelivered) /\ Written
          /\ a = "Ok" /\ child' = "CreateDelivered" /\ UNCHANGED <<prompt, dispose>>
    /\ UNCHANGED <<schedule, forum, peer, host>>

\* poll_direct_child_reap: the child is waited for once, and what is then left of
\* its group is remembered.
Waited(p) ==
    IF p.reaped # "No" THEN {p}
    ELSE {[p EXCEPT !.reaped = "Pending", !.seen = r, !.remains = r] :
             r \in {"Absent", "Present", "Inaccessible"}}

\* A child that exited with SessionReady as its last word is already reaped.
ObserveSessionReady(a) ==
    /\ schedule = "RuntimeBound" /\ child = "CreateDelivered"
    /\ \/ Contain(a) /\ Refused /\ UNCHANGED <<peer, schedule>>
       \/ \E f \in Frames :
            LET o == Observe(peer, f)
            IN  /\ peer' = o.peer
                /\ \/ /\ o.verdict # "Accepted" \/ o.peer.phase = "Ready"
                      /\ Contain(a) /\ Refused /\ UNCHANGED schedule
                   \/ /\ o.verdict = "Accepted" /\ o.peer.phase # "Ready"
                      /\ a = "Waiting" /\ Refused
                      /\ UNCHANGED <<schedule, child, prompt, dispose, pipe>>
                   \/ /\ o.peer.phase = "Ready" /\ host = "Dead" /\ a = "Error"
                      /\ pipe' \in Waited(pipe) /\ child' = "Contained" /\ Refused
                      /\ UNCHANGED <<schedule, prompt, dispose>>
                   \/ /\ o.peer.phase = "Ready" /\ host = "Running" /\ a = "Ok"
                      /\ Commit([kernel EXCEPT !.session = "SessionReady"])
                      /\ child' = "SessionReadyRecorded" /\ schedule' = "Ready"
                      /\ UNCHANGED <<prompt, dispose, pipe>>
    /\ UNCHANGED <<forum, host>>

-----------------------------------------------------------------------------
(* The prompt and its evidence.                                            *)

NoPrompt == [phase |-> "None", accepted |-> 0, settledAt |-> 0, latest |-> 0, final |-> 0]

PromptDelivered(k) == [k EXCEPT !.prompt = "Delivered"]

\* A refused authorization writes nothing and contains nothing.
BeginPrompt(a) ==
    /\ schedule = "Ready" /\ child = "SessionReadyRecorded"
    /\ \/ a = "Error" /\ Refused /\ UNCHANGED <<child, prompt, dispose, peer, pipe>>
       \/ /\ MayAuthorizePrompt(kernel) /\ frontier = "Current"
          /\ \/ Commit(PromptAuthorized(kernel)) /\ StageFails("Prompt", a)
             \/ /\ Commit(PromptAuthorized(kernel)) /\ Stage("Prompt") /\ Waits("Prompt")
                /\ a = "Waiting" /\ child' = "TaskPromptDeliveryPending"
                /\ prompt' = [NoPrompt EXCEPT !.phase = "PromptDeliveryPending"]
                /\ UNCHANGED dispose
             \/ /\ Commit(PromptDelivered(kernel)) /\ Stage("Prompt")
                /\ a = "Ok" /\ child' = "TaskPromptActive"
                /\ prompt' = [NoPrompt EXCEPT !.phase = "AwaitingPromptAcceptance"]
                /\ UNCHANGED <<dispose, pipe>>
    /\ UNCHANGED <<schedule, forum, host>>

DrivePrompt(a) ==
    /\ child = "TaskPromptDeliveryPending" /\ pipe.control # NoCall
    /\ \/ Refused /\ Contain(a)
       \/ /\ Commit(PromptDelivered(kernel)) /\ Written
          /\ a = "Ok" /\ child' = "TaskPromptActive"
          /\ prompt' = [prompt EXCEPT !.phase = "AwaitingPromptAcceptance"]
          /\ UNCHANGED dispose
    /\ UNCHANGED <<schedule, forum, peer, host>>

\* record_task_attempt_usage_failure, s the sequence of the frame
PromptUsageFailure(s, missing, a) ==
    /\ UNCHANGED <<dispose, forum>>
    /\ \/ Refused /\ Contain(a)
       \/ /\ prompt.phase = "AwaitingTerminalEvidence" /\ s > prompt.accepted
          /\ missing => prompt.settledAt # 0 /\ s > prompt.settledAt
          /\ MayRecordFailure(kernel, s)
          /\ Commit([kernel EXCEPT !.failure = s, !.reservation = "Frozen"])
          /\ prompt' = [prompt EXCEPT !.phase = "UsageFrozen", !.final = s]
          /\ a = "Frozen" /\ Contained

\* record_task_attempt_terminal.  Evidence the driver never recorded is an
\* error that contains nothing; ProtocolFailed contains after its receipt.
PromptSettled(f, s, a) ==
    LET final == IF f.says \in Stops THEN prompt.final ELSE prompt.latest
        known == final # 0 /\ (f.says \in Stops => prompt.settledAt # 0)
        fatal == f.says = "ProtocolFailed"
    IN  /\ UNCHANGED <<dispose, forum>>
        /\ \/ prompt.phase # "AwaitingTerminalEvidence" /\ Refused /\ Contain(a)
           \/ prompt.phase = "AwaitingTerminalEvidence" /\ known /\ Refused /\ Contain(a)
           \/ /\ prompt.phase = "AwaitingTerminalEvidence" /\ ~known
              /\ a = "Error" /\ Refused /\ UNCHANGED prompt
              /\ IF fatal THEN Contained ELSE UNCHANGED <<child, pipe>>
           \/ /\ prompt.phase = "AwaitingTerminalEvidence" /\ known /\ final + 1 = s
              /\ MayRecordTerminal(kernel, final, s)
              /\ Commit([kernel EXCEPT !.terminal = f.says, !.settled = s])
              /\ prompt' = [prompt EXCEPT !.phase = "TerminalRecorded"]
              /\ a = "Terminal"
              /\ IF fatal THEN Contained
                 ELSE child' = "TaskPromptTerminalRecorded" /\ UNCHANGED pipe

\* A usage the kernel cannot represent is an error that contains nothing.
PromptUsage(f, s, a) ==
    /\ UNCHANGED <<dispose, forum>>
    /\ \/ prompt.accepted = 0 /\ Refused /\ Contain(a)
       \/ /\ prompt.accepted # 0 /\ f.total > KernelCeiling
          /\ a = "Error" /\ Refused /\ UNCHANGED <<child, pipe, prompt>>
       \/ /\ prompt.accepted # 0 /\ f.total <= KernelCeiling
          /\ \/ Refused /\ Contain(a)
             \/ /\ MayRecordUsage(kernel, s, f.total)
                /\ Commit([kernel EXCEPT !.usage = [at |-> s, total |-> f.total]])
                /\ prompt' = [prompt EXCEPT
                      !.latest = s, !.final = IF prompt.settledAt # 0 THEN s ELSE @]
                /\ a = "Ok" /\ UNCHANGED <<child, pipe>>

PromptResult(f, s, a) ==
    /\ UNCHANGED <<dispose, forum>>
    /\ \/ Refused /\ Contain(a)
       \/ /\ f.says = "Accepted" /\ prompt.phase = "AwaitingPromptAcceptance"
          /\ MayRecordAccepted(kernel, s)
          /\ Commit([kernel EXCEPT !.prompt = "Accepted", !.accepted = s])
          /\ prompt' = [prompt EXCEPT !.phase = "AwaitingTerminalEvidence", !.accepted = s]
          /\ a = "Ok" /\ UNCHANGED <<child, pipe>>

\* Agent events are left alone, but for AgentSettled; a Forum call is kept for
\* the caller to route.
PromptEvent(f, s, a) ==
    LET expected == prompt.phase = "AwaitingTerminalEvidence"
        noted == f.kind = "ForumToolCall" \/ f.says = "Settled"
    IN  /\ Refused
        /\ \/ noted /\ ~expected /\ Contain(a) /\ UNCHANGED forum
           \/ /\ noted => expected
              /\ a = IF f.kind = "ForumToolCall" THEN "Forum" ELSE "Ok"
              /\ forum' = IF f.kind = "ForumToolCall" THEN f.on ELSE forum
              /\ prompt' = IF f.kind = "AgentEvent" /\ f.says = "Settled"
                           THEN [prompt EXCEPT !.settledAt = s] ELSE prompt
              /\ UNCHANGED <<child, pipe, dispose>>

OnPrompt(f) == f.on = "Prompt" \/ f.kind = "ForumToolCall"

\* Mutant: a frame of another command is passed over even if it fenced the peer.
InterleavedFence(q, a) ==
    a = "Ok" /\ Refused /\ UNCHANGED <<prompt, dispose, forum, child, pipe>>

\* A frame of another command is passed over; it contains if it fenced.
Interleaved(q, a) ==
    /\ a = "Ok" /\ Refused /\ UNCHANGED <<prompt, dispose, forum>>
    /\ IF q.phase = "Fatal" THEN Contained ELSE UNCHANGED <<child, pipe>>

\* project_task_attempt_prompt_output
ProjectPrompt(f, o, s, a) ==
    \/ ~OnPrompt(f) /\ Interleaved(o.peer, a)
    \/ /\ OnPrompt(f) /\ o.verdict # "Accepted"
       /\ IF f.kind = "Settled" /\ o.verdict = "Missing" /\ prompt.final = 0
          THEN PromptUsageFailure(s, TRUE, a)
          ELSE Refused /\ Contain(a) /\ UNCHANGED forum
    \/ /\ OnPrompt(f) /\ o.verdict = "Accepted"
       /\ \/ f.kind = "CommandResult" /\ PromptResult(f, s, a)
          \/ f.kind \in {"AgentEvent", "ForumToolCall"} /\ PromptEvent(f, s, a)
          \/ f.kind = "Usage" /\ PromptUsage(f, s, a)
          \/ f.kind = "Unavailable" /\ PromptUsageFailure(s, FALSE, a)
          \/ f.kind = "Settled" /\ PromptSettled(f, s, a)

ObservePrompt(a) ==
    /\ child = "TaskPromptActive" /\ forum = NoCall
    /\ peer.next <= MaxFrames
    /\ \E f \in Frames :
         LET o == Observe(peer, f)
         IN  peer' = o.peer /\ ProjectPrompt(f, o, peer.next, a)
    /\ UNCHANGED <<schedule, host>>

\* The call is taken first: an error of the study ledger, or a child that was
\* contained meanwhile, loses it.
RouteForumToolCall(a) ==
    /\ forum # NoCall /\ forum' = NoCall
    /\ \/ a = "Error" /\ Refused /\ UNCHANGED <<child, prompt, dispose, peer, pipe>>
       \/ /\ child = "TaskPromptActive" /\ prompt.phase = "AwaitingTerminalEvidence"
          /\ Commit(kernel)
          /\ \/ StageFails(forum, a)
             \/ /\ Stage(forum) /\ Waits(forum)
                /\ a = "Waiting" /\ UNCHANGED <<child, prompt, dispose>>
             \/ Stage(forum) /\ a = "Ok" /\ UNCHANGED <<child, prompt, dispose, pipe>>
    /\ UNCHANGED <<schedule, host>>

DriveForumToolResult(a) ==
    /\ child = "TaskPromptActive" /\ pipe.control # NoCall
    /\ Refused
    /\ \/ Contain(a)
       \/ Written /\ a = "Ok" /\ UNCHANGED <<child, prompt, dispose>>
    /\ UNCHANGED <<schedule, forum, peer, host>>

-----------------------------------------------------------------------------
(* Dispose.                                                                *)

NoDispose == [phase |-> "None", accepted |-> 0, final |-> 0]

DisposeAuthorized == [kernel EXCEPT !.dispose = "Authorized"]
DisposeDelivered == [kernel EXCEPT !.dispose = "Delivered"]

\* A refused authorization writes nothing and contains nothing.
BeginDispose(a) ==
    /\ schedule = "Ready" /\ child = "TaskPromptTerminalRecorded"
    /\ MayAuthorizeDispose(kernel)
    /\ \/ Commit(DisposeAuthorized) /\ StageFails("Dispose", a)
       \/ /\ Commit(DisposeAuthorized) /\ Stage("Dispose") /\ Waits("Dispose")
          /\ a = "Waiting" /\ child' = "DisposeDeliveryPending"
          /\ dispose' = [NoDispose EXCEPT !.phase = "DeliveryPending"]
          /\ UNCHANGED prompt
       \/ /\ Commit(DisposeDelivered) /\ Stage("Dispose")
          /\ a = "Ok" /\ child' = "DisposeRequested"
          /\ dispose' = [NoDispose EXCEPT !.phase = "AwaitingAcceptance"]
          /\ UNCHANGED <<prompt, pipe>>
    /\ UNCHANGED <<schedule, forum, host>>

DriveDispose(a) ==
    /\ child = "DisposeDeliveryPending" /\ pipe.control # NoCall
    /\ \/ Refused /\ Contain(a)
       \/ /\ Commit(DisposeDelivered) /\ Written
          /\ a = "Ok" /\ child' = "DisposeRequested"
          /\ dispose' = [dispose EXCEPT !.phase = "AwaitingAcceptance"]
          /\ UNCHANGED prompt
    /\ UNCHANGED <<schedule, forum, peer, host>>

\* Final accounting is the frame right after the accepted result.
FinalAccounting(s) ==
    dispose.phase = "AwaitingFinalAccounting" /\ dispose.accepted + 1 = s

\* record_task_attempt_session_dispose_usage_failure
DisposeUsageFailure(s, a) ==
    \/ Refused /\ Contain(a)
    \/ /\ FinalAccounting(s) /\ MayRecordClose(kernel, s) /\ kernel.reservation = "Reserved"
       /\ Commit([kernel EXCEPT !.closeFailure = s, !.reservation = "Frozen"])
       /\ dispose' = [dispose EXCEPT !.phase = "UsageFrozen"]
       /\ a = "Frozen" /\ Contained /\ UNCHANGED prompt

DisposeResult(f, s, a) ==
    \/ Refused /\ Contain(a)
    \/ /\ f.says = "Accepted" /\ dispose.phase = "AwaitingAcceptance"
       /\ kernel.dispose = "Delivered" /\ s > LastSequence(kernel)
       /\ Commit([kernel EXCEPT !.dispose = "Accepted", !.closeAccepted = s])
       /\ dispose' = [dispose EXCEPT !.phase = "AwaitingFinalAccounting", !.accepted = s]
       /\ a = "Ok" /\ UNCHANGED <<child, pipe, prompt>>

DisposeUsage(f, s, a) ==
    \/ ~FinalAccounting(s) /\ Refused /\ Contain(a)
    \/ /\ FinalAccounting(s) /\ f.total > KernelCeiling
       /\ a = "Error" /\ Refused /\ UNCHANGED <<child, pipe, prompt, dispose>>
    \/ /\ FinalAccounting(s) /\ f.total <= KernelCeiling
       /\ \/ Refused /\ Contain(a)
          \/ /\ MayRecordCloseUsage(kernel, s, f.total)
             /\ Commit([kernel EXCEPT !.closeUsage = [at |-> s, total |-> f.total]])
             /\ dispose' = [dispose EXCEPT !.phase = "AwaitingDisposed", !.final = s]
             /\ a = "Ok" /\ UNCHANGED <<child, pipe, prompt>>

\* The transcript's bytes are read, sealed and then recorded.  A seal that
\* fails is an error that contains nothing, and no later frame mends it.
DisposeEnds(s, a) ==
    LET due == dispose.phase = "AwaitingDisposed" /\ dispose.final + 1 = s
        closed == pipe' = [pipe EXCEPT !.stdin = FALSE]
    IN  \/ Refused /\ Contain(a) /\ UNCHANGED schedule
        \/ /\ due /\ a = "Error" /\ closed /\ Refused
           /\ UNCHANGED <<schedule, child, prompt, dispose>>
        \/ /\ due /\ MayRecordDisposed(kernel, s)
           /\ Commit(DisposedReceipt(kernel, s)) /\ closed
           /\ child' = "Disposed" /\ dispose' = [dispose EXCEPT !.phase = "Disposed"]
           /\ IF schedule = "Ready" THEN a = "Disposed" /\ schedule' = "Disposed"
              ELSE a = "Error" /\ UNCHANGED schedule
           /\ UNCHANGED prompt

\* project_task_attempt_session_dispose_output
ProjectDispose(f, o, s, a) ==
    \/ /\ f.on # "Dispose" \/ o.verdict = "Refused"
       /\ Refused /\ Contain(a) /\ UNCHANGED schedule
    \/ /\ f.on = "Dispose" /\ o.verdict = "Missing" /\ UNCHANGED schedule
       /\ IF dispose.phase = "AwaitingFinalAccounting" THEN DisposeUsageFailure(s, a)
          ELSE Refused /\ Contain(a)
    \/ /\ f.on = "Dispose" /\ o.verdict = "Accepted"
       /\ \/ f.kind = "CommandResult" /\ DisposeResult(f, s, a) /\ UNCHANGED schedule
          \/ f.kind = "Usage" /\ DisposeUsage(f, s, a) /\ UNCHANGED schedule
          \/ f.kind = "Unavailable" /\ DisposeUsageFailure(s, a) /\ UNCHANGED schedule
          \/ f.kind = "Disposed" /\ DisposeEnds(s, a)

\* observe_dispose: the deadline is over, or a frame has come.
ObserveDispose(a) ==
    /\ child = "DisposeRequested" /\ pipe.control = NoCall
    /\ dispose.phase \in {"AwaitingAcceptance", "AwaitingFinalAccounting", "AwaitingDisposed"}
    /\ \/ Contain(a) /\ Refused /\ UNCHANGED <<peer, schedule>>
       \/ \E f \in Frames :
            LET o == Observe(peer, f)
            IN  peer' = o.peer /\ ProjectDispose(f, o, peer.next, a)
    /\ UNCHANGED <<forum, host>>

-----------------------------------------------------------------------------
(* Containment, reap and completion.                                       *)

\* drive_containment of a registered child: the schedule is changed first, and
\* a child whose boundary has not failed is then refused.
DriveContainment(a) ==
    /\ child \notin {"None", "Unregistered", "Gone"}
    /\ schedule \in {"Spawned", "RuntimeBound", "Ready", "Disposed", "ContainmentRequired"}
    /\ schedule' = "ContainmentRequired"
    /\ IF child = "Contained" /\ pipe.cancel # "None"
       THEN a = "Waiting" /\ pipe' \in AdvanceCancellation(pipe) \cup {pipe}
       ELSE a = "Error" /\ UNCHANGED pipe
    /\ UNCHANGED <<child, prompt, dispose, forum, peer, host, kernel, frontier>>

\* drive_cancellation of an unregistered child: it is done once the direct
\* child was waited for, whatever the sweep leaves of its group.
DriveUnregistered(a) ==
    /\ child = "Unregistered"
    /\ \/ /\ host = "Running" /\ a = "Waiting"
          /\ pipe' \in AdvanceCancellation(pipe) /\ UNCHANGED child
       \/ /\ host = "Dead" /\ a = "Done" /\ child' = "Gone"
          /\ \E p \in Waited(pipe) :
               pipe' = [p EXCEPT !.reaped = "Done", !.swept = p.seen # "Absent"]
    /\ UNCHANGED <<schedule, prompt, dispose, forum, peer, host, kernel, frontier>>

\* reconcile is one call with three parts.  Each part can return an error that
\* keeps what the parts before it did, so each is an action.
MayReconcile == schedule \in {"Disposed", "ContainmentRequired"} /\ pipe.reaped # "Done"

\* The wait status is recorded; a group that could not be signalled ends it here.
ReapDirectChild(a) ==
    /\ MayReconcile /\ host = "Dead"
    /\ child \notin ReapPhases \cup {"None", "Unregistered", "Gone"}
    /\ \E p \in Waited(pipe) :
         /\ pipe' = p
         /\ \/ a = "Error" /\ Refused /\ UNCHANGED child
            \/ /\ Commit([kernel EXCEPT !.child = "Reaped"])
               /\ IF p.lost \/ p.seen = "Inaccessible" THEN a = "Error" /\ UNCHANGED child
                  ELSE a = "Waiting" /\ child' = "DirectChildReapRecorded"
    /\ UNCHANGED <<schedule, prompt, dispose, forum, peer, host>>

\* What is left of the group is killed once; a receipt that is refused then
\* leaves no way on.
CleanLingering(a) ==
    /\ MayReconcile /\ child = "DirectChildReapRecorded"
    /\ \/ /\ pipe.seen = "Absent" /\ Refused
          /\ a = "Waiting" /\ child' = "LingeringCleanupRecorded" /\ UNCHANGED pipe
       \/ /\ pipe.seen = "Present" /\ ~pipe.swept
          /\ \E r \in IF pipe.remains = "Absent" THEN {"Absent"}
                      ELSE {"Absent", "Present", "Inaccessible"} :
               /\ pipe' = [pipe EXCEPT !.swept = TRUE, !.remains = r]
               /\ \/ a = "Error" /\ Refused /\ UNCHANGED child
                  \/ /\ Commit(kernel)
                     /\ CASE r = "Absent" -> a = "Waiting" /\ child' = "LingeringCleanupRecorded"
                          [] r = "Present" -> a = "Waiting" /\ child' = "AwaitingLingeringGroupAbsence"
                          [] r = "Inaccessible" -> a = "Error" /\ UNCHANGED child
    /\ UNCHANGED <<schedule, prompt, dispose, forum, peer, host>>

Finalized(k) == [k EXCEPT !.child = "Finalized"]

\* Mutant: a group that was sent the sweep's KILL is taken for gone.
SweptGroup == pipe.swept \/ pipe.remains = "Absent"

\* observe_group_liveness
GroupAbsent == pipe.remains = "Absent"

\* The group is gone: the reap is complete, stdout is drained to its end, the
\* streams are sealed, the child is finalized and the runtime reconciled.  The
\* kernel refuses to finalize a child whose wait status no receipt explains; the
\* child is then reaped, but never finalized.
ProveAbsence(a) ==
    /\ MayReconcile /\ GroupAbsent
    /\ child \in {"AwaitingLingeringGroupAbsence", "LingeringCleanupRecorded"}
    /\ pipe' = [pipe EXCEPT !.reaped = "Done", !.stdin = FALSE]
    /\ peer' = Observe(peer, Frame("Eof", "Prompt", "", 0)).peer
    /\ \/ a = "Error" /\ Refused /\ UNCHANGED <<schedule, child>>
       \/ /\ child' = "Reconciled"
          /\ \/ /\ a = "Error" /\ schedule' = "PhysicalReconciled"
                /\ Commit(Finalized(kernel))
             \/ /\ a = "Done" /\ schedule' = "Reconciled" /\ kernel.binding = "Bound"
                /\ Commit([Finalized(kernel) EXCEPT !.binding = "Reconciled"])
    /\ UNCHANGED <<prompt, dispose, forum, host>>

CompleteActorObligation(a) ==
    /\ schedule = "Reconciled" /\ kernel.obligation = "Active"
    /\ kernel.binding = "Reconciled"
    /\ a = "Done" /\ Commit([kernel EXCEPT !.obligation = "Completed"])
    /\ UNCHANGED <<schedule, child, prompt, dispose, forum, peer, pipe, host>>

-----------------------------------------------------------------------------
(* The process.                                                            *)

HostStops ==
    /\ host = "Running" /\ host' = "Dead"
    /\ UNCHANGED <<schedule, child, prompt, dispose, forum, peer, pipe, kernel, frontier>>

GroupDies ==
    /\ host = "Dead" /\ pipe.remains # "Absent"
    /\ pipe' = [pipe EXCEPT !.remains = "Absent"]
    /\ UNCHANGED <<schedule, child, prompt, dispose, forum, peer, host, kernel, frontier>>

Init ==
    /\ schedule = "None" /\ child = "None" /\ host = "None"
    /\ prompt = NoPrompt /\ dispose = NoDispose /\ forum = NoCall
    /\ peer = NewPeer /\ pipe = NewPipe /\ kernel = NewKernel /\ frontier = "Stale"

Next ==
    \/ \E a \in Answers :
         \/ Spawn(a) \/ BindRuntime(a) \/ ObserveAdapterReady(a)
         \/ BeginCreate(a) \/ DriveCreate(a) \/ ObserveSessionReady(a)
         \/ BeginPrompt(a) \/ DrivePrompt(a) \/ ObservePrompt(a)
         \/ RouteForumToolCall(a) \/ DriveForumToolResult(a)
         \/ BeginDispose(a) \/ DriveDispose(a) \/ ObserveDispose(a)
         \/ DriveContainment(a) \/ DriveUnregistered(a)
         \/ ReapDirectChild(a) \/ CleanLingering(a) \/ ProveAbsence(a)
         \/ CompleteActorObligation(a)
    \/ SealPrompt \/ HostStops \/ GroupDies

Spec == Init /\ [][Next]_vars

-----------------------------------------------------------------------------
(* Properties.                                                             *)

\* Every part is in one of its states, a schedule exists exactly while a child
\* is registered, and no more is charged than the reservation holds.
TypeOK ==
    /\ schedule \in ScheduleStates /\ child \in ChildPhases
    /\ prompt.phase \in PromptPhases /\ dispose.phase \in DisposePhases
    /\ forum \in Calls \cup {NoCall}
    /\ peer.phase \in PeerPhases /\ peer.turn.evidence \in EvidencePhases
    /\ peer.total \in 0..MaxTotal /\ peer.settled \in Outcomes \cup {""}
    /\ pipe.control \in Commands \cup {NoCall}
    /\ pipe.cancel \in {"None", "Armed", "Termed", "Killed"}
    /\ pipe.reaped \in {"No", "Pending", "Done"}
    /\ host \in {"None", "Running", "Dead"}
    /\ kernel.child \in {"None", "Running", "Reaped", "Finalized"}
    /\ kernel.charged \in 0..Amount
    /\ frontier \in {"Current", "Stale"}
    /\ schedule = "None" <=> child \in {"None", "Unregistered", "Gone"}

\* What the ledger says of a session is what the host said: the terminal it
\* holds is the peer's; an outcome the peer has accepted is in the ledger, the
\* child is being contained, or its usage was beyond the ledger's integers; a
\* reconciled reservation was charged the host's last total, after Disposed; and
\* a prompt whose usage froze has no terminal.
EvidenceAgrees ==
    /\ kernel.terminal # "" => kernel.terminal = peer.settled
    /\ peer.settled # "" =>
         \/ kernel.terminal # "" \/ child \in {"Contained"} \cup ReapPhases
         \/ peer.total > KernelCeiling
    /\ kernel.reservation = "Reconciled" =>
         kernel.disposed # 0 /\ kernel.charged = peer.total
    /\ kernel.failure # 0 => kernel.terminal = ""

\* A fenced peer, a closed control pipe and an armed cancellation go together:
\* no frame is written to a host that broke the protocol, and a child that is
\* contained has its signals coming, or was waited for.
FencedIsContained ==
    /\ peer.phase = "Fatal" => child \in {"Contained"} \cup ReapPhases
    /\ child = "Contained" => pipe.cancel # "None" \/ pipe.reaped # "No"
    /\ pipe.cancel # "None" =>
         /\ ~pipe.stdin /\ pipe.control = NoCall
         /\ child \in {"Contained", "Unregistered", "Gone"} \cup ReapPhases

\* An obligation is complete only when its process and its process group are
\* gone and the ledger has finalized the child.
CompletedIsOver ==
    kernel.obligation = "Completed" =>
        host = "Dead" /\ pipe.remains = "Absent" /\ kernel.child = "Finalized"

=============================================================================
