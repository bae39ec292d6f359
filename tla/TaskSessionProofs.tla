-------------------------- MODULE TaskSessionProofs --------------------------
(***************************************************************************)
(* What TaskSession checks on a small instance, for every set of Forum     *)
(* calls, every reservation and every number and order of frames.          *)
(*                                                                         *)
(* The proof is in three layers: the records are well formed (Typed), the  *)
(* peer keeps its own promises whatever frame it judges (PeerSound), and   *)
(* the driver's phase, the receipts and the process agree with the peer    *)
(* (FencedIsContained, DriverFollows, ReceiptsFollow, ReapIsFinal).  On    *)
(* top of them, only a dead process was waited for (WaitedIsDead).         *)
(* The harness of TaskDriver makes the calls in one order of its own: it   *)
(* implements the session, so the same holds of it.                        *)
(***************************************************************************)
EXTENDS TaskDriver, TLAPS

-----------------------------------------------------------------------------
(* Records.                                                                *)

Peers ==
    [phase : PeerPhases, next : Nat \ {0},
     sent : [Commands -> {"None", "Sent", "Accepted", "Rejected"}],
     turn : [evidence : EvidencePhases, stop : Stops \cup {""}, latest : Nat],
     closing : [accepted : Nat, usage : Nat], total : 0..MaxTotal,
     calls : SUBSET Calls, settled : Outcomes \cup {""}]

Pipes ==
    [control : Commands \cup {NoCall}, stdin : BOOLEAN,
     cancel : {"None", "Armed", "Termed", "Killed"}, lost : BOOLEAN,
     reaped : {"No", "Pending", "Done"},
     seen : {"None", "Absent", "Present", "Inaccessible"},
     remains : {"Absent", "Present", "Inaccessible"}, swept : BOOLEAN]

Receipts ==
    [child : {"None", "Running", "Reaped", "Finalized"},
     session : {"None", "AdapterReady", "CreateAuthorized", "CreateDelivered",
                "SessionReady"},
     binding : {"None", "Bound", "Reconciled"},
     prompt : {"None", "Authorized", "Delivered", "Accepted"},
     accepted : Nat, usage : [at : Nat, total : Nat], failure : Nat,
     terminal : Outcomes \cup {""}, settled : Nat,
     dispose : {"None", "Authorized", "Delivered", "Accepted"},
     closeAccepted : Nat, closeUsage : [at : Nat, total : Nat], closeFailure : Nat,
     disposed : Nat, reservation : {"Reserved", "Frozen", "Reconciled"},
     charged : 0..Amount, obligation : {"Active", "Completed"}]

Prompts == [phase : PromptPhases, accepted : Nat, settledAt : Nat, latest : Nat, final : Nat]
Disposes == [phase : DisposePhases, accepted : Nat, final : Nat]

Typed ==
    /\ schedule \in ScheduleStates /\ child \in ChildPhases
    /\ prompt \in Prompts /\ dispose \in Disposes /\ forum \in Calls \cup {NoCall}
    /\ peer \in Peers /\ pipe \in Pipes /\ host \in {"None", "Running", "Dead"}
    /\ kernel \in Receipts /\ frontier \in {"Current", "Stale"}
    /\ schedule = "None" <=> child \in {"None", "Unregistered", "Gone"}

-----------------------------------------------------------------------------
(* The inductive invariants.                                               *)

\* A peer has a turn only for the one prompt it accepted, and none after the
\* outcome of that prompt.
PeerSound(p) ==
    /\ ~HasTurn(p) => p.turn = NoTurn
    /\ HasTurn(p) => p.sent["Prompt"] = "Accepted" /\ p.settled = ""
    /\ p.settled # "" => p.sent["Prompt"] = "Accepted"

EarlyPhases == {"None", "SpawnRegistered", "AdapterReadyRecorded", "CreateAuthorized",
                "CreateDelivered"}

\* Before SessionReady the peer was sent neither a prompt nor a Dispose: no
\* accepted frame can fence it.
EarlyPeer ==
    child \in EarlyPhases =>
        ~HasTurn(peer) /\ peer.sent["Prompt"] = "None" /\ peer.sent["Dispose"] = "None"

\* Unless a usage was beyond the ledger's integers, the driver has noted what
\* the peer has seen of the turn.
DriverFollows ==
    /\ child = "TaskPromptDeliveryPending" => ~HasTurn(peer)
    /\ child = "TaskPromptActive" /\ peer.total <= KernelCeiling =>
         /\ peer.turn.latest # 0 => prompt.latest # 0
         /\ peer.turn.evidence \in {"AwaitingFinalPromptUsage", "AwaitingSettledFrame"} =>
              prompt.settledAt # 0
         /\ peer.turn.evidence = "AwaitingSettledFrame" => prompt.final # 0

\* The receipts a later phase rests on: no frame is judged after the charge,
\* and none after a usage that froze.
ReceiptsFollow ==
    /\ child = "DisposeRequested" /\ dispose.phase = "AwaitingDisposed" =>
         kernel.closeUsage.total = peer.total
    /\ kernel.reservation = "Reconciled" => child \in {"Disposed"} \cup ReapPhases
    /\ kernel.failure # 0 => child \in {"Contained"} \cup ReapPhases

\* A recorded reap is of a dead process; the schedule is reconciled only after
\* the group was found absent, and nothing brings it back.
ReapIsFinal ==
    /\ child \in ReapPhases => host = "Dead"
    /\ schedule = "Reconciled" =>
         child = "Reconciled" /\ pipe.remains = "Absent" /\ kernel.child = "Finalized"
    /\ kernel.obligation = "Completed" => schedule = "Reconciled"

-----------------------------------------------------------------------------
(* The peer, frame by frame.                                               *)

Kinds == {"AdapterReady", "SessionReady", "Unavailable", "Disposed", "Broken", "Eof",
          "CommandResult", "AgentEvent", "ForumToolCall", "Usage", "Settled"}
Says == {"", "Accepted", "Rejected", "Start", "Retry", "Settled", "Other", "Inconsistent"}
        \cup Outcomes

\* What a frame of each kind can say.
FrameShape(f) ==
    /\ f.kind \in Kinds /\ f.on \in Commands \cup {NoCall} /\ f.says \in Says
    /\ f.total \in 0..MaxTotal
    /\ f.kind = "CommandResult" => f.on \in Commands /\ f.says \in {"Accepted", "Rejected"}
    /\ f.kind = "AgentEvent" => f.on \in {"Prompt", NoCall} /\
         f.says \in {"Start", "Retry", "Settled", "Other"} \cup Stops
    /\ f.kind = "ForumToolCall" => f.on \in Calls
    /\ f.kind \in {"Usage", "Unavailable"} => f.on \in {"Prompt", "Dispose"}
    /\ f.kind = "Settled" => f.on = "Prompt" /\ f.says \in Outcomes \cup {"Inconsistent"}

\* Every frame has the shape of its kind.
LEMMA FramesHaveShape == ASSUME NEW f \in Frames PROVE FrameShape(f)
<1>0. MaxTotal \in Nat /\ 0 \in 0..MaxTotal /\ 1..MaxTotal \subseteq 0..MaxTotal
  BY SessionAssumption
<1>1. CASE f \in {Frame("AdapterReady", NoCall, "", 0), Frame("SessionReady", "Create", "", 0),
                  Frame("Unavailable", "Prompt", "", 0), Frame("Unavailable", "Dispose", "", 0),
                  Frame("Disposed", "Dispose", "", 0), Frame("Broken", "Prompt", "", 0),
                  Frame("Eof", "Prompt", "", 0)}
  <2>1. ASSUME NEW k \in {"AdapterReady", "SessionReady", "Unavailable", "Disposed", "Broken",
                          "Eof"},
               NEW c \in {"Create", "Prompt", "Dispose", NoCall}, f = Frame(k, c, "", 0),
               k = "Unavailable" => c \in {"Prompt", "Dispose"}
        PROVE  FrameShape(f)
    <3>1. f.kind = k /\ f.on = c /\ f.says = "" /\ f.total = 0
      BY <2>1 DEF Frame
    <3> QED BY <1>0, <2>1, <3>1 DEF FrameShape, Kinds, Says, Commands
  <2> QED BY <1>1, <2>1
<1>2. CASE f \in [kind : {"CommandResult"}, on : Commands, says : {"Accepted", "Rejected"},
                  total : {0}]
  BY <1>0, <1>2 DEF FrameShape, Kinds, Says
<1>3. CASE f \in [kind : {"AgentEvent"}, on : {"Prompt", NoCall},
                  says : {"Start", "Retry", "Settled", "Other"} \cup Stops, total : {0}]
  BY <1>0, <1>3 DEF FrameShape, Kinds, Says, Outcomes, Commands
<1>4. CASE f \in [kind : {"ForumToolCall"}, on : Calls, says : {""}, total : {0}]
  BY <1>0, <1>4 DEF FrameShape, Kinds, Says, Commands
<1>5. CASE f \in [kind : {"Usage"}, on : {"Prompt", "Dispose"}, says : {""}, total : 1..MaxTotal]
  BY <1>0, <1>5 DEF FrameShape, Kinds, Says, Commands
<1>6. CASE f \in [kind : {"Settled"}, on : {"Prompt"}, says : Outcomes \cup {"Inconsistent"},
                  total : {0}]
  BY <1>0, <1>6 DEF FrameShape, Kinds, Says, Commands
<1> QED BY <1>1, <1>2, <1>3, <1>4, <1>5, <1>6 DEF Frames

\* A fenced peer is a peer: it forgets its turn and its dispose, and nothing else.
LEMMA FenceShape ==
  ASSUME NEW p \in Peers
  PROVE  /\ Fence(p) \in Peers /\ Fence(p).phase = "Fatal"
         /\ Fence(p).turn = NoTurn /\ ~HasTurn(Fence(p))
         /\ Fence(p).sent = p.sent /\ Fence(p).total = p.total
         /\ Fence(p).settled = p.settled /\ Fence(p).next = p.next
         /\ Fence(p).calls = p.calls
BY DEF Peers, Fence, NoTurn, NoClosing, HasTurn, PeerPhases, EvidencePhases

\* What a verdict o on the frame f means to the peer p that gives it: the peer
\* stays sound, a result is taken only for a command that was sent, an outcome
\* or a total is taken only from an accepted frame of its kind, and evidence
\* advances only on the frame that carries it.
Ending == {"AwaitingFinalPromptUsage", "AwaitingSettledFrame"}

Judges(p, f, o) ==
    /\ o.peer \in Peers /\ PeerSound(o.peer)
    /\ o.verdict \in {"Accepted", "Refused", "Missing"}
    /\ \A c \in Commands : o.peer.sent[c] # p.sent[c] => p.sent[c] = "Sent"
    /\ o.peer.settled =
         IF f.kind = "Settled" /\ o.verdict = "Accepted" THEN f.says ELSE p.settled
    /\ o.peer.total = IF f.kind = "Usage" /\ o.verdict = "Accepted" THEN f.total ELSE p.total
    /\ o.peer.total >= p.total
    /\ o.verdict = "Accepted" /\ o.peer.phase = "Fatal" =>
         \/ f.kind = "Unavailable" /\ p.sent[f.on] = "Accepted"
         \/ f.kind = "Settled" /\ f.says = "ProtocolFailed" /\ HasTurn(p)
    /\ o.verdict = "Accepted" /\ f.kind = "Settled" =>
         /\ HasTurn(p) /\ p.turn.latest # 0 /\ f.says \in Outcomes
         /\ f.says \in Stops => p.turn.evidence = "AwaitingSettledFrame"
    /\ o.peer.turn.latest # 0 =>
         \/ p.turn.latest # 0
         \/ f.kind = "Usage" /\ f.on = "Prompt" /\ o.verdict = "Accepted"
    /\ o.peer.turn.evidence \in Ending =>
         \/ p.turn.evidence \in Ending
         \/ f.kind = "AgentEvent" /\ f.says = "Settled" /\ f.on = "Prompt"
            /\ o.verdict = "Accepted"
    /\ o.peer.turn.evidence = "AwaitingSettledFrame" =>
         \/ p.turn.evidence = "AwaitingSettledFrame"
         \/ /\ f.kind = "Usage" /\ f.on = "Prompt" /\ o.verdict = "Accepted"
            /\ p.turn.evidence = "AwaitingFinalPromptUsage"

\* The fields of a peer.
LEMMA PeerFields ==
  ASSUME NEW p \in Peers
  PROVE  /\ p.phase \in PeerPhases /\ p.next \in Nat /\ p.next # 0
         /\ p.sent \in [Commands -> {"None", "Sent", "Accepted", "Rejected"}]
         /\ p.turn \in [evidence : EvidencePhases, stop : Stops \cup {""}, latest : Nat]
         /\ p.closing \in [accepted : Nat, usage : Nat]
         /\ p.total \in Nat /\ p.total \in 0..MaxTotal
         /\ p.calls \subseteq Calls /\ p.settled \in Outcomes \cup {""}
<1>1. MaxTotal \in Nat
  BY SessionAssumption
<1>2. p.total \in 0..MaxTotal
  BY DEF Peers
<1>3. p.total \in Nat
  BY <1>1, <1>2
<1>4. /\ p.phase \in PeerPhases /\ p.next \in Nat /\ p.next # 0
      /\ p.sent \in [Commands -> {"None", "Sent", "Accepted", "Rejected"}]
      /\ p.turn \in [evidence : EvidencePhases, stop : Stops \cup {""}, latest : Nat]
      /\ p.closing \in [accepted : Nat, usage : Nat]
      /\ p.calls \subseteq Calls /\ p.settled \in Outcomes \cup {""}
  BY DEF Peers
<1> QED BY <1>2, <1>3, <1>4

\* A refused frame fences the peer, and teaches it nothing.
LEMMA RefuseJudges ==
  ASSUME NEW p \in Peers, PeerSound(p), NEW f, NEW why \in {"Refused", "Missing"}
  PROVE  Judges(p, f, Refuse(p, why))
<1>1. Refuse(p, why).peer = Fence(p) /\ Refuse(p, why).verdict = why
  BY DEF Refuse
<1>2. PeerSound(Fence(p))
  BY FenceShape DEF PeerSound
<1>3. p.total \in Nat /\ NoTurn.latest = 0 /\ NoTurn.evidence \notin Ending
  BY PeerFields DEF NoTurn, Ending
<1> QED BY <1>1, <1>2, <1>3, FenceShape DEF Judges, Ending

\* What an accepted frame that carries neither an outcome nor a total may do.
LEMMA AcceptJudges ==
  ASSUME NEW p \in Peers, NEW q \in Peers, PeerSound(q), NEW f, q.phase # "Fatal",
         f.kind \notin {"Settled", "Usage"}, q.settled = p.settled, q.total = p.total,
         \A c \in Commands : q.sent[c] # p.sent[c] => p.sent[c] = "Sent",
         q.turn.latest # 0 => p.turn.latest # 0,
         q.turn.evidence \in Ending =>
           \/ p.turn.evidence = q.turn.evidence
           \/ /\ f.kind = "AgentEvent" /\ f.says = "Settled" /\ f.on = "Prompt"
              /\ q.turn.evidence # "AwaitingSettledFrame"
  PROVE  Judges(p, f, Accept(q))
<1>1. Accept(q).peer = q /\ Accept(q).verdict = "Accepted"
  BY DEF Accept
<1>2. p.total \in Nat
  BY PeerFields
<1> QED BY <1>1, <1>2 DEF Judges, Ending

\* observe of AdapterReady and SessionReady
LEMMA HandshakeJudges ==
  ASSUME NEW p \in Peers, PeerSound(p), NEW f, f.kind \in {"AdapterReady", "SessionReady"}
  PROVE  Judges(p, f, ObserveAdapter(p)) /\ Judges(p, f, ObserveReady(p))
<1>1. ASSUME NEW x \in {"Inert", "Ready"}
      PROVE  Judges(p, f, Accept([p EXCEPT !.phase = x]))
  <2> DEFINE q == [p EXCEPT !.phase = x]
  <2>1. /\ q \in Peers /\ q.phase = x /\ q.turn = p.turn /\ q.sent = p.sent
        /\ q.settled = p.settled /\ q.total = p.total
    BY DEF Peers, PeerPhases
  <2> HIDE DEF q
  <2>2. PeerSound(q)
    BY <2>1 DEF PeerSound, HasTurn
  <2>3. Judges(p, f, Accept(q))
    BY <2>1, <2>2, AcceptJudges
  <2> QED BY <2>3 DEF q
<1> QED BY <1>1, RefuseJudges DEF ObserveAdapter, ObserveReady

\* observe_command_result: the first result of a command that was sent.
LEMMA ResultJudges ==
  ASSUME NEW p \in Peers, PeerSound(p), p.phase # "Fatal", NEW f, FrameShape(f),
         f.kind = "CommandResult"
  PROVE  Judges(p, f, ObserveResult(p, f))
<1> DEFINE sent == [p.sent EXCEPT ![f.on] = f.says]
           q == [p EXCEPT !.sent[f.on] = f.says]
<1>1. /\ f.on \in Commands /\ f.says \in {"Accepted", "Rejected"} /\ "Prompt" \in Commands
      /\ p.sent \in [Commands -> {"None", "Sent", "Accepted", "Rejected"}]
      /\ p.turn \in [evidence : EvidencePhases, stop : Stops \cup {""}, latest : Nat]
      /\ p.closing \in [accepted : Nat, usage : Nat]
      /\ p.phase \in PeerPhases
  BY PeerFields DEF FrameShape, Commands
<1>2. /\ sent \in [Commands -> {"None", "Sent", "Accepted", "Rejected"}]
      /\ sent[f.on] = f.says /\ \A c \in Commands : c # f.on => sent[c] = p.sent[c]
  BY <1>1
<1>3. /\ q \in Peers /\ q.sent = sent /\ q.phase = p.phase /\ q.turn = p.turn
      /\ q.closing = p.closing /\ q.settled = p.settled /\ q.total = p.total
  BY <1>1 DEF Peers
<1>4. CASE p.sent[f.on] # "Sent"
  <2>1. ObserveResult(p, f) = Refuse(p, "Refused")
    BY <1>4 DEF ObserveResult
  <2> QED BY <2>1, RefuseJudges
<1>5. ASSUME p.sent[f.on] = "Sent"
      PROVE  PeerSound(q)
  BY <1>1, <1>2, <1>3, <1>5, ZenonT(40) DEF PeerSound, HasTurn
<1>6. CASE p.sent[f.on] = "Sent" /\ f.says = "Rejected" /\ f.on = "Dispose"
  <2>1. /\ ObserveResult(p, f).peer = Fence(q) /\ ObserveResult(p, f).verdict = "Refused"
    BY <1>6 DEF ObserveResult, Refuse
  <2> HIDE DEF q, sent
  <2>2. /\ Fence(q) \in Peers /\ Fence(q).turn = NoTurn /\ Fence(q).sent = sent
        /\ Fence(q).total = p.total /\ Fence(q).settled = p.settled /\ ~HasTurn(Fence(q))
    BY <1>3, FenceShape
  <2>3. PeerSound(Fence(q))
    BY <1>3, <1>5, <1>6, <2>2 DEF PeerSound
  <2>4. p.total \in Nat /\ NoTurn.latest = 0 /\ NoTurn.evidence \notin Ending
    BY PeerFields DEF NoTurn, Ending
  <2>5. \A c \in Commands : sent[c] # p.sent[c] => p.sent[c] = "Sent"
    BY <1>2, <1>6
  <2>6. NoTurn.evidence # "AwaitingSettledFrame"
    BY DEF NoTurn
  <2> QED BY <2>1, <2>2, <2>3, <2>4, <2>5, <2>6 DEF Judges
<1>7. CASE p.sent[f.on] = "Sent" /\ f.says = "Rejected" /\ f.on # "Dispose"
  <2>1. ObserveResult(p, f) = Accept(q)
    BY <1>7 DEF ObserveResult
  <2> HIDE DEF q, sent
  <2> QED BY <1>2, <1>3, <1>5, <1>7, <2>1, AcceptJudges
<1>8. CASE p.sent[f.on] = "Sent" /\ f.says = "Accepted"
  <2> DEFINE phase == CASE f.on = "Create" -> "Creating"
                        [] f.on = "Dispose" -> "Closing"
                        [] OTHER -> p.phase
             turn == [p.turn EXCEPT !.evidence =
                        IF f.on = "Prompt" THEN "AwaitingAgentStart" ELSE @]
             closing == [p.closing EXCEPT !.accepted =
                           IF f.on = "Dispose" THEN p.next - 1 ELSE @]
             r == [p EXCEPT !.phase = phase, !.sent = sent, !.turn = turn, !.closing = closing]
  <2>0. p.next - 1 \in Nat
    <3>1. p.next \in Nat /\ p.next # 0
      BY PeerFields
    <3> QED BY <3>1
  <2>1. ObserveResult(p, f) = Accept(r)
    <3>1. r = [q EXCEPT
                 !.phase = CASE f.on = "Create" -> "Creating"
                             [] f.on = "Dispose" -> "Closing"
                             [] OTHER -> @,
                 !.turn.evidence = IF f.on = "Prompt" THEN "AwaitingAgentStart" ELSE @,
                 !.closing.accepted = IF f.on = "Dispose" THEN p.next - 1 ELSE @]
      BY <1>1 DEF Peers
    <3> QED BY <1>8, <3>1 DEF ObserveResult
  <2>2. phase \in PeerPhases \ {"Fatal"}
    BY <1>1 DEF PeerPhases
  <2>3. /\ turn \in [evidence : EvidencePhases, stop : Stops \cup {""}, latest : Nat]
        /\ turn.latest = p.turn.latest
        /\ turn.evidence = IF f.on = "Prompt" THEN "AwaitingAgentStart" ELSE p.turn.evidence
        /\ f.on # "Prompt" => turn = p.turn
    BY <1>1 DEF EvidencePhases
  <2>4. closing \in [accepted : Nat, usage : Nat]
    BY <1>1, <2>0
  <2> HIDE DEF phase, turn, closing, sent
  <2>5. /\ r \in Peers /\ r.phase = phase /\ r.sent = sent /\ r.turn = turn
        /\ r.settled = p.settled /\ r.total = p.total
    BY <1>2, <2>2, <2>3, <2>4 DEF Peers
  <2> HIDE DEF r
  <2>6. PeerSound(r)
    BY <1>1, <1>2, <1>8, <2>3, <2>5 DEF PeerSound, HasTurn
  <2>7. Judges(p, f, Accept(r))
    <3>1. r.turn.evidence \in Ending => p.turn.evidence = r.turn.evidence
      BY <2>3, <2>5 DEF Ending
    <3>2. \A c \in Commands : r.sent[c] # p.sent[c] => p.sent[c] = "Sent"
      BY <1>2, <1>8, <2>5
    <3> QED BY <2>2, <2>3, <2>5, <2>6, <3>1, <3>2, AcceptJudges
  <2> QED BY <2>1, <2>7
<1> QED BY <1>1, <1>4, <1>6, <1>7, <1>8

Turns == [evidence : EvidencePhases, stop : Stops \cup {""}, latest : Nat]

\* The turn of a peer is replaced by another turn of the same prompt.
LEMMA TurnJudges ==
  ASSUME NEW p \in Peers, PeerSound(p), p.phase # "Fatal", HasTurn(p), NEW f,
         f.kind = "AgentEvent", f.on = "Prompt",
         NEW turn \in Turns, turn.evidence # "NoTurn", turn.latest = p.turn.latest,
         turn.evidence \in Ending =>
           \/ turn.evidence = p.turn.evidence
           \/ f.says = "Settled" /\ turn.evidence # "AwaitingSettledFrame"
  PROVE  Judges(p, f, Accept([p EXCEPT !.turn = turn]))
<1> DEFINE q == [p EXCEPT !.turn = turn]
<1>1. /\ q \in Peers /\ q.phase = p.phase /\ q.turn = turn /\ q.sent = p.sent
      /\ q.settled = p.settled /\ q.total = p.total
  BY DEF Peers, Turns
<1> HIDE DEF q
<1>2. PeerSound(q)
  BY <1>1 DEF PeerSound, HasTurn
<1>3. Judges(p, f, Accept(q))
  BY <1>1, <1>2, AcceptJudges
<1> QED BY <1>3 DEF q

\* observe_agent_event
LEMMA AgentEventJudges ==
  ASSUME NEW p \in Peers, PeerSound(p), p.phase # "Fatal", NEW f, FrameShape(f),
         f.kind = "AgentEvent"
  PROVE  Judges(p, f, ObserveAgentEvent(p, f))
<1>1. CASE ObserveAgentEvent(p, f) = Refuse(p, "Refused")
  BY <1>1, RefuseJudges
<1>2. CASE ObserveAgentEvent(p, f) = Accept(p)
  BY <1>2, AcceptJudges
<1>3. CASE /\ HasTurn(p) /\ f.on = "Prompt" /\ EvidenceAllows(p.turn.evidence, f.says)
           /\ ObserveAgentEvent(p, f) = Accept([p EXCEPT !.turn = EvidenceAfter(p.turn, f.says)])
  <2> DEFINE turn == EvidenceAfter(p.turn, f.says)
  <2>1. p.turn \in Turns /\ p.turn.evidence # "NoTurn"
    BY <1>3, PeerFields DEF Turns, HasTurn
  <2>2. f.says \in {"Start", "Retry", "Settled", "Other"} \cup Stops
    BY DEF FrameShape
  <2>3. /\ turn \in Turns /\ turn.evidence # "NoTurn" /\ turn.latest = p.turn.latest
        /\ turn.evidence \in Ending =>
             \/ turn.evidence = p.turn.evidence
             \/ f.says = "Settled" /\ turn.evidence # "AwaitingSettledFrame"
    BY <2>1, <2>2 DEF EvidenceAfter, Turns, Stops, EvidencePhases, Ending
  <2> HIDE DEF turn
  <2>4. Judges(p, f, Accept([p EXCEPT !.turn = turn]))
    BY <1>3, <2>3, TurnJudges
  <2> QED BY <1>3, <2>4 DEF turn
<1> QED BY <1>1, <1>2, <1>3 DEF ObserveAgentEvent

\* observe_forum_tool_call
LEMMA ForumToolCallJudges ==
  ASSUME NEW p \in Peers, PeerSound(p), p.phase # "Fatal", NEW f, FrameShape(f),
         f.kind = "ForumToolCall"
  PROVE  Judges(p, f, ObserveForumToolCall(p, f))
<1> DEFINE q == [p EXCEPT !.calls = @ \cup {f.on}]
<1>1. f.on \in Calls /\ p.calls \cup {f.on} \in SUBSET Calls
  BY PeerFields DEF FrameShape
<1>2. /\ q \in Peers /\ q.phase = p.phase /\ q.turn = p.turn /\ q.sent = p.sent
      /\ q.settled = p.settled /\ q.total = p.total
  BY <1>1 DEF Peers
<1> HIDE DEF q
<1>3. PeerSound(q)
  BY <1>2 DEF PeerSound, HasTurn
<1>4. Judges(p, f, Accept(q))
  BY <1>2, <1>3, AcceptJudges
<1> QED BY <1>4, RefuseJudges DEF ObserveForumToolCall, q

\* observe_disposed
LEMMA DisposedJudges ==
  ASSUME NEW p \in Peers, PeerSound(p), NEW f, f.kind = "Disposed"
  PROVE  Judges(p, f, ObserveDisposed(p))
<1> DEFINE q == [p EXCEPT !.phase = "Disposed", !.closing = NoClosing]
<1>1. /\ q \in Peers /\ q.phase = "Disposed" /\ q.turn = p.turn /\ q.sent = p.sent
      /\ q.settled = p.settled /\ q.total = p.total
  BY DEF Peers, NoClosing, PeerPhases
<1> HIDE DEF q
<1>2. PeerSound(q)
  BY <1>1 DEF PeerSound, HasTurn
<1>3. Judges(p, f, Accept(q))
  BY <1>1, <1>2, AcceptJudges
<1> QED BY <1>3, RefuseJudges DEF ObserveDisposed, q

\* observe_settled: the outcome is taken, and the turn is over.
LEMMA SettledJudges ==
  ASSUME NEW p \in Peers, PeerSound(p), p.phase # "Fatal", NEW f, FrameShape(f),
         f.kind = "Settled"
  PROVE  Judges(p, f, ObserveSettled(p, f))
<1> DEFINE q == [p EXCEPT !.turn = NoTurn, !.settled = f.says]
           r == IF f.says = "ProtocolFailed" THEN Fence(q) ELSE q
<1>1. CASE ObserveSettled(p, f) \in {Refuse(p, "Refused"), Refuse(p, "Missing")}
  BY <1>1, RefuseJudges
<1>2. CASE /\ HasTurn(p) /\ f.says # "Inconsistent" /\ AdjacentUsage(p)
           /\ f.says \in Stops => p.turn.evidence = "AwaitingSettledFrame"
           /\ ObserveSettled(p, f) = Accept(r)
  <2>1. f.says \in Outcomes
    BY <1>2 DEF FrameShape
  <2>2. /\ q \in Peers /\ q.phase = p.phase /\ q.turn = NoTurn /\ q.sent = p.sent
        /\ q.settled = f.says /\ q.total = p.total
    BY <2>1 DEF Peers, NoTurn, EvidencePhases
  <2> HIDE DEF q
  <2>3. /\ r \in Peers /\ r.turn = NoTurn /\ r.sent = p.sent
        /\ r.settled = f.says /\ r.total = p.total /\ ~HasTurn(r)
        /\ r.phase = "Fatal" => f.says = "ProtocolFailed"
    <3>1. CASE f.says = "ProtocolFailed"
      BY <2>2, <3>1, FenceShape
    <3>2. CASE f.says # "ProtocolFailed"
      <4>1. r = q
        BY <3>2
      <4>2. NoTurn.evidence = "NoTurn"
        BY DEF NoTurn
      <4> QED BY <2>2, <3>2, <4>1, <4>2 DEF HasTurn
    <3> QED BY <3>1, <3>2
  <2>4. Accept(r).peer = r /\ Accept(r).verdict = "Accepted"
    BY DEF Accept
  <2> HIDE DEF r
  <2>5. PeerSound(r)
    BY <1>2, <2>3 DEF PeerSound
  <2>6. /\ p.total \in Nat /\ NoTurn.latest = 0 /\ NoTurn.evidence \notin Ending
        /\ NoTurn.evidence # "AwaitingSettledFrame"
    BY PeerFields DEF NoTurn, Ending
  <2>7. Judges(p, f, Accept(r))
    BY <1>2, <2>1, <2>3, <2>4, <2>5, <2>6 DEF Judges, AdjacentUsage
  <2> QED BY <1>2, <2>7
<1> QED BY <1>1, <1>2 DEF ObserveSettled

\* observe_usage_available and observe_usage_unavailable
LEMMA UsageJudges ==
  ASSUME NEW p \in Peers, PeerSound(p), p.phase # "Fatal", NEW f, FrameShape(f),
         f.kind \in {"Usage", "Unavailable"}
  PROVE  Judges(p, f, ObserveUsage(p, f))
<1>0. /\ p.turn \in Turns /\ p.closing \in [accepted : Nat, usage : Nat]
      /\ p.total \in Nat /\ f.on \in {"Prompt", "Dispose"} /\ f.total \in 0..MaxTotal
  BY PeerFields DEF FrameShape, Turns
<1>1. CASE ObserveUsage(p, f) = Refuse(p, "Refused")
  BY <1>1, RefuseJudges
<1>2. CASE /\ UsageBelongs(p, f) /\ f.kind = "Unavailable"
           /\ ObserveUsage(p, f) = Accept(Fence(p))
  <2>1. PeerSound(Fence(p))
    BY FenceShape DEF PeerSound
  <2>2. /\ NoTurn.latest = 0 /\ NoTurn.evidence \notin Ending
        /\ NoTurn.evidence # "AwaitingSettledFrame"
    BY DEF NoTurn, Ending
  <2>3. Accept(Fence(p)).peer = Fence(p) /\ Accept(Fence(p)).verdict = "Accepted"
    BY DEF Accept
  <2>4. p.sent[f.on] = "Accepted"
    BY <1>2 DEF UsageBelongs
  <2>5. Judges(p, f, Accept(Fence(p)))
    BY <1>0, <1>2, <2>1, <2>2, <2>3, <2>4, FenceShape DEF Judges
  <2> QED BY <1>2, <2>5
<1>3. ASSUME UsageBelongs(p, f), f.kind = "Usage", f.total >= p.total,
             p.turn.evidence # "AwaitingSettledFrame",
             NEW turn \in Turns, NEW closing \in [accepted : Nat, usage : Nat],
             turn = UsageSeen(p)
      PROVE  Judges(p, f, Accept([p EXCEPT !.total = f.total, !.closing = closing, !.turn = turn]))
  <2> DEFINE q == [p EXCEPT !.total = f.total, !.closing = closing, !.turn = turn]
  <2>1. /\ q \in Peers /\ q.phase = p.phase /\ q.turn = turn /\ q.sent = p.sent
        /\ q.settled = p.settled /\ q.total = f.total
    BY <1>0, <1>3 DEF Peers, Turns
  <2> HIDE DEF q
  <2>2. HasTurn(p) =>
          /\ turn.evidence = IF p.turn.evidence = "AwaitingFinalPromptUsage"
                             THEN "AwaitingSettledFrame" ELSE p.turn.evidence
          /\ f.on = "Prompt"
    BY <1>0, <1>3 DEF UsageBelongs, UsageSeen, Turns
  <2>3. ~HasTurn(p) => turn = p.turn
    BY <1>3 DEF UsageSeen
  <2>4. PeerSound(q)
    BY <2>1, <2>2, <2>3 DEF PeerSound, HasTurn
  <2>5. Accept(q).peer = q /\ Accept(q).verdict = "Accepted"
    BY DEF Accept
  <2>6. turn.latest # 0 => p.turn.latest # 0 \/ f.on = "Prompt"
    BY <2>2, <2>3
  <2>7. turn.evidence \in Ending => p.turn.evidence \in Ending
    BY <2>2, <2>3 DEF Ending
  <2>8. turn.evidence = "AwaitingSettledFrame" =>
          p.turn.evidence = "AwaitingFinalPromptUsage" /\ f.on = "Prompt"
    BY <1>3, <2>2, <2>3
  <2>9. Judges(p, f, Accept(q))
    BY <1>0, <1>3, <2>1, <2>4, <2>5, <2>6, <2>7, <2>8 DEF Judges
  <2> QED BY <2>9 DEF q
<1>4. CASE UsageBelongs(p, f) /\ f.kind = "Usage"
           /\ ~(f.total < p.total \/ p.turn.evidence = "AwaitingSettledFrame")
  <2> DEFINE turn == UsageSeen(p)
             closing == [p.closing EXCEPT
                           !.usage = IF p.closing.accepted # 0 THEN p.next - 1 ELSE @]
  <2>1. p.next - 1 \in Nat
    <3>1. p.next \in Nat /\ p.next # 0
      BY PeerFields
    <3> QED BY <3>1
  <2>2. f.total >= p.total
    <3>1. MaxTotal \in Nat
      BY SessionAssumption
    <3> QED BY <1>0, <1>4, <3>1
  <2>3. turn \in Turns /\ closing \in [accepted : Nat, usage : Nat]
    BY <1>0, <2>1 DEF Turns, EvidencePhases, UsageSeen
  <2>4. ObserveUsage(p, f) =
          Accept([p EXCEPT !.total = f.total, !.closing = closing, !.turn = turn])
    <3>1. [p EXCEPT !.total = f.total, !.closing = closing, !.turn = turn] =
          [p EXCEPT
             !.total = f.total,
             !.closing.usage = IF p.closing.accepted # 0 THEN p.next - 1 ELSE @,
             !.turn = turn]
      BY DEF Peers
    <3> QED BY <1>4, <3>1 DEF ObserveUsage
  <2> QED BY <1>3, <1>4, <2>2, <2>3, <2>4
<1> QED BY <1>1, <1>2, <1>4 DEF ObserveUsage

\* Every frame is judged, in whatever state the peer is.
LEMMA ObserveJudges ==
  ASSUME NEW p \in Peers, PeerSound(p), NEW f \in Frames
  PROVE  Judges(p, f, Observe(p, f))
<1> DEFINE q == [p EXCEPT !.next = @ + 1]
<1>0. FrameShape(f)
  BY FramesHaveShape
<1>1. /\ q \in Peers /\ q.phase = p.phase /\ q.turn = p.turn /\ q.sent = p.sent
      /\ q.settled = p.settled /\ q.total = p.total
  <2>1. p.next \in Nat /\ p.next # 0
    BY PeerFields
  <2>2. p.next + 1 \in Nat \ {0}
    BY <2>1
  <2> QED BY <2>2 DEF Peers
<1>2. PeerSound(q)
  <2> HIDE DEF q
  <2> QED BY <1>1 DEF PeerSound, HasTurn
<1>3. ASSUME NEW o, Judges(q, f, o)
      PROVE  Judges(p, f, o)
  <2> HIDE DEF q
  <2> QED BY <1>1, <1>3 DEF Judges, HasTurn
<1>4. CASE f.kind = "Eof"
  <2> DEFINE r == IF p.phase \in {"Disposed", "Fatal"} THEN p ELSE Fence(p)
  <2>1. Observe(p, f).peer = r /\ Observe(p, f).verdict = "Refused"
    BY <1>4 DEF Observe
  <2>2. Judges(p, f, Refuse(p, "Refused"))
    BY RefuseJudges
  <2>3. CASE p.phase \in {"Disposed", "Fatal"}
    <3>1. p.total \in Nat
      BY PeerFields
    <3> QED BY <2>1, <2>3, <3>1 DEF Judges
  <2>4. CASE p.phase \notin {"Disposed", "Fatal"}
    <3>1. Refuse(p, "Refused").peer = Fence(p) /\ Refuse(p, "Refused").verdict = "Refused"
      BY DEF Refuse
    <3> QED BY <2>1, <2>2, <2>4, <3>1 DEF Judges
  <2> QED BY <2>3, <2>4
<1>5. CASE f.kind = "Broken" \/ (f.kind # "Eof" /\ p.phase = "Fatal")
  <2>1. Observe(p, f) = Refuse(q, "Refused")
    BY <1>5 DEF Observe
  <2> QED BY <1>1, <1>2, <1>3, <2>1, RefuseJudges
<1>6. CASE f.kind \notin {"Eof", "Broken"} /\ p.phase # "Fatal"
  <2> DEFINE o == Observe(p, f)
  <2>1. /\ f.kind = "AdapterReady" => o = ObserveAdapter(q)
        /\ f.kind = "SessionReady" => o = ObserveReady(q)
        /\ f.kind = "CommandResult" => o = ObserveResult(q, f)
        /\ f.kind = "AgentEvent" => o = ObserveAgentEvent(q, f)
        /\ f.kind = "ForumToolCall" => o = ObserveForumToolCall(q, f)
        /\ f.kind \in {"Usage", "Unavailable"} => o = ObserveUsage(q, f)
        /\ f.kind = "Settled" => o = ObserveSettled(q, f)
        /\ f.kind = "Disposed" => o = ObserveDisposed(q)
    BY <1>6 DEF Observe
  <2>2. f.kind \in Kinds
    BY <1>0 DEF FrameShape
  <2> HIDE DEF q, o
  <2>3. Judges(q, f, o)
    BY <1>0, <1>1, <1>2, <1>6, <2>1, <2>2, HandshakeJudges, ResultJudges, AgentEventJudges,
       ForumToolCallJudges, UsageJudges, SettledJudges, DisposedJudges DEF Kinds
  <2> QED BY <1>3, <2>3 DEF o
<1> QED BY <1>4, <1>5, <1>6

-----------------------------------------------------------------------------
(* Staging, containment and receipts.                                      *)

\* A command the peer admits is sent, and changes nothing else.
LEMMA StagedPeer ==
  ASSUME NEW p \in Peers, PeerSound(p), NEW c \in Commands, Admits(p, c)
  PROVE  /\ Admitted(p, c) \in Peers /\ PeerSound(Admitted(p, c))
         /\ Admitted(p, c).phase = p.phase /\ Admitted(p, c).turn = p.turn
         /\ Admitted(p, c).total = p.total /\ Admitted(p, c).settled = p.settled
         /\ \A d \in Commands : d # c => Admitted(p, c).sent[d] = p.sent[d]
<1> DEFINE q == Admitted(p, c)
<1>1. /\ q \in Peers /\ q.phase = p.phase /\ q.turn = p.turn
      /\ q.total = p.total /\ q.settled = p.settled
      /\ \A d \in Commands : d # c => q.sent[d] = p.sent[d]
  BY DEF Admitted, Peers
<1>2. p.sent[c] = "None" /\ "Prompt" \in Commands
  BY DEF Admits, Commands
<1> HIDE DEF q
<1>3. PeerSound(q)
  <2>1. c = "Prompt" => ~HasTurn(p) /\ p.settled = ""
    BY <1>2 DEF PeerSound
  <2> QED BY <1>1, <1>2, <2>1 DEF PeerSound, HasTurn
<1> QED BY <1>1, <1>3 DEF q

\* However a frame fails to be staged, the peer stays sound.
LEMMA StageFailsPeer ==
  ASSUME peer \in Peers, PeerSound(peer), NEW c \in Commands, NEW a, StageFails(c, a)
  PROVE  peer' \in Peers /\ PeerSound(peer)' /\ peer'.settled = peer.settled
<1>1. \/ peer' = peer
      \/ Admits(peer, c) /\ peer' = Admitted(peer, c)
      \/ peer' = Fence(peer)
  BY DEF StageFails
<1>2. CASE peer' = peer
  BY <1>2 DEF PeerSound, HasTurn
<1>3. CASE Admits(peer, c) /\ peer' = Admitted(peer, c)
  BY <1>3, StagedPeer DEF PeerSound, HasTurn
<1>4. CASE peer' = Fence(peer)
  BY <1>4, FenceShape DEF PeerSound, HasTurn
<1> QED BY <1>1, <1>2, <1>3, <1>4

\* Containment arms a cancellation and closes the control pipe, unless the child
\* was reaped.
LEMMA ArmShape ==
  ASSUME NEW p \in Pipes
  PROVE  /\ Arm(p) \in Pipes /\ Arm(p).reaped = p.reaped /\ Arm(p).remains = p.remains
         /\ \/ Arm(p) = p /\ p.reaped = "Done"
            \/ Arm(p).cancel # "None" /\ ~Arm(p).stdin /\ Arm(p).control = NoCall
<1>1. CASE p.reaped = "Done"
  BY <1>1 DEF Arm
<1>2. CASE p.reaped # "Done"
  BY <1>2 DEF Arm, Pipes
<1> QED BY <1>1, <1>2

\* The phases in which the driver still talks to the host.
ActivePhases == {"SpawnRegistered", "AdapterReadyRecorded", "CreateAuthorized",
                 "CreateDelivered", "SessionReadyRecorded", "TaskPromptDeliveryPending",
                 "TaskPromptActive", "TaskPromptTerminalRecorded",
                 "DisposeDeliveryPending", "DisposeRequested"}

SessionInv ==
    /\ Typed /\ PeerSound(peer) /\ EarlyPeer /\ FencedIsContained /\ DriverFollows
    /\ ReceiptsFollow /\ EvidenceAgrees /\ ReapIsFinal

\* The part of the ledger that no step of the conversation may touch.
SameCustody(k, l) == l.child = k.child /\ l.obligation = k.obligation

\* Where the ledger's evidence is left alone.
SameEvidence(k, l) ==
    /\ SameCustody(k, l) /\ l.terminal = k.terminal /\ l.failure = k.failure
    /\ l.reservation = k.reservation /\ l.charged = k.charged /\ l.disposed = k.disposed
    /\ l.closeUsage = k.closeUsage

\* The state a step of the conversation leaves to the variables it may write.
Rest ==
    /\ UNCHANGED host /\ SameCustody(kernel, kernel')
    /\ prompt' \in Prompts /\ dispose' \in Disposes /\ forum' \in Calls \cup {NoCall}
    /\ frontier' \in {"Current", "Stale"} /\ kernel' \in Receipts
    /\ peer' \in Peers /\ PeerSound(peer)'
    /\ kernel'.terminal # "" => kernel'.terminal = peer'.settled

\* A step that contains the child keeps the invariant, whatever else it wrote.
LEMMA ContainKeeps ==
  ASSUME SessionInv, child \in ActivePhases, Contained, UNCHANGED schedule, Rest,
         kernel'.reservation # "Reconciled", kernel'.failure # 0 => kernel'.terminal = ""
  PROVE  SessionInv'
<1>1. /\ Arm(pipe) \in Pipes /\ pipe' = Arm(pipe) /\ child' = "Contained"
      /\ \/ pipe' = pipe /\ pipe.reaped = "Done"
         \/ pipe'.cancel # "None" /\ ~pipe'.stdin /\ pipe'.control = NoCall
  BY ArmShape DEF Contained, SessionInv, Typed
<1>2. Typed'
  BY <1>1 DEF SessionInv, Typed, Rest, ActivePhases, ChildPhases, SameCustody
<1>3. PeerSound(peer)'
  BY DEF Rest
<1>4. EarlyPeer' /\ DriverFollows' /\ ReceiptsFollow'
  BY <1>1 DEF EarlyPeer, EarlyPhases, DriverFollows, ReceiptsFollow
<1>5. FencedIsContained'
  BY <1>1 DEF SessionInv, FencedIsContained
<1>6. EvidenceAgrees'
  BY <1>1 DEF Rest, EvidenceAgrees
<1>7. ReapIsFinal'
  BY <1>1 DEF SessionInv, ReapIsFinal, ActivePhases, Rest, SameCustody, ReapPhases
<1> QED BY <1>2, <1>3, <1>4, <1>5, <1>6, <1>7 DEF SessionInv

\* A step that goes on with the conversation keeps it if the peer is not fenced.
LEMMA AdvanceKeeps ==
  ASSUME SessionInv, child \in ActivePhases, child' \in ActivePhases, Rest,
         schedule' = schedule \/ schedule' \in ScheduleStates \ {"None", "Reconciled"},
         pipe' \in Pipes, pipe'.cancel = pipe.cancel, pipe'.reaped = pipe.reaped,
         peer'.phase # "Fatal",
         kernel'.reservation # "Reconciled", kernel'.failure = kernel.failure,
         peer'.settled # "" => kernel'.terminal # "" \/ peer'.total > KernelCeiling,
         EarlyPeer', DriverFollows',
         child' = "DisposeRequested" /\ dispose'.phase = "AwaitingDisposed" =>
           kernel'.closeUsage.total = peer'.total
  PROVE  SessionInv'
<1>1. /\ pipe.cancel = "None" /\ kernel.failure = 0 /\ kernel.obligation # "Completed"
      /\ schedule \notin {"None", "Reconciled"}
  BY DEF SessionInv, FencedIsContained, ReceiptsFollow, ReapIsFinal, Typed, ActivePhases,
     ReapPhases
<1>2. Typed'
  BY <1>1 DEF SessionInv, Typed, Rest, ActivePhases, ChildPhases
<1>3. PeerSound(peer)'
  BY DEF Rest
<1>4. ReceiptsFollow'
  BY <1>1 DEF ReceiptsFollow
<1>5. FencedIsContained'
  BY <1>1 DEF FencedIsContained, ActivePhases
<1>6. EvidenceAgrees'
  BY <1>1 DEF Rest, EvidenceAgrees
<1>7. ReapIsFinal'
  BY <1>1 DEF ReapIsFinal, ActivePhases, Rest, SameCustody, ReapPhases
<1> QED BY <1>2, <1>3, <1>4, <1>5, <1>6, <1>7 DEF SessionInv

\* What the invariant says of a child the driver still talks to.
LEMMA ActiveFacts ==
  ASSUME SessionInv, child \in ActivePhases
  PROVE  /\ pipe.cancel = "None" /\ kernel.failure = 0 /\ kernel.reservation # "Reconciled"
         /\ schedule \notin {"None", "Reconciled"} /\ peer.phase # "Fatal"
         /\ peer.settled # "" => kernel.terminal # "" \/ peer.total > KernelCeiling
         /\ kernel.terminal # "" => kernel.terminal = peer.settled
         /\ peer \in Peers /\ PeerSound(peer) /\ kernel \in Receipts /\ pipe \in Pipes
         /\ prompt \in Prompts /\ dispose \in Disposes /\ forum \in Calls \cup {NoCall}
         /\ frontier \in {"Current", "Stale"} /\ schedule \in ScheduleStates
         /\ peer.total \in Nat /\ KernelCeiling \in Nat
<1>1. peer \in Peers /\ KernelCeiling \in Nat
  BY SessionAssumption DEF SessionInv, Typed
<1>2. peer.total \in Nat
  BY <1>1, PeerFields
<1> QED BY <1>1, <1>2 DEF SessionInv, FencedIsContained, ReceiptsFollow, ReapIsFinal, Typed,
           ActivePhases, ReapPhases, EvidenceAgrees

\* The driver contains and writes no evidence.
LEMMA QuietContained ==
  ASSUME SessionInv, child \in ActivePhases, Contained, UNCHANGED <<schedule, host>>,
         prompt' \in Prompts, dispose' \in Disposes, forum' \in Calls \cup {NoCall}, kernel' \in Receipts, SameEvidence(kernel, kernel'),
         frontier' \in {"Current", "Stale"}, peer' \in Peers, PeerSound(peer)',
         kernel.terminal # "" => peer'.settled = peer.settled
  PROVE  SessionInv'
<1>1. Rest
  BY ActiveFacts DEF Rest, SameEvidence
<1>2. kernel'.reservation # "Reconciled" /\ kernel'.failure = 0
  BY ActiveFacts DEF SameEvidence
<1> QED BY <1>1, <1>2, ContainKeeps

\* The same, as the driver's error paths do it.
LEMMA QuietContain ==
  ASSUME SessionInv, child \in ActivePhases, NEW a, Contain(a), UNCHANGED <<schedule, host>>,
         forum' \in Calls \cup {NoCall}, kernel' \in Receipts, SameEvidence(kernel, kernel'),
         frontier' \in {"Current", "Stale"}, peer' \in Peers, PeerSound(peer)',
         kernel.terminal # "" => peer'.settled = peer.settled
  PROVE  SessionInv'
<1>1. Contained /\ UNCHANGED <<prompt, dispose>>
  BY DEF Contain
<1> QED BY <1>1, ActiveFacts, QuietContained

\* The driver goes on and writes no evidence.
LEMMA QuietAdvance ==
  ASSUME SessionInv, child \in ActivePhases, child' \in ActivePhases, UNCHANGED host,
         schedule' = schedule \/ schedule' \in ScheduleStates \ {"None", "Reconciled"},
         pipe' \in Pipes, pipe'.cancel = pipe.cancel, pipe'.reaped = pipe.reaped,
         prompt' \in Prompts, dispose' \in Disposes, forum' \in Calls \cup {NoCall},
         kernel' \in Receipts, SameEvidence(kernel, kernel'), frontier' \in {"Current", "Stale"},
         peer' \in Peers, PeerSound(peer)', peer'.phase # "Fatal",
         peer'.settled = peer.settled, peer'.total >= peer.total,
         EarlyPeer', DriverFollows',
         child' = "DisposeRequested" => dispose'.phase # "AwaitingDisposed"
  PROVE  SessionInv'
<1>1. Rest
  BY ActiveFacts DEF Rest, SameEvidence
<1>2. kernel'.reservation # "Reconciled" /\ kernel'.failure = kernel.failure
  BY ActiveFacts DEF SameEvidence
<1>3. peer'.settled # "" => kernel'.terminal # "" \/ peer'.total > KernelCeiling
  <2>1. peer'.total \in Nat
    BY PeerFields
  <2>2. kernel'.terminal = kernel.terminal
    BY DEF SameEvidence
  <2>3. peer.settled # "" => kernel.terminal # "" \/ peer.total > KernelCeiling
    BY ActiveFacts
  <2>4. peer.total \in Nat /\ KernelCeiling \in Nat
    BY ActiveFacts
  <2>5. peer.total > KernelCeiling => peer'.total > KernelCeiling
    BY <2>1, <2>4
  <2> QED BY <2>2, <2>3, <2>5
<1> QED BY <1>1, <1>2, <1>3, AdvanceKeeps

\* The peer after any frame: an outcome the ledger holds is not replaced.
LEMMA ObservedPeer ==
  ASSUME SessionInv, NEW f \in Frames, peer' = Observe(peer, f).peer
  PROVE  /\ Judges(peer, f, Observe(peer, f))
         /\ peer' \in Peers /\ PeerSound(peer)' /\ peer'.total >= peer.total
         /\ kernel.terminal # "" => peer'.settled = peer.settled
         /\ ~HasTurn(peer) => peer'.settled = peer.settled
<1>1. peer \in Peers /\ PeerSound(peer)
  BY DEF SessionInv, Typed
<1>2. Judges(peer, f, Observe(peer, f))
  BY <1>1, ObserveJudges
<1>3. peer' \in Peers /\ PeerSound(peer)' /\ peer'.total >= peer.total
  BY <1>2 DEF Judges, PeerSound, HasTurn
<1>4. kernel.terminal # "" => ~HasTurn(peer)
  BY <1>1 DEF SessionInv, EvidenceAgrees, PeerSound
<1>5. ~HasTurn(peer) => peer'.settled = peer.settled
  BY <1>2 DEF Judges
<1> QED BY <1>2, <1>3, <1>4, <1>5

\* Before SessionReady an accepted frame neither fences nor starts a turn.
LEMMA ObservedEarly ==
  ASSUME SessionInv, child \in EarlyPhases, NEW f \in Frames, peer' = Observe(peer, f).peer
  PROVE  /\ ~HasTurn(peer)' /\ peer'.sent["Prompt"] = "None" /\ peer'.sent["Dispose"] = "None"
         /\ peer'.settled = peer.settled
         /\ Observe(peer, f).verdict = "Accepted" => peer'.phase # "Fatal"
<1>1. /\ ~HasTurn(peer) /\ peer.sent["Prompt"] = "None" /\ peer.sent["Dispose"] = "None"
  BY DEF SessionInv, EarlyPeer
<1>2. Judges(peer, f, Observe(peer, f)) /\ PeerSound(peer)' /\ peer'.settled = peer.settled
  BY <1>1, ObservedPeer
<1>3. "Prompt" \in Commands /\ "Dispose" \in Commands
  BY DEF Commands
<1>4. peer'.sent["Prompt"] = "None" /\ peer'.sent["Dispose"] = "None"
  BY <1>1, <1>2, <1>3 DEF Judges
<1>5. ~HasTurn(peer)'
  BY <1>2, <1>4 DEF PeerSound
<1>6. f.kind = "Unavailable" => f.on \in {"Prompt", "Dispose"}
  BY FramesHaveShape DEF FrameShape
<1>7. Observe(peer, f).verdict = "Accepted" => peer'.phase # "Fatal"
  BY <1>1, <1>2, <1>6 DEF Judges
<1> QED BY <1>2, <1>4, <1>5, <1>7

-----------------------------------------------------------------------------
(* Spawn, binding and handshake keep the invariant.                        *)

\* Spawn
LEMMA SpawnKeeps ==
  ASSUME SessionInv, NEW a, Spawn(a)
  PROVE  SessionInv'
<1>1. /\ child = "None" /\ host' = "Running" /\ UNCHANGED <<prompt, dispose, forum, peer>>
      /\ peer.phase # "Fatal" /\ pipe.cancel = "None" /\ kernel.failure = 0
      /\ kernel.reservation # "Reconciled" /\ kernel.obligation # "Completed"
      /\ schedule = "None" /\ pipe \in Pipes /\ kernel \in Receipts
  BY DEF Spawn, SessionInv, FencedIsContained, ReceiptsFollow, ReapIsFinal, Typed, ReapPhases
<1>2. /\ kernel' \in Receipts /\ frontier' = "Stale"
      /\ kernel'.terminal = kernel.terminal /\ kernel'.failure = kernel.failure
      /\ kernel'.reservation = kernel.reservation /\ kernel'.obligation = kernel.obligation
  BY <1>1, ZenonT(40) DEF Spawn, Commit, Receipts
<1>3. \/ /\ schedule' = "Spawned" /\ child' = "SpawnRegistered"
         /\ pipe' = [pipe EXCEPT !.stdin = TRUE]
      \/ schedule' = "ContainmentRequired" /\ child' = "Contained" /\ pipe' = Arm(pipe)
      \/ schedule' = "None" /\ child' = "Unregistered" /\ pipe' = Arm(pipe)
  BY <1>1 DEF Spawn
<1>4. /\ pipe' \in Pipes
      /\ \/ pipe'.cancel = pipe.cancel /\ child' = "SpawnRegistered"
         \/ /\ child' \in {"Contained", "Unregistered"}
            /\ pipe' = pipe /\ pipe.reaped = "Done"
         \/ /\ child' \in {"Contained", "Unregistered"}
            /\ pipe'.cancel # "None" /\ ~pipe'.stdin /\ pipe'.control = NoCall
  <2>1. CASE pipe' = [pipe EXCEPT !.stdin = TRUE] /\ child' = "SpawnRegistered"
    BY <1>1, <2>1 DEF Pipes
  <2>2. CASE pipe' = Arm(pipe) /\ child' \in {"Contained", "Unregistered"}
    BY <1>1, <2>2, ArmShape
  <2> QED BY <1>3, <2>1, <2>2
<1>5. Typed'
  BY <1>1, <1>2, <1>3, <1>4 DEF SessionInv, Typed, ScheduleStates, ChildPhases
<1>6. PeerSound(peer)' /\ EarlyPeer'
  BY <1>1, <1>3 DEF SessionInv, PeerSound, HasTurn, EarlyPeer, EarlyPhases
<1>7. FencedIsContained'
  BY <1>1, <1>4 DEF FencedIsContained
<1>8. DriverFollows' /\ ReceiptsFollow' /\ ReapIsFinal'
  BY <1>1, <1>2, <1>3 DEF DriverFollows, ReceiptsFollow, ReapIsFinal, ReapPhases
<1>9. EvidenceAgrees'
  BY <1>1, <1>2 DEF SessionInv, EvidenceAgrees, ReapPhases
<1> QED BY <1>5, <1>6, <1>7, <1>8, <1>9 DEF SessionInv

\* bind_runtime
LEMMA BindKeeps ==
  ASSUME SessionInv, NEW a, BindRuntime(a)
  PROVE  SessionInv'
<1>1. /\ schedule = "Spawned" /\ schedule' \in {"Spawned", "RuntimeBound"}
      /\ UNCHANGED <<child, prompt, dispose, forum, peer, pipe, host>>
  BY DEF BindRuntime
<1>2. kernel' \in Receipts /\ SameEvidence(kernel, kernel') /\ frontier' \in {"Current", "Stale"}
  <2>1. kernel \in Receipts /\ frontier \in {"Current", "Stale"}
    BY DEF SessionInv, Typed
  <2>2. CASE Refused
    BY <2>1, <2>2 DEF Refused, SameEvidence, SameCustody
  <2>3. CASE Commit([kernel EXCEPT !.binding = "Bound"])
    BY <2>1, <2>3 DEF Commit, Receipts, SameEvidence, SameCustody
  <2> QED BY <2>2, <2>3 DEF BindRuntime
<1>3. Typed'
  BY <1>1, <1>2 DEF SessionInv, Typed, ScheduleStates
<1>4. PeerSound(peer)' /\ EarlyPeer' /\ FencedIsContained' /\ DriverFollows'
  BY <1>1 DEF SessionInv, PeerSound, HasTurn, EarlyPeer, FencedIsContained, DriverFollows
<1>5. ReceiptsFollow' /\ EvidenceAgrees' /\ ReapIsFinal'
  BY <1>1, <1>2 DEF SessionInv, ReceiptsFollow, EvidenceAgrees, ReapIsFinal, SameEvidence,
     SameCustody
<1> QED BY <1>3, <1>4, <1>5 DEF SessionInv

\* A command that the kernel refuses.
LEMMA RefusedEvidence ==
  ASSUME SessionInv, Refused
  PROVE  kernel' \in Receipts /\ SameEvidence(kernel, kernel') /\ frontier' \in {"Current", "Stale"}
BY DEF SessionInv, Typed, Refused, SameEvidence, SameCustody

\* observe_adapter_ready
LEMMA AdapterReadyKeeps ==
  ASSUME SessionInv, NEW a, ObserveAdapterReady(a)
  PROVE  SessionInv'
<1>1. child = "SpawnRegistered" /\ child \in ActivePhases /\ child \in EarlyPhases
      /\ UNCHANGED <<schedule, forum, host>>
  BY DEF ObserveAdapterReady, ActivePhases, EarlyPhases
<1>2. CASE Contain(a) /\ Refused /\ UNCHANGED peer
  BY <1>1, <1>2, RefusedEvidence, ActiveFacts, QuietContain DEF PeerSound, HasTurn
<1>3. ASSUME NEW f \in Frames, peer' = Observe(peer, f).peer, Contain(a), Refused
      PROVE  SessionInv'
  BY <1>1, <1>3, RefusedEvidence, ActiveFacts, ObservedPeer, QuietContain
<1>4. ASSUME NEW f \in Frames, peer' = Observe(peer, f).peer, peer'.phase = "Inert",
             Commit([kernel EXCEPT !.session = "AdapterReady"]),
             child' = "AdapterReadyRecorded", UNCHANGED <<prompt, dispose, pipe>>
      PROVE  SessionInv'
  <2>1. /\ kernel' \in Receipts /\ SameEvidence(kernel, kernel') /\ frontier' = "Stale"
    BY <1>1, <1>4, ActiveFacts DEF Commit, Receipts, SameEvidence, SameCustody
  <2>2. EarlyPeer' /\ DriverFollows' /\ peer'.settled = peer.settled
    BY <1>1, <1>4, ObservedEarly DEF EarlyPeer, DriverFollows
  <2>3. peer' \in Peers /\ PeerSound(peer)' /\ peer'.total >= peer.total
    BY <1>4, ObservedPeer
  <2>4. child' \in ActivePhases /\ child' # "DisposeRequested"
    BY <1>4 DEF ActivePhases
  <2> QED BY <1>1, <1>4, <2>1, <2>2, <2>3, <2>4, ActiveFacts, QuietAdvance
<1> QED BY <1>2, <1>3, <1>4 DEF ObserveAdapterReady

\* The driver stages a command while it talks to the host.
LEMMA StageKeepsPeer ==
  ASSUME SessionInv, child \in ActivePhases, NEW c \in Commands, Stage(c)
  PROVE  /\ peer' \in Peers /\ PeerSound(peer)' /\ peer'.phase # "Fatal"
         /\ peer'.settled = peer.settled /\ peer'.total = peer.total /\ peer'.total >= peer.total
         /\ peer'.turn = peer.turn
         /\ \A d \in Commands : d # c => peer'.sent[d] = peer.sent[d]
<1>1. Admits(peer, c) /\ peer' = Admitted(peer, c) /\ peer \in Peers /\ PeerSound(peer)
      /\ peer.phase # "Fatal"
  BY ActiveFacts DEF Stage
<1>2. peer.total \in Nat
  BY <1>1, PeerFields
<1>3. PeerSound(peer)'
  BY <1>1, StagedPeer DEF PeerSound, HasTurn
<1>4. /\ peer' \in Peers /\ peer'.phase = peer.phase /\ peer'.settled = peer.settled
      /\ peer'.total = peer.total /\ peer'.turn = peer.turn
      /\ \A d \in Commands : d # c => peer'.sent[d] = peer.sent[d]
  BY <1>1, StagedPeer
<1> QED BY <1>1, <1>2, <1>3, <1>4

\* A write that waits, and one that is done.
LEMMA ControlPipe ==
  ASSUME NEW c \in Commands \cup {NoCall}, pipe \in Pipes,
         pipe' = [pipe EXCEPT !.control = c] \/ UNCHANGED pipe
  PROVE  pipe' \in Pipes /\ pipe'.cancel = pipe.cancel /\ pipe'.reaped = pipe.reaped
BY DEF Pipes

\* begin_create
LEMMA BeginCreateKeeps ==
  ASSUME SessionInv, NEW a, BeginCreate(a)
  PROVE  SessionInv'
<1>1. /\ child = "AdapterReadyRecorded" /\ child \in ActivePhases
      /\ UNCHANGED <<schedule, forum, host>>
  BY DEF BeginCreate, ActivePhases
<1>2. "Create" \in Commands /\ "Prompt" \in Commands /\ "Dispose" \in Commands
  BY DEF Commands
<1>3. ASSUME NEW x \in {"CreateAuthorized", "CreateDelivered"},
             Commit([kernel EXCEPT !.session = x])
      PROVE  kernel' \in Receipts /\ SameEvidence(kernel, kernel') /\ frontier' = "Stale"
  BY <1>1, <1>3, ActiveFacts DEF Commit, Receipts, SameEvidence, SameCustody
<1>4. CASE Refused /\ Contain(a) /\ UNCHANGED peer
  BY <1>1, <1>4, RefusedEvidence, ActiveFacts, QuietContain DEF PeerSound, HasTurn
<1>5. CASE Commit(CreateAuthorized) /\ StageFails("Create", a)
  <2>1. kernel' \in Receipts /\ SameEvidence(kernel, kernel') /\ frontier' = "Stale"
    BY <1>3, <1>5 DEF CreateAuthorized
  <2>2. peer' \in Peers /\ PeerSound(peer)' /\ peer'.settled = peer.settled
    BY <1>1, <1>2, <1>5, ActiveFacts, StageFailsPeer
  <2>3. Contain(a)
    BY <1>5 DEF StageFails
  <2> QED BY <1>1, <2>1, <2>2, <2>3, ActiveFacts, QuietContain
<1>6. CASE /\ Commit(CreateAuthorized) \/ Commit(CreateDelivered)
           /\ Stage("Create") /\ (Waits("Create") \/ UNCHANGED pipe)
           /\ child' \in {"CreateAuthorized", "CreateDelivered"} /\ UNCHANGED <<prompt, dispose>>
  <2>1. kernel' \in Receipts /\ SameEvidence(kernel, kernel') /\ frontier' = "Stale"
    BY <1>3, <1>6 DEF CreateAuthorized, CreateDelivered
  <2>2. pipe' \in Pipes /\ pipe'.cancel = pipe.cancel /\ pipe'.reaped = pipe.reaped
    BY <1>1, <1>2, <1>6, ActiveFacts, ControlPipe DEF Waits
  <2>3. child' \in ActivePhases /\ child' # "DisposeRequested"
    BY <1>6 DEF ActivePhases
  <2>4. EarlyPeer' /\ DriverFollows'
    <3>1. peer'.turn = peer.turn /\ peer'.sent["Prompt"] = peer.sent["Prompt"]
          /\ peer'.sent["Dispose"] = peer.sent["Dispose"]
      BY <1>1, <1>2, <1>6, StageKeepsPeer
    <3>2. ~HasTurn(peer) /\ peer.sent["Prompt"] = "None" /\ peer.sent["Dispose"] = "None"
      BY <1>1 DEF SessionInv, EarlyPeer, EarlyPhases
    <3> QED BY <1>6, <3>1, <3>2 DEF EarlyPeer, DriverFollows, HasTurn
  <2> QED
    BY <1>1, <1>2, <1>6, <2>1, <2>2, <2>3, <2>4, ActiveFacts, StageKeepsPeer, QuietAdvance
<1> QED BY <1>4, <1>5, <1>6 DEF BeginCreate

\* A peer that is left alone.
LEMMA UnchangedPeer ==
  ASSUME SessionInv, UNCHANGED peer
  PROVE  /\ peer' \in Peers /\ PeerSound(peer)' /\ peer'.settled = peer.settled
         /\ peer'.total >= peer.total /\ peer'.phase = peer.phase /\ peer'.turn = peer.turn
         /\ peer'.sent = peer.sent
<1>1. peer \in Peers
  BY DEF SessionInv, Typed
<1>2. peer.total \in Nat
  BY <1>1, PeerFields
<1>3. PeerSound(peer)'
  BY DEF SessionInv, PeerSound, HasTurn
<1> QED BY <1>1, <1>2, <1>3

\* drive_create
LEMMA DriveCreateKeeps ==
  ASSUME SessionInv, NEW a, DriveCreate(a)
  PROVE  SessionInv'
<1>1. /\ child = "CreateAuthorized" /\ child \in ActivePhases
      /\ UNCHANGED <<schedule, forum, peer, host>>
  BY DEF DriveCreate, ActivePhases
<1>2. CASE Refused /\ Contain(a)
  BY <1>1, <1>2, RefusedEvidence, ActiveFacts, UnchangedPeer, QuietContain
<1>3. CASE /\ Commit(CreateDelivered) /\ Written /\ child' = "CreateDelivered"
           /\ UNCHANGED <<prompt, dispose>>
  <2>1. kernel' \in Receipts /\ SameEvidence(kernel, kernel') /\ frontier' = "Stale"
    BY <1>1, <1>3, ActiveFacts DEF CreateDelivered, Commit, Receipts, SameEvidence, SameCustody
  <2>2. pipe' \in Pipes /\ pipe'.cancel = pipe.cancel /\ pipe'.reaped = pipe.reaped
    BY <1>1, <1>3, ActiveFacts, ControlPipe DEF Written
  <2>3. child' \in ActivePhases /\ child' # "DisposeRequested"
    BY <1>3 DEF ActivePhases
  <2>4. EarlyPeer' /\ DriverFollows'
    BY <1>1, <1>3 DEF SessionInv, EarlyPeer, EarlyPhases, DriverFollows, HasTurn
  <2> QED BY <1>1, <1>3, <2>1, <2>2, <2>3, <2>4, ActiveFacts, UnchangedPeer, QuietAdvance
<1> QED BY <1>2, <1>3 DEF DriveCreate

\* poll_direct_child_reap: the wait changes the reap and the group alone.
LEMMA WaitedShape ==
  ASSUME NEW p \in Pipes, NEW q \in Waited(p)
  PROVE  /\ q \in Pipes /\ q.reaped # "No" /\ q.cancel = p.cancel /\ q.stdin = p.stdin
         /\ q.control = p.control
<1>1. CASE p.reaped # "No"
  BY <1>1 DEF Waited
<1>2. CASE p.reaped = "No"
  <2>1. PICK r \in {"Absent", "Present", "Inaccessible"} :
          q = [p EXCEPT !.reaped = "Pending", !.seen = r, !.remains = r]
    BY <1>2 DEF Waited
  <2> QED BY <2>1 DEF Pipes
<1> QED BY <1>1, <1>2

\* observe_session_ready
LEMMA SessionReadyKeeps ==
  ASSUME SessionInv, NEW a, ObserveSessionReady(a)
  PROVE  SessionInv'
<1>1. /\ child = "CreateDelivered" /\ child \in ActivePhases /\ child \in EarlyPhases
      /\ schedule = "RuntimeBound" /\ UNCHANGED <<forum, host>>
  BY DEF ObserveSessionReady, ActivePhases, EarlyPhases
<1>2. CASE Contain(a) /\ Refused /\ UNCHANGED <<peer, schedule>>
  BY <1>1, <1>2, RefusedEvidence, ActiveFacts, UnchangedPeer, QuietContain
<1>3. ASSUME NEW f \in Frames, peer' = Observe(peer, f).peer, Contain(a), Refused,
             UNCHANGED schedule
      PROVE  SessionInv'
  BY <1>1, <1>3, RefusedEvidence, ActiveFacts, ObservedPeer, QuietContain
<1>4. ASSUME NEW f \in Frames, peer' = Observe(peer, f).peer, peer'.phase # "Fatal",
             UNCHANGED <<prompt, dispose, pipe>>,
             \/ Refused /\ UNCHANGED <<schedule, child>>
             \/ /\ Commit([kernel EXCEPT !.session = "SessionReady"])
                /\ child' = "SessionReadyRecorded" /\ schedule' = "Ready"
      PROVE  SessionInv'
  <2>1. /\ kernel' \in Receipts /\ SameEvidence(kernel, kernel')
        /\ frontier' \in {"Current", "Stale"}
    <3>1. CASE Refused
      BY <3>1, RefusedEvidence
    <3>2. CASE Commit([kernel EXCEPT !.session = "SessionReady"])
      BY <1>1, <3>2, ActiveFacts DEF Commit, Receipts, SameEvidence, SameCustody
    <3> QED BY <1>4, <3>1, <3>2
  <2>2. EarlyPeer' /\ DriverFollows' /\ peer'.settled = peer.settled
    BY <1>1, <1>4, ObservedEarly DEF EarlyPeer, DriverFollows
  <2>3. peer' \in Peers /\ PeerSound(peer)' /\ peer'.total >= peer.total
    BY <1>4, ObservedPeer
  <2>4. /\ child' \in ActivePhases /\ child' # "DisposeRequested"
        /\ schedule' = schedule \/ schedule' \in ScheduleStates \ {"None", "Reconciled"}
    BY <1>1, <1>4 DEF ActivePhases, ScheduleStates
  <2> QED BY <1>1, <1>4, <2>1, <2>2, <2>3, <2>4, ActiveFacts, QuietAdvance
<1>5. ASSUME NEW f \in Frames, peer' = Observe(peer, f).peer, pipe' \in Waited(pipe),
             child' = "Contained", Refused, UNCHANGED <<schedule, prompt, dispose>>
      PROVE  SessionInv'
  <2>1. /\ pipe' \in Pipes /\ pipe'.reaped # "No" /\ pipe'.cancel = "None"
    BY <1>1, <1>5, ActiveFacts, WaitedShape
  <2>2. peer' \in Peers /\ PeerSound(peer)' /\ peer'.settled = peer.settled
    BY <1>1, <1>5, ObservedPeer, ObservedEarly
  <2>3. UNCHANGED <<kernel, frontier>>
    BY <1>5 DEF Refused
  <2>4. Typed'
    BY <1>1, <1>5, <2>1, <2>2, <2>3, ActiveFacts DEF SessionInv, Typed, ChildPhases
  <2>5. EarlyPeer' /\ FencedIsContained' /\ DriverFollows'
    BY <1>5, <2>1 DEF EarlyPeer, EarlyPhases, FencedIsContained, DriverFollows
  <2>6. ReceiptsFollow' /\ EvidenceAgrees'
    BY <1>1, <1>5, <2>2, <2>3, ActiveFacts DEF ReceiptsFollow, EvidenceAgrees
  <2>7. ReapIsFinal'
    BY <1>1, <1>5, <2>3 DEF SessionInv, ReapIsFinal, ReapPhases
  <2> QED BY <2>2, <2>4, <2>5, <2>6, <2>7 DEF SessionInv
<1>6. ASSUME NEW f \in Frames, peer' = Observe(peer, f).peer,
             Observe(peer, f).verdict = "Accepted"
      PROVE  peer'.phase # "Fatal"
  BY <1>1, <1>6, ObservedEarly
<1> QED BY <1>2, <1>3, <1>4, <1>5, <1>6 DEF ObserveSessionReady

-----------------------------------------------------------------------------
(* The prompt keeps the invariant.                                         *)

\* begin_prompt
LEMMA BeginPromptKeeps ==
  ASSUME SessionInv, NEW a, BeginPrompt(a)
  PROVE  SessionInv'
<1>1. /\ child = "SessionReadyRecorded" /\ child \in ActivePhases
      /\ UNCHANGED <<schedule, forum, host>>
  BY DEF BeginPrompt, ActivePhases
<1>2. "Prompt" \in Commands
  BY DEF Commands
<1>3. ASSUME Commit(PromptAuthorized(kernel)) \/ Commit(PromptDelivered(kernel))
      PROVE  kernel' \in Receipts /\ SameEvidence(kernel, kernel') /\ frontier' = "Stale"
  BY <1>1, <1>3, ActiveFacts, ZenonT(40) DEF Commit, PromptAuthorized, PromptDelivered, Receipts,
     SameEvidence, SameCustody
<1>4. CASE Refused /\ UNCHANGED <<child, prompt, dispose, peer, pipe>>
  <2>1. EarlyPeer' /\ DriverFollows'
    BY <1>4 DEF SessionInv, EarlyPeer, DriverFollows, HasTurn
  <2> QED BY <1>1, <1>4, <2>1, RefusedEvidence, ActiveFacts, UnchangedPeer, QuietAdvance
<1>5. CASE Commit(PromptAuthorized(kernel)) /\ StageFails("Prompt", a)
  <2>1. peer' \in Peers /\ PeerSound(peer)' /\ peer'.settled = peer.settled
    BY <1>1, <1>2, <1>5, ActiveFacts, StageFailsPeer
  <2>2. Contain(a)
    BY <1>5 DEF StageFails
  <2> QED BY <1>1, <1>3, <1>5, <2>1, <2>2, ActiveFacts, QuietContain
<1>6. ASSUME NEW x \in {"PromptDeliveryPending", "AwaitingPromptAcceptance"},
             Commit(PromptAuthorized(kernel)) \/ Commit(PromptDelivered(kernel)),
             Stage("Prompt"), Waits("Prompt") \/ UNCHANGED pipe,
             child' \in {"TaskPromptDeliveryPending", "TaskPromptActive"},
             prompt' = [NoPrompt EXCEPT !.phase = x], UNCHANGED dispose
      PROVE  SessionInv'
  <2>1. pipe' \in Pipes /\ pipe'.cancel = pipe.cancel /\ pipe'.reaped = pipe.reaped
    BY <1>1, <1>2, <1>6, ActiveFacts, ControlPipe DEF Waits
  <2>2. child' \in ActivePhases /\ child' # "DisposeRequested" /\ prompt' \in Prompts
    BY <1>6 DEF ActivePhases, Prompts, NoPrompt, PromptPhases
  <2>3. EarlyPeer' /\ DriverFollows'
    <3>1. peer'.turn = NoTurn
      <4>1. ~HasTurn(peer)
        BY <1>6, SessionAssumption DEF Stage, Admits
      <4> QED BY <1>1, <1>2, <1>6, <4>1, StageKeepsPeer DEF SessionInv, PeerSound
    <3>2. NoTurn.evidence = "NoTurn" /\ NoTurn.latest = 0
      BY DEF NoTurn
    <3> QED BY <1>6, <3>1, <3>2 DEF EarlyPeer, EarlyPhases, DriverFollows, HasTurn
  <2> QED
    BY <1>1, <1>2, <1>3, <1>6, <2>1, <2>2, <2>3, ActiveFacts, StageKeepsPeer, QuietAdvance
<1> QED BY <1>4, <1>5, <1>6 DEF BeginPrompt

\* drive_prompt
LEMMA DrivePromptKeeps ==
  ASSUME SessionInv, NEW a, DrivePrompt(a)
  PROVE  SessionInv'
<1>1. /\ child = "TaskPromptDeliveryPending" /\ child \in ActivePhases
      /\ UNCHANGED <<schedule, forum, peer, host>>
  BY DEF DrivePrompt, ActivePhases
<1>2. CASE Refused /\ Contain(a)
  BY <1>1, <1>2, RefusedEvidence, ActiveFacts, UnchangedPeer, QuietContain
<1>3. CASE /\ Commit(PromptDelivered(kernel)) /\ Written /\ child' = "TaskPromptActive"
           /\ prompt' = [prompt EXCEPT !.phase = "AwaitingPromptAcceptance"]
           /\ UNCHANGED dispose
  <2>1. kernel' \in Receipts /\ SameEvidence(kernel, kernel') /\ frontier' = "Stale"
    BY <1>1, <1>3, ActiveFacts DEF PromptDelivered, Commit, Receipts, SameEvidence, SameCustody
  <2>2. pipe' \in Pipes /\ pipe'.cancel = pipe.cancel /\ pipe'.reaped = pipe.reaped
    BY <1>1, <1>3, ActiveFacts, ControlPipe DEF Written
  <2>3. child' \in ActivePhases /\ child' # "DisposeRequested" /\ prompt' \in Prompts
    BY <1>1, <1>3, ActiveFacts DEF ActivePhases, Prompts, PromptPhases
  <2>4. EarlyPeer' /\ DriverFollows'
    <3>1. peer.turn = NoTurn
      BY <1>1 DEF SessionInv, DriverFollows, PeerSound
    <3>2. NoTurn.evidence = "NoTurn" /\ NoTurn.latest = 0
      BY DEF NoTurn
    <3> QED BY <1>1, <1>3, <3>1, <3>2 DEF EarlyPeer, EarlyPhases, DriverFollows
  <2> QED BY <1>1, <1>3, <2>1, <2>2, <2>3, <2>4, ActiveFacts, UnchangedPeer, QuietAdvance
<1> QED BY <1>2, <1>3 DEF DrivePrompt

\* The driver has noted what the peer saw, if it notes this frame.
LEMMA NotesKeep ==
  ASSUME SessionInv, child = "TaskPromptActive", child' = "TaskPromptActive",
         NEW f \in Frames, peer' = Observe(peer, f).peer,
         prompt.latest # 0 => prompt'.latest # 0,
         prompt.settledAt # 0 => prompt'.settledAt # 0,
         prompt.final # 0 => prompt'.final # 0,
         f.kind = "AgentEvent" /\ f.says = "Settled" => prompt'.settledAt # 0,
         f.kind = "Usage" /\ f.on = "Prompt" =>
           \/ peer'.total > KernelCeiling
           \/ prompt'.latest # 0 /\ (prompt.settledAt # 0 => prompt'.final # 0)
  PROVE  DriverFollows' /\ EarlyPeer'
<1>0. peer \in Peers /\ peer' \in Peers /\ peer'.total >= peer.total
      /\ Judges(peer, f, Observe(peer, f))
  BY ObservedPeer DEF SessionInv, Typed
<1>1. SUFFICES ASSUME peer'.total <= KernelCeiling
               PROVE  /\ peer'.turn.latest # 0 => prompt'.latest # 0
                      /\ peer'.turn.evidence \in Ending => prompt'.settledAt # 0
                      /\ peer'.turn.evidence = "AwaitingSettledFrame" => prompt'.final # 0
  BY DEF DriverFollows, EarlyPeer, EarlyPhases, Ending
<1>2. peer.total <= KernelCeiling /\ ~(peer'.total > KernelCeiling)
  <2>1. peer.total \in Nat /\ peer'.total \in Nat
    BY <1>0, PeerFields
  <2>2. KernelCeiling \in Nat
    BY SessionAssumption
  <2> QED BY <1>0, <1>1, <2>1, <2>2
<1>3. /\ peer.turn.latest # 0 => prompt.latest # 0
      /\ peer.turn.evidence \in Ending => prompt.settledAt # 0
      /\ peer.turn.evidence = "AwaitingSettledFrame" => prompt.final # 0
  BY <1>2 DEF SessionInv, DriverFollows, Ending
<1>4. peer'.turn.latest # 0 => prompt'.latest # 0
  BY <1>0, <1>2, <1>3 DEF Judges
<1>5. peer'.turn.evidence \in Ending => prompt'.settledAt # 0
  BY <1>0, <1>3 DEF Judges
<1>6. peer'.turn.evidence = "AwaitingSettledFrame" => prompt'.final # 0
  BY <1>0, <1>2, <1>3 DEF Judges, Ending
<1> QED BY <1>4, <1>5, <1>6

\* The frame of a prompt: its sequence, and what the driver may do with it.
LEMMA PromptFrame ==
  ASSUME SessionInv, child = "TaskPromptActive", NEW f \in Frames,
         peer' = Observe(peer, f).peer
  PROVE  /\ child \in ActivePhases /\ peer.next \in Nat /\ peer.next # 0
         /\ f.kind # "Settled" => peer'.settled = peer.settled
         /\ Observe(peer, f).verdict = "Accepted" /\ f.kind \notin {"Settled", "Unavailable"} =>
              peer'.phase # "Fatal"
<1>1. peer \in Peers /\ Judges(peer, f, Observe(peer, f))
  BY ObservedPeer DEF SessionInv, Typed
<1>2. f.kind # "Settled" => peer'.settled = peer.settled
  BY <1>1 DEF Judges
<1>3. Observe(peer, f).verdict = "Accepted" /\ f.kind \notin {"Settled", "Unavailable"} =>
        peer'.phase # "Fatal"
  BY <1>1 DEF Judges
<1> QED BY <1>1, <1>2, <1>3, PeerFields DEF ActivePhases

\* Every path that contains on a frame without a receipt.
LEMMA ContainOnFrame ==
  ASSUME SessionInv, child \in ActivePhases, NEW f \in Frames, peer' = Observe(peer, f).peer,
         NEW a, Contain(a), Refused, UNCHANGED <<schedule, host, forum>>
  PROVE  SessionInv'
BY RefusedEvidence, ActiveFacts, ObservedPeer, QuietContain

\* record_task_attempt_usage_failure
LEMMA PromptUsageFailureKeeps ==
  ASSUME SessionInv, child = "TaskPromptActive", NEW f \in Frames, UNCHANGED <<schedule, host>>,
         peer' = Observe(peer, f).peer, NEW m, NEW a, PromptUsageFailure(peer.next, m, a)
  PROVE  SessionInv'
<1>1. child \in ActivePhases /\ peer.next \in Nat /\ UNCHANGED <<dispose, forum>>
  BY PromptFrame DEF PromptUsageFailure
<1>2. CASE Refused /\ Contain(a)
  BY <1>1, <1>2, ContainOnFrame
<1>3. CASE /\ MayRecordFailure(kernel, peer.next) /\ Contained
           /\ Commit([kernel EXCEPT !.failure = peer.next, !.reservation = "Frozen"])
           /\ prompt' = [prompt EXCEPT !.phase = "UsageFrozen", !.final = peer.next]
  <2>1. /\ kernel' \in Receipts /\ SameCustody(kernel, kernel') /\ frontier' = "Stale"
        /\ kernel'.terminal = kernel.terminal /\ kernel'.reservation = "Frozen"
    BY <1>1, <1>3, ActiveFacts, ZenonT(40) DEF Commit, Receipts, SameCustody
  <2>2. kernel.terminal = ""
    BY <1>3 DEF MayRecordFailure
  <2>3. prompt' \in Prompts
    BY <1>1, <1>3, ActiveFacts DEF Prompts, PromptPhases
  <2>4. Rest
    BY <1>1, <2>1, <2>2, <2>3, ActiveFacts, ObservedPeer DEF Rest
  <2> QED BY <1>1, <1>3, <2>1, <2>2, <2>4, ContainKeeps
<1> QED BY <1>2, <1>3 DEF PromptUsageFailure

\* The driver goes on with the prompt after a frame that carries no outcome.
LEMMA PromptGoesOn ==
  ASSUME SessionInv, child = "TaskPromptActive", NEW f \in Frames, f.kind # "Settled",
         peer' = Observe(peer, f).peer, peer'.phase # "Fatal",
         UNCHANGED <<schedule, host, child, pipe, dispose>>,
         forum' \in Calls \cup {NoCall}, prompt' \in Prompts,
         kernel' \in Receipts, SameEvidence(kernel, kernel'), frontier' \in {"Current", "Stale"},
         DriverFollows', EarlyPeer'
  PROVE  SessionInv'
<1>1. child \in ActivePhases /\ peer'.settled = peer.settled
  BY PromptFrame
<1>2. peer' \in Peers /\ PeerSound(peer)' /\ peer'.total >= peer.total
  BY ObservedPeer
<1> QED BY <1>1, <1>2, ActiveFacts, QuietAdvance

\* The result of the prompt.
LEMMA PromptResultKeeps ==
  ASSUME SessionInv, child = "TaskPromptActive", NEW f \in Frames, UNCHANGED <<schedule, host>>,
         peer' = Observe(peer, f).peer, Observe(peer, f).verdict = "Accepted",
         f.kind = "CommandResult", NEW a, PromptResult(f, peer.next, a)
  PROVE  SessionInv'
<1>1. child \in ActivePhases /\ peer.next \in Nat /\ UNCHANGED <<dispose, forum>>
      /\ peer'.phase # "Fatal"
  BY PromptFrame DEF PromptResult
<1>2. CASE Refused /\ Contain(a)
  BY <1>1, <1>2, ContainOnFrame
<1>3. CASE /\ Commit([kernel EXCEPT !.prompt = "Accepted", !.accepted = peer.next])
           /\ prompt' = [prompt EXCEPT !.phase = "AwaitingTerminalEvidence",
                                       !.accepted = peer.next]
           /\ UNCHANGED <<child, pipe>>
  <2>1. kernel' \in Receipts /\ SameEvidence(kernel, kernel') /\ frontier' = "Stale"
    BY <1>1, <1>3, ActiveFacts DEF Commit, Receipts, SameEvidence, SameCustody
  <2>2. /\ prompt' \in Prompts /\ prompt'.latest = prompt.latest
        /\ prompt'.settledAt = prompt.settledAt /\ prompt'.final = prompt.final
    BY <1>1, <1>3, ActiveFacts DEF Prompts, PromptPhases
  <2>3. DriverFollows' /\ EarlyPeer'
    BY <1>3, <2>2, NotesKeep
  <2> QED BY <1>1, <1>3, <2>1, <2>2, <2>3, ActiveFacts, PromptGoesOn
<1> QED BY <1>2, <1>3 DEF PromptResult

\* An agent event, or a Forum call kept for the caller.
LEMMA PromptEventKeeps ==
  ASSUME SessionInv, child = "TaskPromptActive", NEW f \in Frames, UNCHANGED <<schedule, host>>,
         peer' = Observe(peer, f).peer, Observe(peer, f).verdict = "Accepted",
         f.kind \in {"AgentEvent", "ForumToolCall"}, NEW a, PromptEvent(f, peer.next, a)
  PROVE  SessionInv'
<1>1. child \in ActivePhases /\ peer.next \in Nat /\ peer.next # 0 /\ peer'.phase # "Fatal"
  BY PromptFrame
<1>2. Refused
  BY DEF PromptEvent
<1>3. CASE Contain(a) /\ UNCHANGED forum
  BY <1>1, <1>2, <1>3, ContainOnFrame
<1>4. CASE /\ forum' = IF f.kind = "ForumToolCall" THEN f.on ELSE forum
           /\ prompt' = IF f.kind = "AgentEvent" /\ f.says = "Settled"
                        THEN [prompt EXCEPT !.settledAt = peer.next] ELSE prompt
           /\ UNCHANGED <<child, pipe, dispose>>
  <2>1. /\ prompt' \in Prompts /\ prompt'.latest = prompt.latest
        /\ prompt'.final = prompt.final
        /\ prompt'.settledAt = IF f.kind = "AgentEvent" /\ f.says = "Settled"
                               THEN peer.next ELSE prompt.settledAt
    BY <1>1, <1>4, ActiveFacts DEF Prompts
  <2>2. DriverFollows' /\ EarlyPeer'
    BY <1>1, <1>4, <2>1, NotesKeep
  <2>3. forum' \in Calls \cup {NoCall}
    BY <1>1, <1>4, ActiveFacts, FramesHaveShape DEF FrameShape
  <2> QED BY <1>1, <1>2, <1>4, <2>1, <2>2, <2>3, RefusedEvidence, PromptGoesOn
<1> QED BY <1>3, <1>4 DEF PromptEvent

\* A usage of the prompt.
LEMMA PromptUsageKeeps ==
  ASSUME SessionInv, child = "TaskPromptActive", NEW f \in Frames, UNCHANGED <<schedule, host>>,
         peer' = Observe(peer, f).peer, Observe(peer, f).verdict = "Accepted",
         f.kind = "Usage", NEW a, PromptUsage(f, peer.next, a)
  PROVE  SessionInv'
<1>1. child \in ActivePhases /\ peer.next \in Nat /\ peer.next # 0 /\ peer'.phase # "Fatal"
      /\ UNCHANGED <<dispose, forum>>
  BY PromptFrame DEF PromptUsage
<1>2. peer'.total = f.total /\ f.total \in Nat
  <2>1. peer'.total = f.total
    BY ObservedPeer DEF Judges
  <2>2. peer'.total \in Nat
    BY ObservedPeer, PeerFields
  <2> QED BY <2>1, <2>2
<1>3. CASE Refused /\ Contain(a)
  BY <1>1, <1>3, ContainOnFrame
<1>4. CASE f.total > KernelCeiling /\ Refused /\ UNCHANGED <<child, pipe, prompt>>
  <2>1. DriverFollows' /\ EarlyPeer'
    BY <1>2, <1>4, NotesKeep
  <2> QED BY <1>1, <1>4, <2>1, ActiveFacts, RefusedEvidence, PromptGoesOn
<1>5. CASE /\ Commit([kernel EXCEPT !.usage = [at |-> peer.next, total |-> f.total]])
           /\ prompt' = [prompt EXCEPT
                 !.latest = peer.next, !.final = IF prompt.settledAt # 0 THEN peer.next ELSE @]
           /\ UNCHANGED <<child, pipe>>
  <2>1. kernel' \in Receipts /\ SameEvidence(kernel, kernel') /\ frontier' = "Stale"
    BY <1>1, <1>2, <1>5, ActiveFacts DEF Commit, Receipts, SameEvidence, SameCustody
  <2>2. /\ prompt' \in Prompts /\ prompt'.latest = peer.next
        /\ prompt'.settledAt = prompt.settledAt
        /\ prompt'.final = IF prompt.settledAt # 0 THEN peer.next ELSE prompt.final
    BY <1>1, <1>5, ActiveFacts DEF Prompts
  <2>3. DriverFollows' /\ EarlyPeer'
    BY <1>1, <1>5, <2>2, NotesKeep
  <2> QED BY <1>1, <1>5, <2>1, <2>2, <2>3, ActiveFacts, PromptGoesOn
<1> QED BY <1>3, <1>4, <1>5 DEF PromptUsage

\* The outcome of the prompt: where no receipt is written and nothing contains,
\* a usage was beyond the ledger's integers.
LEMMA PromptSettledKeeps ==
  ASSUME SessionInv, child = "TaskPromptActive", NEW f \in Frames, UNCHANGED <<schedule, host>>,
         peer' = Observe(peer, f).peer, Observe(peer, f).verdict = "Accepted",
         f.kind = "Settled", NEW a, PromptSettled(f, peer.next, a)
  PROVE  SessionInv'
<1> DEFINE final == IF f.says \in Stops THEN prompt.final ELSE prompt.latest
           known == final # 0 /\ (f.says \in Stops => prompt.settledAt # 0)
           fatal == f.says = "ProtocolFailed"
<1>1. child \in ActivePhases /\ peer.next \in Nat /\ UNCHANGED <<dispose, forum>>
  BY PromptFrame DEF PromptSettled
<1>2. /\ Judges(peer, f, Observe(peer, f)) /\ peer' \in Peers /\ PeerSound(peer)'
      /\ peer'.total >= peer.total
      /\ kernel.terminal # "" => peer'.settled = peer.settled
  BY ObservedPeer
<1>3. /\ peer'.settled = f.says /\ peer'.total = peer.total /\ f.says \in Outcomes
      /\ peer.turn.latest # 0
      /\ f.says \in Stops => peer.turn.evidence = "AwaitingSettledFrame"
      /\ peer'.phase = "Fatal" => fatal
  BY <1>2 DEF Judges
<1>4. ~HasTurn(peer)' /\ f.says # ""
  <2>1. f.says # ""
    BY <1>3 DEF Outcomes, Stops
  <2> QED BY <1>2, <1>3, <2>1 DEF PeerSound
<1>5. peer'.turn.latest = 0 /\ peer'.turn.evidence = "NoTurn"
  <2>1. peer'.turn = NoTurn
    BY <1>2, <1>4 DEF PeerSound
  <2>2. NoTurn.latest = 0 /\ NoTurn.evidence = "NoTurn"
    BY DEF NoTurn
  <2> QED BY <2>1, <2>2
<1>6. ASSUME child' \in {"TaskPromptActive", "TaskPromptTerminalRecorded"}
      PROVE  child' \in ActivePhases /\ DriverFollows' /\ EarlyPeer'
  BY <1>5, <1>6 DEF ActivePhases, DriverFollows, EarlyPeer, EarlyPhases
<1>7. CASE Refused /\ Contain(a)
  BY <1>1, <1>7, ContainOnFrame
<1>8. CASE ~known /\ Refused /\ UNCHANGED prompt /\ fatal /\ Contained
  <2>1. prompt' \in Prompts /\ dispose' \in Disposes /\ forum' \in Calls \cup {NoCall}
    BY <1>1, <1>8, ActiveFacts
  <2>2. /\ kernel' \in Receipts /\ SameEvidence(kernel, kernel')
        /\ frontier' \in {"Current", "Stale"}
    BY <1>8, RefusedEvidence
  <2> QED BY <1>1, <1>2, <1>8, <2>1, <2>2, QuietContained
<1>9. CASE ~known /\ Refused /\ UNCHANGED <<prompt, child, pipe>> /\ ~fatal
  <2>1. peer.total > KernelCeiling
    <3>1. peer.total <= KernelCeiling => known
      BY <1>3 DEF SessionInv, DriverFollows
    <3>2. peer.total \in Nat /\ KernelCeiling \in Nat
      BY <1>1, ActiveFacts
    <3> QED BY <1>9, <3>1, <3>2
  <2>2. peer'.total > KernelCeiling /\ kernel.terminal = ""
    <3>1. kernel.terminal = ""
      BY <1>2, <1>3, <1>4, ActiveFacts, <1>1 DEF SessionInv, PeerSound, Judges
    <3> QED BY <1>3, <2>1, <3>1
  <2>3. Rest
    BY <1>1, <1>2, <1>9, <2>2, RefusedEvidence, ActiveFacts DEF Rest, SameEvidence
  <2>4. /\ kernel'.reservation # "Reconciled" /\ kernel'.failure = kernel.failure
        /\ pipe' \in Pipes /\ pipe'.cancel = pipe.cancel /\ pipe'.reaped = pipe.reaped
    BY <1>1, <1>9, ActiveFacts DEF Refused
  <2> QED BY <1>1, <1>3, <1>6, <1>9, <2>2, <2>3, <2>4, AdvanceKeeps
<1>10. CASE /\ Commit([kernel EXCEPT !.terminal = f.says, !.settled = peer.next])
            /\ prompt' = [prompt EXCEPT !.phase = "TerminalRecorded"]
            /\ IF fatal THEN Contained
               ELSE child' = "TaskPromptTerminalRecorded" /\ UNCHANGED pipe
  <2>1. /\ kernel' \in Receipts /\ SameCustody(kernel, kernel') /\ frontier' = "Stale"
        /\ kernel'.terminal = f.says /\ kernel'.reservation = kernel.reservation
        /\ kernel'.failure = kernel.failure
    BY <1>1, <1>3, <1>10, ActiveFacts DEF Commit, Receipts, SameCustody
  <2>2. prompt' \in Prompts
    BY <1>1, <1>10, ActiveFacts DEF Prompts, PromptPhases
  <2>3. Rest /\ kernel'.reservation # "Reconciled" /\ kernel'.failure = 0
    BY <1>1, <1>2, <1>3, <2>1, <2>2, ActiveFacts DEF Rest
  <2>4. CASE fatal
    BY <1>1, <1>10, <2>3, <2>4, ContainKeeps
  <2>5. CASE ~fatal
    BY <1>1, <1>3, <1>4, <1>6, <1>10, <2>1, <2>3, <2>5, ActiveFacts, AdvanceKeeps
  <2> QED BY <2>4, <2>5
<1> QED BY <1>7, <1>8, <1>9, <1>10 DEF PromptSettled

\* A frame of another command, while the prompt is active.
LEMMA InterleavedKeeps ==
  ASSUME SessionInv, child = "TaskPromptActive", NEW f \in Frames, UNCHANGED <<schedule, host>>,
         peer' = Observe(peer, f).peer, ~OnPrompt(f), NEW a, Interleaved(peer', a)
  PROVE  SessionInv'
<1>1. child \in ActivePhases /\ Refused /\ UNCHANGED <<prompt, dispose, forum>>
  BY PromptFrame DEF Interleaved
<1>2. CASE peer'.phase = "Fatal"
  <2>1. Contained
    BY <1>2 DEF Interleaved
  <2> QED BY <1>1, <2>1, RefusedEvidence, ActiveFacts, ObservedPeer, QuietContained
<1>3. CASE peer'.phase # "Fatal"
  <2>1. UNCHANGED <<child, pipe>>
    BY <1>3 DEF Interleaved
  <2>2. f.kind # "Settled" /\ f.on # "Prompt"
    BY FramesHaveShape DEF FrameShape, OnPrompt
  <2>3. Judges(peer, f, Observe(peer, f)) /\ peer'.total >= peer.total
        /\ peer \in Peers /\ peer' \in Peers
    BY <1>1, ObservedPeer, ActiveFacts
  <2>4. /\ peer'.turn.latest # 0 => peer.turn.latest # 0
        /\ peer'.turn.evidence \in Ending => peer.turn.evidence \in Ending
        /\ peer'.turn.evidence = "AwaitingSettledFrame" =>
             peer.turn.evidence = "AwaitingSettledFrame"
    BY <2>2, <2>3 DEF Judges
  <2>5. peer'.total <= KernelCeiling => peer.total <= KernelCeiling
    <3>1. peer.total \in Nat /\ peer'.total \in Nat
      BY <2>3, PeerFields
    <3>2. KernelCeiling \in Nat
      BY SessionAssumption
    <3> QED BY <2>3, <3>1, <3>2
  <2>6. DriverFollows' /\ EarlyPeer'
    <3>1. child = "TaskPromptActive" /\ child' = "TaskPromptActive"
      BY <2>1
    <3> QED BY <1>1, <2>4, <2>5, <3>1
            DEF SessionInv, DriverFollows, EarlyPeer, EarlyPhases, Ending
  <2> QED BY <1>1, <1>3, <2>1, <2>2, <2>6, RefusedEvidence, ActiveFacts, PromptGoesOn
<1> QED BY <1>2, <1>3

\* observe_prompt
LEMMA ObservePromptKeeps ==
  ASSUME SessionInv, NEW a, ObservePrompt(a)
  PROVE  SessionInv'
<1>1. child = "TaskPromptActive" /\ child \in ActivePhases /\ UNCHANGED <<schedule, host>>
  BY DEF ObservePrompt, ActivePhases
<1>2. PICK f \in Frames : /\ peer' = Observe(peer, f).peer
                          /\ ProjectPrompt(f, Observe(peer, f), peer.next, a)
  BY DEF ObservePrompt
<1>3. CASE ~OnPrompt(f) /\ Interleaved(Observe(peer, f).peer, a)
  BY <1>1, <1>2, <1>3, InterleavedKeeps
<1>4. CASE PromptUsageFailure(peer.next, TRUE, a) \/ PromptUsageFailure(peer.next, FALSE, a)
  BY <1>1, <1>2, <1>4, PromptUsageFailureKeeps
<1>5. CASE Refused /\ Contain(a) /\ UNCHANGED forum
  BY <1>1, <1>2, <1>5, ContainOnFrame
<1>6. CASE /\ Observe(peer, f).verdict = "Accepted"
           /\ \/ f.kind = "CommandResult" /\ PromptResult(f, peer.next, a)
              \/ f.kind \in {"AgentEvent", "ForumToolCall"} /\ PromptEvent(f, peer.next, a)
              \/ f.kind = "Usage" /\ PromptUsage(f, peer.next, a)
              \/ f.kind = "Settled" /\ PromptSettled(f, peer.next, a)
  BY <1>1, <1>2, <1>6, PromptResultKeeps, PromptEventKeeps, PromptUsageKeeps,
     PromptSettledKeeps
<1> QED BY <1>2, <1>3, <1>4, <1>5, <1>6 DEF ProjectPrompt

\* A staged command leaves the driver's notes alone.
LEMMA StageKeepsNotes ==
  ASSUME SessionInv, child \in ActivePhases \ EarlyPhases, NEW c \in Commands, Stage(c),
         UNCHANGED prompt,
         child' = child \/ child' \in {"DisposeDeliveryPending", "DisposeRequested"}
  PROVE  DriverFollows' /\ EarlyPeer'
<1>1. peer'.turn = peer.turn /\ peer'.total = peer.total
  BY StageKeepsPeer
<1> QED BY <1>1 DEF SessionInv, DriverFollows, EarlyPeer, EarlyPhases, HasTurn

\* route_forum_tool_call
LEMMA RouteKeeps ==
  ASSUME SessionInv, NEW a, RouteForumToolCall(a)
  PROVE  SessionInv'
<1>1. /\ forum # NoCall /\ forum' = NoCall /\ UNCHANGED <<schedule, host>>
      /\ forum \in Calls /\ forum \in Commands
  BY DEF RouteForumToolCall, SessionInv, Typed, Commands
<1>2. CASE Refused /\ UNCHANGED <<child, prompt, dispose, peer, pipe>>
  <2>1. UNCHANGED <<kernel, frontier>>
    BY <1>2 DEF Refused
  <2>2. Typed'
    BY <1>1, <1>2, <2>1 DEF SessionInv, Typed
  <2>3. PeerSound(peer)' /\ EarlyPeer' /\ FencedIsContained' /\ DriverFollows'
    BY <1>2, <2>1 DEF SessionInv, PeerSound, HasTurn, EarlyPeer, FencedIsContained,
       DriverFollows
  <2>4. ReceiptsFollow' /\ EvidenceAgrees' /\ ReapIsFinal'
    BY <1>1, <1>2, <2>1 DEF SessionInv, ReceiptsFollow, EvidenceAgrees, ReapIsFinal
  <2> QED BY <2>2, <2>3, <2>4 DEF SessionInv
<1>3. ASSUME child = "TaskPromptActive", Commit(kernel)
      PROVE  /\ child \in ActivePhases \ EarlyPhases
             /\ kernel' \in Receipts /\ SameEvidence(kernel, kernel') /\ frontier' = "Stale"
  BY <1>3, ActiveFacts DEF ActivePhases, EarlyPhases, Commit, SameEvidence, SameCustody
<1>4. CASE child = "TaskPromptActive" /\ Commit(kernel) /\ StageFails(forum, a)
  <2>1. peer' \in Peers /\ PeerSound(peer)' /\ peer'.settled = peer.settled
    BY <1>1, <1>3, <1>4, ActiveFacts, StageFailsPeer
  <2>2. Contain(a)
    BY <1>4 DEF StageFails
  <2> QED BY <1>1, <1>3, <1>4, <2>1, <2>2, QuietContain
<1>5. CASE /\ child = "TaskPromptActive" /\ Commit(kernel) /\ Stage(forum)
           /\ Waits(forum) \/ UNCHANGED pipe
           /\ UNCHANGED <<child, prompt, dispose>>
  <2>1. pipe' \in Pipes /\ pipe'.cancel = pipe.cancel /\ pipe'.reaped = pipe.reaped
    BY <1>1, <1>3, <1>5, ActiveFacts, ControlPipe DEF Waits
  <2>2. DriverFollows' /\ EarlyPeer'
    BY <1>1, <1>3, <1>5, StageKeepsNotes
  <2> QED
    BY <1>1, <1>3, <1>5, <2>1, <2>2, ActiveFacts, StageKeepsPeer, QuietAdvance
<1> QED BY <1>2, <1>4, <1>5 DEF RouteForumToolCall

\* drive_forum_tool_result
LEMMA DriveForumKeeps ==
  ASSUME SessionInv, NEW a, DriveForumToolResult(a)
  PROVE  SessionInv'
<1>1. /\ child = "TaskPromptActive" /\ child \in ActivePhases /\ Refused
      /\ UNCHANGED <<schedule, forum, peer, host>>
  BY DEF DriveForumToolResult, ActivePhases
<1>2. CASE Contain(a)
  BY <1>1, <1>2, RefusedEvidence, ActiveFacts, UnchangedPeer, QuietContain
<1>3. CASE Written /\ UNCHANGED <<child, prompt, dispose>>
  <2>1. pipe' \in Pipes /\ pipe'.cancel = pipe.cancel /\ pipe'.reaped = pipe.reaped
    BY <1>1, <1>3, ActiveFacts, ControlPipe DEF Written
  <2>2. EarlyPeer' /\ DriverFollows'
    BY <1>1, <1>3 DEF SessionInv, EarlyPeer, DriverFollows, HasTurn
  <2> QED
    BY <1>1, <1>3, <2>1, <2>2, RefusedEvidence, ActiveFacts, UnchangedPeer, QuietAdvance
<1> QED BY <1>2, <1>3 DEF DriveForumToolResult

-----------------------------------------------------------------------------
(* Dispose keeps the invariant.                                            *)

\* begin_dispose
LEMMA BeginDisposeKeeps ==
  ASSUME SessionInv, NEW a, BeginDispose(a)
  PROVE  SessionInv'
<1>1. /\ child = "TaskPromptTerminalRecorded" /\ child \in ActivePhases \ EarlyPhases
      /\ UNCHANGED <<schedule, forum, host>> /\ "Dispose" \in Commands
  BY DEF BeginDispose, ActivePhases, EarlyPhases, Commands
<1>2. ASSUME Commit(DisposeAuthorized) \/ Commit(DisposeDelivered)
      PROVE  kernel' \in Receipts /\ SameEvidence(kernel, kernel') /\ frontier' = "Stale"
  BY <1>1, <1>2, ActiveFacts, ZenonT(40) DEF Commit, DisposeAuthorized, DisposeDelivered, Receipts,
     SameEvidence, SameCustody
<1>3. CASE Commit(DisposeAuthorized) /\ StageFails("Dispose", a)
  <2>1. peer' \in Peers /\ PeerSound(peer)' /\ peer'.settled = peer.settled
    BY <1>1, <1>3, ActiveFacts, StageFailsPeer
  <2>2. Contain(a)
    BY <1>3 DEF StageFails
  <2> QED BY <1>1, <1>2, <1>3, <2>1, <2>2, ActiveFacts, QuietContain
<1>4. ASSUME NEW x \in {"DeliveryPending", "AwaitingAcceptance"},
             Commit(DisposeAuthorized) \/ Commit(DisposeDelivered),
             Stage("Dispose"), Waits("Dispose") \/ UNCHANGED pipe,
             child' \in {"DisposeDeliveryPending", "DisposeRequested"},
             dispose' = [NoDispose EXCEPT !.phase = x], UNCHANGED prompt
      PROVE  SessionInv'
  <2>1. pipe' \in Pipes /\ pipe'.cancel = pipe.cancel /\ pipe'.reaped = pipe.reaped
    BY <1>1, <1>4, ActiveFacts, ControlPipe DEF Waits
  <2>2. /\ child' \in ActivePhases /\ dispose' \in Disposes
        /\ dispose'.phase # "AwaitingDisposed"
    BY <1>4 DEF ActivePhases, Disposes, NoDispose, DisposePhases
  <2>3. EarlyPeer' /\ DriverFollows'
    BY <1>1, <1>4, StageKeepsNotes
  <2> QED BY <1>1, <1>2, <1>4, <2>1, <2>2, <2>3, ActiveFacts, StageKeepsPeer, QuietAdvance
<1> QED BY <1>3, <1>4 DEF BeginDispose

\* drive_dispose
LEMMA DriveDisposeKeeps ==
  ASSUME SessionInv, NEW a, DriveDispose(a)
  PROVE  SessionInv'
<1>1. /\ child = "DisposeDeliveryPending" /\ child \in ActivePhases
      /\ UNCHANGED <<schedule, forum, peer, host>>
  BY DEF DriveDispose, ActivePhases
<1>2. CASE Refused /\ Contain(a)
  BY <1>1, <1>2, RefusedEvidence, ActiveFacts, UnchangedPeer, QuietContain
<1>3. CASE /\ Commit(DisposeDelivered) /\ Written /\ child' = "DisposeRequested"
           /\ dispose' = [dispose EXCEPT !.phase = "AwaitingAcceptance"]
           /\ UNCHANGED prompt
  <2>1. kernel' \in Receipts /\ SameEvidence(kernel, kernel') /\ frontier' = "Stale"
    BY <1>1, <1>3, ActiveFacts DEF DisposeDelivered, Commit, Receipts, SameEvidence, SameCustody
  <2>2. pipe' \in Pipes /\ pipe'.cancel = pipe.cancel /\ pipe'.reaped = pipe.reaped
    BY <1>1, <1>3, ActiveFacts, ControlPipe DEF Written
  <2>3. /\ child' \in ActivePhases /\ dispose' \in Disposes
        /\ dispose'.phase # "AwaitingDisposed"
    BY <1>1, <1>3, ActiveFacts DEF ActivePhases, Disposes, DisposePhases
  <2>4. EarlyPeer' /\ DriverFollows'
    BY <1>3 DEF EarlyPeer, EarlyPhases, DriverFollows
  <2> QED BY <1>1, <1>3, <2>1, <2>2, <2>3, <2>4, ActiveFacts, UnchangedPeer, QuietAdvance
<1> QED BY <1>2, <1>3 DEF DriveDispose

\* The frame of a dispose: it carries no outcome, and fences only as Unavailable.
LEMMA DisposeFrame ==
  ASSUME SessionInv, child = "DisposeRequested", NEW f \in Frames,
         peer' = Observe(peer, f).peer, f.on = "Dispose"
  PROVE  /\ child \in ActivePhases /\ peer.next \in Nat /\ peer.next # 0
         /\ peer' \in Peers /\ PeerSound(peer)' /\ peer'.total >= peer.total
         /\ peer'.settled = peer.settled
         /\ f.kind # "Usage" => peer'.total = peer.total
         /\ Observe(peer, f).verdict = "Accepted" /\ f.kind # "Unavailable" =>
              peer'.phase # "Fatal"
         /\ Observe(peer, f).verdict = "Accepted" /\ f.kind = "Usage" =>
              peer'.total = f.total
         /\ peer'.settled # "" => kernel.terminal # "" \/ peer'.total > KernelCeiling
         /\ kernel.terminal # "" => kernel.terminal = peer'.settled
<1>1. child \in ActivePhases
  BY DEF ActivePhases
<1>2. peer \in Peers /\ peer.total \in Nat /\ KernelCeiling \in Nat
      /\ (peer.settled # "" => kernel.terminal # "" \/ peer.total > KernelCeiling)
      /\ (kernel.terminal # "" => kernel.terminal = peer.settled)
  BY <1>1, ActiveFacts
<1>3. f.kind # "Settled"
  BY FramesHaveShape DEF FrameShape
<1>4. /\ Judges(peer, f, Observe(peer, f))
      /\ peer' \in Peers /\ PeerSound(peer)' /\ peer'.total >= peer.total
  BY ObservedPeer
<1>5. /\ peer'.settled = peer.settled
      /\ f.kind # "Usage" => peer'.total = peer.total
      /\ Observe(peer, f).verdict = "Accepted" /\ f.kind # "Unavailable" =>
           peer'.phase # "Fatal"
      /\ Observe(peer, f).verdict = "Accepted" /\ f.kind = "Usage" => peer'.total = f.total
  BY <1>3, <1>4 DEF Judges
<1>6. peer'.total \in Nat
  BY <1>4, PeerFields
<1>7. peer.total > KernelCeiling => peer'.total > KernelCeiling
  <2>1. peer.total \in Nat /\ KernelCeiling \in Nat /\ peer'.total >= peer.total
    BY <1>2, <1>4
  <2> QED BY <1>6, <2>1
<1>8. peer.next \in Nat /\ peer.next # 0
  BY <1>2, PeerFields
<1> QED BY <1>1, <1>2, <1>4, <1>5, <1>7, <1>8

\* While Dispose is requested, neither the handshake nor the prompt is at stake.
LEMMA DisposeQuiet ==
  ASSUME child' = "DisposeRequested"
  PROVE  child' \in ActivePhases /\ EarlyPeer' /\ DriverFollows'
BY DEF ActivePhases, EarlyPeer, EarlyPhases, DriverFollows

\* record_task_attempt_session_dispose_usage_failure
LEMMA DisposeUsageFailureKeeps ==
  ASSUME SessionInv, child = "DisposeRequested", NEW f \in Frames, f.on = "Dispose",
         UNCHANGED <<schedule, host, forum>>,
         peer' = Observe(peer, f).peer, NEW a, DisposeUsageFailure(peer.next, a)
  PROVE  SessionInv'
<1>1. child \in ActivePhases /\ peer.next \in Nat
  BY DisposeFrame
<1>2. CASE Refused /\ Contain(a)
  BY <1>1, <1>2, ContainOnFrame
<1>3. CASE /\ Contained /\ UNCHANGED prompt
           /\ Commit([kernel EXCEPT !.closeFailure = peer.next, !.reservation = "Frozen"])
           /\ dispose' = [dispose EXCEPT !.phase = "UsageFrozen"]
  <2>1. /\ kernel' \in Receipts /\ SameCustody(kernel, kernel') /\ frontier' = "Stale"
        /\ kernel'.terminal = kernel.terminal /\ kernel'.failure = kernel.failure
        /\ kernel'.reservation = "Frozen"
    BY <1>1, <1>3, ActiveFacts, ZenonT(40) DEF Commit, Receipts, SameCustody
  <2>2. dispose' \in Disposes
    BY <1>1, <1>3, ActiveFacts DEF Disposes, DisposePhases
  <2>3. Rest /\ kernel'.failure = 0
    BY <1>1, <1>3, <2>1, <2>2, ActiveFacts, DisposeFrame DEF Rest
  <2> QED BY <1>1, <1>3, <2>1, <2>3, ContainKeeps
<1> QED BY <1>2, <1>3 DEF DisposeUsageFailure

\* The result of Dispose.
LEMMA DisposeResultKeeps ==
  ASSUME SessionInv, child = "DisposeRequested", NEW f \in Frames, f.on = "Dispose",
         UNCHANGED <<schedule, host, forum>>, Observe(peer, f).verdict = "Accepted",
         f.kind = "CommandResult",
         peer' = Observe(peer, f).peer, NEW a, DisposeResult(f, peer.next, a)
  PROVE  SessionInv'
<1>1. child \in ActivePhases /\ peer.next \in Nat
  BY DisposeFrame
<1>2. CASE Refused /\ Contain(a)
  BY <1>1, <1>2, ContainOnFrame
<1>3. CASE /\ Commit([kernel EXCEPT !.dispose = "Accepted", !.closeAccepted = peer.next])
           /\ dispose' = [dispose EXCEPT !.phase = "AwaitingFinalAccounting",
                                         !.accepted = peer.next]
           /\ UNCHANGED <<child, pipe, prompt>>
  <2>1. kernel' \in Receipts /\ SameEvidence(kernel, kernel') /\ frontier' = "Stale"
    BY <1>1, <1>3, ActiveFacts, ZenonT(40) DEF Commit, Receipts, SameEvidence, SameCustody
  <2>2. dispose' \in Disposes /\ dispose'.phase # "AwaitingDisposed"
    BY <1>1, <1>3, ActiveFacts DEF Disposes, DisposePhases
  <2>3. child' = "DisposeRequested"
    BY <1>3
  <2> QED BY <1>1, <1>3, <2>1, <2>2, <2>3, ActiveFacts, DisposeFrame, DisposeQuiet, QuietAdvance
<1> QED BY <1>2, <1>3 DEF DisposeResult

\* The final accounting of Dispose.
LEMMA DisposeUsageKeeps ==
  ASSUME SessionInv, child = "DisposeRequested", NEW f \in Frames, f.on = "Dispose",
         UNCHANGED <<schedule, host, forum>>, Observe(peer, f).verdict = "Accepted",
         f.kind = "Usage",
         peer' = Observe(peer, f).peer, NEW a, DisposeUsage(f, peer.next, a)
  PROVE  SessionInv'
<1>1. /\ child \in ActivePhases /\ peer.next \in Nat /\ peer'.total = f.total
      /\ peer'.phase # "Fatal"
  BY DisposeFrame
<1>2. CASE Refused /\ Contain(a)
  BY <1>1, <1>2, ContainOnFrame
<1>3. CASE FinalAccounting(peer.next) /\ Refused /\ UNCHANGED <<child, pipe, prompt, dispose>>
  <2>1. dispose'.phase # "AwaitingDisposed" /\ child' = "DisposeRequested"
    BY <1>3 DEF FinalAccounting
  <2> QED
    BY <1>1, <1>3, <2>1, RefusedEvidence, ActiveFacts, DisposeFrame, DisposeQuiet, QuietAdvance
<1>4. CASE /\ Commit([kernel EXCEPT !.closeUsage = [at |-> peer.next, total |-> f.total]])
           /\ dispose' = [dispose EXCEPT !.phase = "AwaitingDisposed", !.final = peer.next]
           /\ UNCHANGED <<child, pipe, prompt>>
  <2>0. f.total \in Nat
    BY <1>1, DisposeFrame, PeerFields
  <2>1. /\ kernel' \in Receipts /\ SameCustody(kernel, kernel') /\ frontier' = "Stale"
        /\ kernel'.terminal = kernel.terminal /\ kernel'.failure = kernel.failure
        /\ kernel'.reservation = kernel.reservation /\ kernel'.closeUsage.total = f.total
    BY <1>1, <1>4, <2>0, ActiveFacts DEF Commit, Receipts, SameCustody
  <2>2. dispose' \in Disposes
    BY <1>1, <1>4, ActiveFacts DEF Disposes, DisposePhases
  <2>3. Rest
    BY <1>1, <1>4, <2>1, <2>2, ActiveFacts, DisposeFrame DEF Rest
  <2>4. child' = "DisposeRequested"
    BY <1>4
  <2> QED BY <1>1, <1>4, <2>1, <2>3, <2>4, ActiveFacts, DisposeFrame, DisposeQuiet, AdvanceKeeps
<1> QED BY <1>2, <1>3, <1>4 DEF DisposeUsage

\* The receipt of Disposed charges what the reservation holds, or freezes it.
LEMMA DisposedReceiptShape ==
  ASSUME NEW k \in Receipts, NEW s \in Nat
  PROVE  LET l == DisposedReceipt(k, s)
         IN  /\ l \in Receipts /\ SameCustody(k, l) /\ l.terminal = k.terminal
             /\ l.failure = k.failure /\ l.disposed = s
             /\ l.reservation = "Reconciled" => l.charged = k.closeUsage.total
<1>1. k.closeUsage.total \in Nat /\ Amount \in Nat
  BY SessionAssumption DEF Receipts
<1>2. CASE k.closeUsage.total > Amount
  BY <1>2, ZenonT(40) DEF DisposedReceipt, Receipts, SameCustody
<1>3. CASE ~(k.closeUsage.total > Amount)
  <2>1. k.closeUsage.total \in 0..Amount
    BY <1>1, <1>3
  <2> QED BY <1>3, <2>1, ZenonT(40) DEF DisposedReceipt, Receipts, SameCustody
<1> QED BY <1>2, <1>3

\* Disposed: the transcript is sealed, the reservation is settled and the host
\* is let go.
LEMMA DisposeEndsKeeps ==
  ASSUME SessionInv, child = "DisposeRequested", NEW f \in Frames, f.on = "Dispose",
         UNCHANGED <<host, forum>>, Observe(peer, f).verdict = "Accepted",
         f.kind = "Disposed",
         peer' = Observe(peer, f).peer, NEW a, DisposeEnds(peer.next, a)
  PROVE  SessionInv'
<1>1. /\ child \in ActivePhases /\ peer.next \in Nat /\ peer.next # 0
      /\ peer'.phase # "Fatal" /\ peer'.total = peer.total
  BY DisposeFrame
<1>2. CASE Refused /\ Contain(a) /\ UNCHANGED schedule
  BY <1>1, <1>2, ContainOnFrame
<1>3. CASE pipe' = [pipe EXCEPT !.stdin = FALSE] /\ Refused
           /\ UNCHANGED <<schedule, child, prompt, dispose>>
  <2>1. pipe' \in Pipes /\ pipe'.cancel = pipe.cancel /\ pipe'.reaped = pipe.reaped
    BY <1>1, <1>3, ActiveFacts DEF Pipes
  <2>2. Rest
    BY <1>1, <1>3, RefusedEvidence, ActiveFacts, DisposeFrame DEF Rest, SameEvidence
  <2>3. UNCHANGED kernel /\ child' = "DisposeRequested"
    BY <1>3 DEF Refused
  <2>4. dispose.phase = "AwaitingDisposed" => kernel.closeUsage.total = peer.total
    BY DEF SessionInv, ReceiptsFollow
  <2> QED BY <1>1, <1>3, <2>1, <2>2, <2>3, <2>4, ActiveFacts, DisposeFrame, DisposeQuiet,
             AdvanceKeeps
<1>4. CASE /\ dispose.phase = "AwaitingDisposed"
           /\ Commit(DisposedReceipt(kernel, peer.next))
           /\ pipe' = [pipe EXCEPT !.stdin = FALSE]
           /\ child' = "Disposed" /\ dispose' = [dispose EXCEPT !.phase = "Disposed"]
           /\ schedule' = "Disposed" \/ UNCHANGED schedule
           /\ UNCHANGED prompt
  <2>1. /\ kernel' \in Receipts /\ SameCustody(kernel, kernel') /\ frontier' = "Stale"
        /\ kernel'.terminal = kernel.terminal /\ kernel'.failure = 0
        /\ kernel'.disposed = peer.next
        /\ kernel'.reservation = "Reconciled" => kernel'.charged = kernel.closeUsage.total
    BY <1>1, <1>4, ActiveFacts, DisposedReceiptShape DEF Commit
  <2>2. kernel.closeUsage.total = peer.total
    BY <1>4 DEF SessionInv, ReceiptsFollow
  <2>3. dispose' \in Disposes /\ pipe' \in Pipes /\ pipe'.cancel = "None"
    BY <1>1, <1>4, ActiveFacts DEF Disposes, DisposePhases, Pipes
  <2>4. schedule' \in ScheduleStates \ {"None", "Reconciled"}
    BY <1>1, <1>4, ActiveFacts DEF ScheduleStates
  <2>5. Typed'
    BY <1>1, <1>4, <2>1, <2>3, <2>4, ActiveFacts, DisposeFrame DEF SessionInv, Typed, ChildPhases
  <2>6. PeerSound(peer)' /\ EarlyPeer' /\ DriverFollows'
    BY <1>4, DisposeFrame DEF EarlyPeer, EarlyPhases, DriverFollows
  <2>7. FencedIsContained'
    BY <1>1, <1>4, <2>3 DEF FencedIsContained
  <2>8. ReceiptsFollow'
    BY <1>4, <2>1 DEF ReceiptsFollow
  <2>9. EvidenceAgrees'
    BY <1>1, <2>1, <2>2, DisposeFrame DEF EvidenceAgrees
  <2>10. ReapIsFinal'
    BY <1>1, <1>4, <2>1, <2>4 DEF SessionInv, ReapIsFinal, ReapPhases, SameCustody
  <2> QED BY <2>5, <2>6, <2>7, <2>8, <2>9, <2>10 DEF SessionInv
<1> QED BY <1>2, <1>3, <1>4 DEF DisposeEnds

\* observe_dispose
LEMMA ObserveDisposeKeeps ==
  ASSUME SessionInv, NEW a, ObserveDispose(a)
  PROVE  SessionInv'
<1>1. child = "DisposeRequested" /\ child \in ActivePhases /\ UNCHANGED <<forum, host>>
  BY DEF ObserveDispose, ActivePhases
<1>2. CASE Contain(a) /\ Refused /\ UNCHANGED <<peer, schedule>>
  BY <1>1, <1>2, RefusedEvidence, ActiveFacts, UnchangedPeer, QuietContain
<1>3. ASSUME NEW f \in Frames, peer' = Observe(peer, f).peer,
             ProjectDispose(f, Observe(peer, f), peer.next, a)
      PROVE  SessionInv'
  <2>1. CASE Refused /\ Contain(a) /\ UNCHANGED schedule
    BY <1>1, <1>3, <2>1, ContainOnFrame
  <2>2. CASE f.on = "Dispose" /\ UNCHANGED schedule /\ DisposeUsageFailure(peer.next, a)
    BY <1>1, <1>3, <2>2, DisposeUsageFailureKeeps
  <2>3. CASE /\ f.on = "Dispose" /\ Observe(peer, f).verdict = "Accepted"
             /\ \/ f.kind = "CommandResult" /\ DisposeResult(f, peer.next, a) /\ UNCHANGED schedule
                \/ f.kind = "Usage" /\ DisposeUsage(f, peer.next, a) /\ UNCHANGED schedule
                \/ f.kind = "Disposed" /\ DisposeEnds(peer.next, a)
    BY <1>1, <1>3, <2>3, DisposeResultKeeps, DisposeUsageKeeps, DisposeEndsKeeps
  <2> QED BY <1>3, <2>1, <2>2, <2>3 DEF ProjectDispose
<1> QED BY <1>2, <1>3 DEF ObserveDispose

-----------------------------------------------------------------------------
(* Containment, reap and completion keep the invariant.                    *)

\* advance_cancellation_without_reap goes on with a cancellation that was armed.
LEMMA CancellationShape ==
  ASSUME NEW p \in Pipes, NEW q \in AdvanceCancellation(p)
  PROVE  /\ q \in Pipes /\ p.cancel # "None" /\ q.cancel # "None" /\ q.stdin = p.stdin
         /\ q.control = p.control /\ q.reaped = p.reaped /\ q.remains = p.remains
<1>1. PICK sent \in (CASE p.cancel = "Armed" -> {"Termed", "Killed"}
                       [] p.cancel = "Termed" -> {"Killed"}
                       [] OTHER -> {})
                    \X (IF p.reaped = "No" THEN BOOLEAN ELSE {FALSE}) :
        q = [p EXCEPT !.cancel = sent[1], !.lost = @ \/ sent[2]]
  BY DEF AdvanceCancellation
<1>2. p.cancel # "None" /\ sent[1] \in {"Termed", "Killed"} /\ sent[2] \in BOOLEAN
  BY DEF Pipes
<1>3. p.lost \/ sent[2] \in BOOLEAN
  OBVIOUS
<1> QED BY <1>1, <1>2, <1>3 DEF Pipes

\* drive_containment
LEMMA DriveContainmentKeeps ==
  ASSUME SessionInv, NEW a, DriveContainment(a)
  PROVE  SessionInv'
<1>1. /\ schedule' = "ContainmentRequired" /\ schedule \notin {"None", "Reconciled"}
      /\ UNCHANGED <<child, prompt, dispose, forum, peer, host, kernel, frontier>>
      /\ pipe \in Pipes
  BY DEF DriveContainment, SessionInv, Typed
<1>2. \/ pipe' \in AdvanceCancellation(pipe) /\ child = "Contained"
      \/ UNCHANGED pipe
  BY DEF DriveContainment
<1>3. /\ pipe' \in Pipes /\ pipe'.stdin = pipe.stdin /\ pipe'.control = pipe.control
      /\ pipe'.reaped = pipe.reaped /\ pipe'.remains = pipe.remains
      /\ pipe'.cancel # "None" <=> pipe.cancel # "None"
  <2>1. CASE pipe' \in AdvanceCancellation(pipe)
    BY <1>1, <2>1, CancellationShape
  <2> QED BY <1>1, <1>2, <2>1
<1>4. Typed'
  BY <1>1, <1>3 DEF SessionInv, Typed, ScheduleStates
<1>5. PeerSound(peer)' /\ EarlyPeer' /\ DriverFollows'
  BY <1>1 DEF SessionInv, PeerSound, HasTurn, EarlyPeer, DriverFollows
<1>6. FencedIsContained'
  BY <1>1, <1>3 DEF SessionInv, FencedIsContained
<1>7. ReceiptsFollow' /\ EvidenceAgrees'
  BY <1>1 DEF SessionInv, ReceiptsFollow, EvidenceAgrees
<1>8. ReapIsFinal'
  BY <1>1 DEF SessionInv, ReapIsFinal
<1> QED BY <1>4, <1>5, <1>6, <1>7, <1>8 DEF SessionInv

\* drive_cancellation of a child that was never registered
LEMMA DriveUnregisteredKeeps ==
  ASSUME SessionInv, NEW a, DriveUnregistered(a)
  PROVE  SessionInv'
<1>1. /\ child = "Unregistered" /\ pipe \in Pipes /\ schedule = "None"
      /\ UNCHANGED <<schedule, prompt, dispose, forum, peer, host, kernel, frontier>>
  BY DEF DriveUnregistered, SessionInv, Typed
<1>2. /\ pipe' \in Pipes /\ pipe'.stdin = pipe.stdin /\ pipe'.control = pipe.control
      /\ pipe'.cancel # "None" <=> pipe.cancel # "None"
      /\ child' \in {"Unregistered", "Gone"}
  <2>1. CASE pipe' \in AdvanceCancellation(pipe) /\ UNCHANGED child
    BY <1>1, <2>1, CancellationShape
  <2>2. ASSUME NEW p \in Waited(pipe), child' = "Gone",
               pipe' = [p EXCEPT !.reaped = "Done", !.swept = p.seen # "Absent"]
        PROVE  /\ pipe' \in Pipes /\ pipe'.stdin = pipe.stdin /\ pipe'.control = pipe.control
               /\ pipe'.cancel # "None" <=> pipe.cancel # "None"
               /\ child' \in {"Unregistered", "Gone"}
    <3>1. p \in Pipes /\ p.cancel = pipe.cancel /\ p.stdin = pipe.stdin
          /\ p.control = pipe.control
      BY <1>1, <2>2, WaitedShape
    <3> QED BY <2>2, <3>1 DEF Pipes
  <2> QED BY <2>1, <2>2 DEF DriveUnregistered
<1>3. Typed'
  BY <1>1, <1>2 DEF SessionInv, Typed, ChildPhases
<1>4. PeerSound(peer)' /\ EarlyPeer' /\ DriverFollows'
  BY <1>1, <1>2 DEF SessionInv, PeerSound, HasTurn, EarlyPeer, EarlyPhases, DriverFollows
<1>5. FencedIsContained'
  BY <1>1, <1>2 DEF SessionInv, FencedIsContained, ReapPhases
<1>6. ReceiptsFollow' /\ EvidenceAgrees' /\ ReapIsFinal'
  BY <1>1, <1>2 DEF SessionInv, ReceiptsFollow, EvidenceAgrees, ReapIsFinal, ReapPhases
<1> QED BY <1>3, <1>4, <1>5, <1>6 DEF SessionInv

\* A step of the reap keeps the invariant: the conversation is over.
LEMMA ReapKeeps ==
  ASSUME SessionInv, MayReconcile, child \notin {"None", "Unregistered", "Gone"},
         host = "Dead", UNCHANGED <<prompt, dispose, forum, host>>,
         child' = child \/ child' \in ReapPhases,
         child \in ReapPhases => child' \in ReapPhases,
         schedule' = schedule \/ schedule' \in {"PhysicalReconciled", "Reconciled"},
         schedule' = "Reconciled" =>
           child' = "Reconciled" /\ pipe'.remains = "Absent" /\ kernel'.child = "Finalized",
         pipe' \in Pipes, pipe'.cancel = pipe.cancel,
         child' = "Contained" => pipe'.cancel # "None" \/ pipe'.reaped # "No",
         ~pipe.stdin => ~pipe'.stdin, pipe'.control = pipe.control,
         kernel' \in Receipts, frontier' \in {"Current", "Stale"},
         kernel'.terminal = kernel.terminal, kernel'.failure = kernel.failure,
         kernel'.reservation = kernel.reservation, kernel'.charged = kernel.charged,
         kernel'.disposed = kernel.disposed, kernel'.closeUsage = kernel.closeUsage,
         kernel'.obligation = kernel.obligation,
         peer' \in Peers, PeerSound(peer)', peer'.settled = peer.settled,
         peer'.total = peer.total,
         peer' = peer \/ child' \in ReapPhases \/ peer'.phase # "Fatal",
         peer' = peer \/ child \in ReapPhases
  PROVE  SessionInv'
<1>1. schedule \in {"Disposed", "ContainmentRequired"} /\ kernel.obligation # "Completed"
  BY DEF SessionInv, MayReconcile, ReapIsFinal
<1>2. Typed'
  BY <1>1 DEF SessionInv, Typed, ScheduleStates, ChildPhases, ReapPhases
<1>3. EarlyPeer' /\ DriverFollows'
  BY DEF SessionInv, EarlyPeer, EarlyPhases, DriverFollows, ReapPhases, HasTurn
<1>4. FencedIsContained'
  BY DEF SessionInv, FencedIsContained, ReapPhases
<1>5. ReceiptsFollow'
  BY DEF SessionInv, ReceiptsFollow, ReapPhases
<1>6. EvidenceAgrees'
  BY DEF SessionInv, EvidenceAgrees, ReapPhases
<1>7. ReapIsFinal'
  BY <1>1 DEF SessionInv, ReapIsFinal, ReapPhases
<1> QED BY <1>2, <1>3, <1>4, <1>5, <1>6, <1>7 DEF SessionInv

\* The receipts of the reap and of the obligation are receipts.
LEMMA ReapReceipt ==
  ASSUME NEW m \in Receipts, NEW c \in {"Reaped", "Finalized"}
  PROVE  [m EXCEPT !.child = c] \in Receipts
BY DEF Receipts

\* So is the reconciled binding.
LEMMA ReconciledReceipt ==
  ASSUME NEW m \in Receipts
  PROVE  [m EXCEPT !.binding = "Reconciled"] \in Receipts
BY DEF Receipts

\* So is the completed obligation.
LEMMA CompletedReceipt ==
  ASSUME NEW m \in Receipts
  PROVE  [m EXCEPT !.obligation = "Completed"] \in Receipts
<1> DEFINE Same ==
      [obligation : {"Active", "Completed"},
       child : {"None", "Running", "Reaped", "Finalized"},
       session : {"None", "AdapterReady", "CreateAuthorized", "CreateDelivered",
                  "SessionReady"},
       binding : {"None", "Bound", "Reconciled"},
       prompt : {"None", "Authorized", "Delivered", "Accepted"},
       accepted : Nat, usage : [at : Nat, total : Nat], failure : Nat,
       terminal : Outcomes \cup {""}, settled : Nat,
       dispose : {"None", "Authorized", "Delivered", "Accepted"},
       closeAccepted : Nat, closeUsage : [at : Nat, total : Nat], closeFailure : Nat,
       disposed : Nat, reservation : {"Reserved", "Frozen", "Reconciled"},
       charged : 0..Amount]
<1>1. ASSUME NEW k PROVE k \in Same <=> k \in Receipts
  BY ZenonT(40) DEF Receipts
<1>2. m \in Same
  BY <1>1
<1>3. [m EXCEPT !.obligation = "Completed"] \in Same
  BY <1>2
<1> QED BY <1>1, <1>3

\* The receipts of the reap and of the obligation leave the session's evidence alone.
LEMMA CustodyReceipt ==
  ASSUME NEW k \in Receipts, NEW l,
         \/ l = [k EXCEPT !.child = "Reaped"]
         \/ l = [k EXCEPT !.child = "Finalized"]
         \/ l = [[k EXCEPT !.child = "Finalized"] EXCEPT !.binding = "Reconciled"]
         \/ l = [k EXCEPT !.obligation = "Completed"]
  PROVE  /\ l \in Receipts /\ l.terminal = k.terminal /\ l.failure = k.failure
         /\ l.reservation = k.reservation /\ l.charged = k.charged
         /\ l.disposed = k.disposed /\ l.closeUsage = k.closeUsage
<1>4. l \in Receipts
  BY ReapReceipt, ReconciledReceipt, CompletedReceipt
<1>5. /\ l.terminal = k.terminal /\ l.failure = k.failure
      /\ l.reservation = k.reservation /\ l.charged = k.charged
      /\ l.disposed = k.disposed /\ l.closeUsage = k.closeUsage
  BY ZenonT(40) DEF Receipts
<1> QED BY <1>4, <1>5

\* poll_direct_child_reap, and the receipt of the wait status
LEMMA ReapDirectChildKeeps ==
  ASSUME SessionInv, NEW a, ReapDirectChild(a)
  PROVE  SessionInv'
<1>1. /\ MayReconcile /\ host = "Dead" /\ child \notin {"None", "Unregistered", "Gone"}
      /\ child \notin ReapPhases /\ pipe \in Pipes /\ kernel \in Receipts /\ peer \in Peers
      /\ UNCHANGED <<schedule, prompt, dispose, forum, peer, host>>
      /\ frontier \in {"Current", "Stale"} /\ PeerSound(peer)
  BY DEF ReapDirectChild, SessionInv, Typed
<1>2. pipe' \in Waited(pipe)
  BY DEF ReapDirectChild
<1>3. /\ pipe' \in Pipes /\ pipe'.reaped # "No" /\ pipe'.cancel = pipe.cancel
      /\ pipe'.stdin = pipe.stdin /\ pipe'.control = pipe.control
  BY <1>1, <1>2, WaitedShape
<1>4. child' = child \/ child' = "DirectChildReapRecorded"
  BY DEF ReapDirectChild
<1>5. \/ UNCHANGED <<kernel, frontier>>
      \/ kernel' = [kernel EXCEPT !.child = "Reaped"] /\ frontier' = "Stale"
  BY DEF ReapDirectChild, Refused, Commit
<1>6. /\ kernel' \in Receipts /\ frontier' \in {"Current", "Stale"}
      /\ kernel'.terminal = kernel.terminal /\ kernel'.failure = kernel.failure
      /\ kernel'.reservation = kernel.reservation /\ kernel'.charged = kernel.charged
      /\ kernel'.disposed = kernel.disposed /\ kernel'.closeUsage = kernel.closeUsage
      /\ kernel'.obligation = kernel.obligation
  <2>1. CASE UNCHANGED <<kernel, frontier>>
    BY <1>1, <2>1
  <2>2. CASE kernel' = [kernel EXCEPT !.child = "Reaped"] /\ frontier' = "Stale"
    <3>1. kernel'.obligation = kernel.obligation
      BY <1>1, <2>2 DEF Receipts
    <3> QED BY <1>1, <2>2, <3>1, CustodyReceipt
  <2> QED BY <1>5, <2>1, <2>2
<1>7. PeerSound(peer)' /\ schedule' # "Reconciled"
  BY <1>1 DEF PeerSound, HasTurn, MayReconcile
<1> QED BY <1>1, <1>3, <1>4, <1>6, <1>7, ReapKeeps DEF ReapPhases

\* clean_lingering_group
LEMMA CleanLingeringKeeps ==
  ASSUME SessionInv, NEW a, CleanLingering(a)
  PROVE  SessionInv'
<1>1. /\ MayReconcile /\ child = "DirectChildReapRecorded" /\ host = "Dead"
      /\ pipe \in Pipes /\ kernel \in Receipts /\ peer \in Peers
      /\ UNCHANGED <<schedule, prompt, dispose, forum, peer, host>>
      /\ frontier \in {"Current", "Stale"} /\ PeerSound(peer)
  BY DEF CleanLingering, SessionInv, Typed, ReapIsFinal, ReapPhases
<1>2. \/ UNCHANGED pipe
      \/ \E r \in {"Absent", "Present", "Inaccessible"} :
           pipe' = [pipe EXCEPT !.swept = TRUE, !.remains = r]
  BY DEF CleanLingering
<1>3. /\ pipe' \in Pipes /\ pipe'.cancel = pipe.cancel /\ pipe'.stdin = pipe.stdin
      /\ pipe'.control = pipe.control
  BY <1>1, <1>2 DEF Pipes
<1>4. child' \in ReapPhases /\ child' # "Contained"
  <2>1. ASSUME NEW r \in {"Absent", "Present", "Inaccessible"},
               CASE r = "Absent" -> a = "Waiting" /\ child' = "LingeringCleanupRecorded"
                 [] r = "Present" -> a = "Waiting" /\ child' = "AwaitingLingeringGroupAbsence"
                 [] r = "Inaccessible" -> a = "Error" /\ UNCHANGED child
        PROVE  child' \in ReapPhases
    BY <1>1, <2>1 DEF ReapPhases
  <2>2. child' \in ReapPhases
    BY <1>1, <2>1 DEF CleanLingering, ReapPhases
  <2> QED BY <2>2 DEF ReapPhases
<1>5. UNCHANGED kernel /\ frontier' \in {"Current", "Stale"}
  BY <1>1 DEF CleanLingering, Refused, Commit
<1>6. PeerSound(peer)' /\ schedule' # "Reconciled"
  BY <1>1 DEF PeerSound, HasTurn, MayReconcile
<1> QED BY <1>1, <1>3, <1>4, <1>5, <1>6, ReapKeeps

\* observe_group_liveness, the end of stdout and the finalization of the child
LEMMA ProveAbsenceKeeps ==
  ASSUME SessionInv, NEW a, ProveAbsence(a)
  PROVE  SessionInv'
<1> DEFINE f == Frame("Eof", "Prompt", "", 0)
           o == Observe(peer, f)
<1>1. /\ MayReconcile /\ child \in ReapPhases /\ pipe.remains = "Absent" /\ host = "Dead"
      /\ child \notin {"None", "Unregistered", "Gone"}
      /\ pipe \in Pipes /\ kernel \in Receipts /\ peer \in Peers
      /\ UNCHANGED <<prompt, dispose, forum, host>>
      /\ frontier \in {"Current", "Stale"} /\ PeerSound(peer) /\ peer' = o.peer
  BY DEF ProveAbsence, GroupAbsent, SessionInv, Typed, ReapIsFinal, ReapPhases
<1>2. f \in Frames /\ f.kind = "Eof"
  BY DEF Frames, Frame
<1>3. Judges(peer, f, o)
  BY <1>1, <1>2, ObserveJudges
<1>4. /\ peer' \in Peers /\ PeerSound(peer)' /\ peer'.settled = peer.settled
      /\ peer'.total = peer.total
  <2> HIDE DEF f, o
  <2>1. o.peer \in Peers /\ PeerSound(o.peer) /\ o.peer.settled = peer.settled
        /\ o.peer.total = peer.total
    BY <1>2, <1>3 DEF Judges
  <2> QED BY <1>1, <2>1 DEF PeerSound, HasTurn
<1>5. /\ pipe' = [pipe EXCEPT !.reaped = "Done", !.stdin = FALSE]
      /\ pipe' \in Pipes /\ pipe'.cancel = pipe.cancel /\ ~pipe'.stdin
      /\ pipe'.control = pipe.control /\ pipe'.remains = "Absent"
  BY <1>1 DEF ProveAbsence, Pipes
<1>6. \/ UNCHANGED <<kernel, frontier, schedule, child>>
      \/ /\ child' = "Reconciled" /\ schedule' = "PhysicalReconciled"
         /\ kernel' = [kernel EXCEPT !.child = "Finalized"] /\ frontier' = "Stale"
      \/ /\ child' = "Reconciled" /\ schedule' = "Reconciled"
         /\ kernel' = [[kernel EXCEPT !.child = "Finalized"] EXCEPT !.binding = "Reconciled"]
         /\ frontier' = "Stale"
  BY DEF ProveAbsence, Finalized, Refused, Commit
<1>7. /\ kernel' \in Receipts /\ frontier' \in {"Current", "Stale"}
      /\ kernel'.terminal = kernel.terminal /\ kernel'.failure = kernel.failure
      /\ kernel'.reservation = kernel.reservation /\ kernel'.charged = kernel.charged
      /\ kernel'.disposed = kernel.disposed /\ kernel'.closeUsage = kernel.closeUsage
      /\ kernel'.obligation = kernel.obligation
      /\ schedule' = "Reconciled" => child' = "Reconciled" /\ kernel'.child = "Finalized"
  <2>1. CASE UNCHANGED <<kernel, frontier, schedule, child>>
    BY <1>1, <2>1 DEF MayReconcile
  <2>2. CASE /\ child' = "Reconciled" /\ schedule' = "PhysicalReconciled"
             /\ kernel' = [kernel EXCEPT !.child = "Finalized"] /\ frontier' = "Stale"
    <3>1. kernel'.obligation = kernel.obligation
      BY <1>1, <2>2 DEF Receipts
    <3> QED BY <1>1, <2>2, <3>1, CustodyReceipt
  <2>3. CASE /\ child' = "Reconciled" /\ schedule' = "Reconciled"
             /\ kernel' = [[kernel EXCEPT !.child = "Finalized"] EXCEPT !.binding = "Reconciled"]
             /\ frontier' = "Stale"
    <3>1. kernel'.obligation = kernel.obligation /\ kernel'.child = "Finalized"
      BY <1>1, <2>3 DEF Receipts
    <3> QED BY <1>1, <2>3, <3>1, CustodyReceipt
  <2> QED BY <1>6, <2>1, <2>2, <2>3
<1>8. child' \in ReapPhases /\ child' # "Contained"
      /\ (schedule' = schedule \/ schedule' \in {"PhysicalReconciled", "Reconciled"})
  BY <1>1, <1>6 DEF ReapPhases
<1> HIDE DEF f, o
<1> QED BY <1>1, <1>4, <1>5, <1>7, <1>8, ReapKeeps

\* complete_actor_obligation
LEMMA CompleteObligationKeeps ==
  ASSUME SessionInv, NEW a, CompleteActorObligation(a)
  PROVE  SessionInv'
<1>1. /\ schedule = "Reconciled" /\ frontier' = "Stale"
      /\ kernel' = [kernel EXCEPT !.obligation = "Completed"] /\ kernel \in Receipts
      /\ UNCHANGED <<schedule, child, prompt, dispose, forum, peer, pipe, host>>
  BY DEF CompleteActorObligation, Commit, SessionInv, Typed
<1>2. /\ kernel' \in Receipts
      /\ kernel'.terminal = kernel.terminal /\ kernel'.failure = kernel.failure
      /\ kernel'.reservation = kernel.reservation /\ kernel'.charged = kernel.charged
      /\ kernel'.disposed = kernel.disposed /\ kernel'.closeUsage = kernel.closeUsage
      /\ kernel'.child = kernel.child
  <2>1. kernel'.child = kernel.child
    BY <1>1 DEF Receipts
  <2> QED BY <1>1, <2>1, CustodyReceipt
<1>3. Typed'
  BY <1>1, <1>2 DEF SessionInv, Typed
<1>4. PeerSound(peer)' /\ EarlyPeer' /\ DriverFollows' /\ FencedIsContained'
  BY <1>1 DEF SessionInv, PeerSound, HasTurn, EarlyPeer, DriverFollows, FencedIsContained
<1>5. ReceiptsFollow' /\ EvidenceAgrees'
  BY <1>1, <1>2 DEF SessionInv, ReceiptsFollow, EvidenceAgrees
<1>6. ReapIsFinal'
  BY <1>1, <1>2 DEF SessionInv, ReapIsFinal
<1> QED BY <1>3, <1>4, <1>5, <1>6 DEF SessionInv

\* The process stops, what is left of its group dies, the caller seals a prompt,
\* or nothing happens.
LEMMA ProcessKeeps ==
  ASSUME SessionInv, HostStops \/ GroupDies \/ SealPrompt \/ UNCHANGED vars
  PROVE  SessionInv'
<1>1. /\ UNCHANGED <<schedule, child, prompt, dispose, forum, peer, kernel>>
      /\ (host' = host) \/ (host = "Running" /\ host' = "Dead")
      /\ (frontier' = frontier) \/ (frontier' = "Current")
      /\ (pipe' = pipe) \/ (pipe' = [pipe EXCEPT !.remains = "Absent"])
      /\ pipe \in Pipes
  BY DEF HostStops, GroupDies, SealPrompt, vars, SessionInv, Typed
<1>2. /\ pipe' \in Pipes /\ pipe'.cancel = pipe.cancel /\ pipe'.stdin = pipe.stdin
      /\ pipe'.control = pipe.control /\ pipe'.reaped = pipe.reaped
      /\ pipe.remains = "Absent" => pipe'.remains = "Absent"
  BY <1>1 DEF Pipes
<1>3. Typed'
  BY <1>1, <1>2 DEF SessionInv, Typed
<1>4. PeerSound(peer)' /\ EarlyPeer' /\ DriverFollows'
  BY <1>1 DEF SessionInv, PeerSound, HasTurn, EarlyPeer, DriverFollows
<1>5. FencedIsContained' /\ ReceiptsFollow' /\ EvidenceAgrees' /\ ReapIsFinal'
  BY <1>1, <1>2
  DEF SessionInv, FencedIsContained, ReceiptsFollow, EvidenceAgrees, ReapIsFinal
<1> QED BY <1>3, <1>4, <1>5 DEF SessionInv

-----------------------------------------------------------------------------
(* Theorems.                                                               *)

\* Nothing was sent, seen or recorded before the spawn.
LEMMA InitKeeps == ASSUME Init PROVE SessionInv
<1>0. /\ MaxTotal \in Nat /\ Amount \in Nat /\ 0 \in 0..MaxTotal /\ 0 \in 0..Amount
  BY SessionAssumption
<1>1. NewPeer \in Peers
  BY <1>0 DEF NewPeer, Peers, NoTurn, NoClosing, PeerPhases, EvidencePhases
<1>2. NewPipe \in Pipes
  BY DEF NewPipe, Pipes
<1>3. NewKernel \in Receipts
  BY <1>0 DEF NewKernel, Receipts, NoUsage
<1>4. NoPrompt \in Prompts /\ NoDispose \in Disposes
  BY DEF NoPrompt, NoDispose, Prompts, Disposes, PromptPhases, DisposePhases
<1>5. Typed
  BY <1>1, <1>2, <1>3, <1>4 DEF Init, Typed, ScheduleStates, ChildPhases
<1>6. /\ peer.turn = NoTurn /\ ~HasTurn(peer) /\ peer.settled = "" /\ peer.phase # "Fatal"
      /\ peer.sent["Prompt"] = "None" /\ peer.sent["Dispose"] = "None"
  BY DEF Init, NewPeer, NoTurn, HasTurn, Commands
<1>7. /\ kernel.terminal = "" /\ kernel.failure = 0 /\ kernel.reservation = "Reserved"
      /\ kernel.obligation = "Active" /\ pipe.cancel = "None"
      /\ child = "None" /\ schedule = "None"
  BY DEF Init, NewKernel, NewPipe
<1>8. PeerSound(peer) /\ EarlyPeer /\ DriverFollows
  BY <1>6, <1>7 DEF PeerSound, EarlyPeer, DriverFollows
<1>9. FencedIsContained /\ ReceiptsFollow /\ EvidenceAgrees /\ ReapIsFinal
  BY <1>6, <1>7 DEF FencedIsContained, ReceiptsFollow, EvidenceAgrees, ReapIsFinal, ReapPhases
<1> QED BY <1>5, <1>8, <1>9 DEF SessionInv

\* Whatever frames the host writes, whenever it stops, and in whatever order the
\* caller makes the runner's calls, the invariant of the session holds.
THEOREM SessionHolds == Init /\ [][Next]_vars => []SessionInv
<1>1. Init => SessionInv
  BY InitKeeps
<1>2. SessionInv /\ [Next]_vars => SessionInv'
  <2>1. SUFFICES ASSUME SessionInv, [Next]_vars PROVE SessionInv'
    OBVIOUS
  <2>2. CASE HostStops \/ GroupDies \/ SealPrompt \/ UNCHANGED vars
    BY <2>1, <2>2, ProcessKeeps
  <2>3. ASSUME NEW a \in Answers,
               \/ Spawn(a) \/ BindRuntime(a) \/ ObserveAdapterReady(a)
               \/ BeginCreate(a) \/ DriveCreate(a) \/ ObserveSessionReady(a)
        PROVE  SessionInv'
    BY <2>1, <2>3, SpawnKeeps, BindKeeps, AdapterReadyKeeps, BeginCreateKeeps,
       DriveCreateKeeps, SessionReadyKeeps
  <2>4. ASSUME NEW a \in Answers,
               \/ BeginPrompt(a) \/ DrivePrompt(a) \/ ObservePrompt(a)
               \/ RouteForumToolCall(a) \/ DriveForumToolResult(a)
        PROVE  SessionInv'
    BY <2>1, <2>4, BeginPromptKeeps, DrivePromptKeeps, ObservePromptKeeps, RouteKeeps,
       DriveForumKeeps
  <2>5. ASSUME NEW a \in Answers, BeginDispose(a) \/ DriveDispose(a) \/ ObserveDispose(a)
        PROVE  SessionInv'
    BY <2>1, <2>5, BeginDisposeKeeps, DriveDisposeKeeps, ObserveDisposeKeeps
  <2>6. ASSUME NEW a \in Answers,
               \/ DriveContainment(a) \/ DriveUnregistered(a)
               \/ ReapDirectChild(a) \/ CleanLingering(a) \/ ProveAbsence(a)
               \/ CompleteActorObligation(a)
        PROVE  SessionInv'
    BY <2>1, <2>6, DriveContainmentKeeps, DriveUnregisteredKeeps, ReapDirectChildKeeps,
       CleanLingeringKeeps, ProveAbsenceKeeps, CompleteObligationKeeps
  <2> QED BY <2>1, <2>2, <2>3, <2>4, <2>5, <2>6 DEF Next
<1> QED BY <1>1, <1>2, PTL

\* Every part of the attempt stays in one of its states, a schedule exists exactly
\* while a child is registered, and a reservation is never charged beyond its amount.
THEOREM TypesHold == Spec => []TypeOK
<1>1. ASSUME SessionInv PROVE TypeOK
  BY <1>1 DEF SessionInv, Typed, TypeOK, Prompts, Disposes, Peers, Pipes, Receipts
<1> QED BY <1>1, SessionHolds, PTL DEF Spec

\* A peer that was fenced has its child contained, and a child that is contained has
\* its signals coming and its control pipe closed.
THEOREM FencedIsContainedHolds == Spec => []FencedIsContained
<1>1. SessionInv => FencedIsContained
  BY DEF SessionInv
<1> QED BY <1>1, SessionHolds, PTL DEF Spec

\* The terminal and the charge the ledger holds are the outcome and the last total
\* the host reported; a peer's outcome is lost only with its child or its usage.
THEOREM EvidenceAgreesHolds == Spec => []EvidenceAgrees
<1>1. SessionInv => EvidenceAgrees
  BY DEF SessionInv
<1> QED BY <1>1, SessionHolds, PTL DEF Spec

\* complete_actor_obligation succeeds only after the process and its group are gone
\* and the child is finalized.
THEOREM CompletedIsOverHolds == Spec => []CompletedIsOver
<1>1. SessionInv => CompletedIsOver
  BY DEF SessionInv, ReapIsFinal, CompletedIsOver, ReapPhases
<1> QED BY <1>1, SessionHolds, PTL DEF Spec

-----------------------------------------------------------------------------
(* A failed boundary.                                                      *)

\* Only a dead process was waited for, and none before the spawn.
WaitedIsDead ==
    /\ pipe.reaped # "No" => host = "Dead"
    /\ child = "None" => pipe.reaped = "No"

\* What a call does to the process: it waits for a dead one, or not at all.
WaitsForTheDead ==
    /\ UNCHANGED host
    /\ child' = child \/ child' # "None"
    /\ pipe'.reaped = pipe.reaped \/ (host = "Dead" /\ child # "None")

\* Arming, writing and closing the control pipe wait for nothing.
LEMMA PipeKeepsReap ==
  ASSUME NEW p \in Pipes
  PROVE  /\ Arm(p).reaped = p.reaped
         /\ \A c : [p EXCEPT !.control = c].reaped = p.reaped
         /\ [p EXCEPT !.stdin = FALSE].reaped = p.reaped
         /\ [p EXCEPT !.stdin = TRUE].reaped = p.reaped
         /\ \A r : [p EXCEPT !.swept = TRUE, !.remains = r].reaped = p.reaped
         /\ [p EXCEPT !.remains = "Absent"].reaped = p.reaped
         /\ \A q \in AdvanceCancellation(p) : q.reaped = p.reaped
<1>1. Arm(p).reaped = p.reaped
  BY ArmShape
<1>2. /\ \A c : [p EXCEPT !.control = c].reaped = p.reaped
      /\ [p EXCEPT !.stdin = FALSE].reaped = p.reaped
      /\ [p EXCEPT !.stdin = TRUE].reaped = p.reaped
      /\ \A r : [p EXCEPT !.swept = TRUE, !.remains = r].reaped = p.reaped
      /\ [p EXCEPT !.remains = "Absent"].reaped = p.reaped
  BY DEF Pipes
<1>3. ASSUME NEW q \in AdvanceCancellation(p) PROVE q.reaped = p.reaped
  BY <1>3 DEF AdvanceCancellation, Pipes
<1> QED BY <1>1, <1>2, <1>3

\* A call that only arms the cancellation or writes.
LEMMA WritesWait ==
  ASSUME pipe \in Pipes, UNCHANGED host, child' = child \/ child' # "None",
         pipe' = pipe \/ pipe' = Arm(pipe) \/ \E c : pipe' = [pipe EXCEPT !.control = c]
  PROVE  WaitsForTheDead
<1>1. ASSUME NEW c, pipe' = [pipe EXCEPT !.control = c] PROVE pipe'.reaped = pipe.reaped
  <2>1. [pipe EXCEPT !.control = c].reaped = pipe.reaped
    BY PipeKeepsReap
  <2> QED BY <1>1, <2>1
<1>2. CASE pipe' = Arm(pipe)
  BY <1>2, PipeKeepsReap DEF WaitsForTheDead
<1> QED BY <1>1, <1>2 DEF WaitsForTheDead

\* The calls up to the prompt.
LEMMA LaunchWaits ==
  ASSUME SessionInv, NEW a,
         \/ BindRuntime(a) \/ ObserveAdapterReady(a) \/ BeginCreate(a) \/ DriveCreate(a)
         \/ ObserveSessionReady(a)
  PROVE  WaitsForTheDead
<1>0. pipe \in Pipes
  BY DEF SessionInv, Typed
<1>1. CASE BindRuntime(a)
  BY <1>1 DEF BindRuntime, WaitsForTheDead
<1>2. CASE ObserveAdapterReady(a)
  BY <1>0, <1>2, PipeKeepsReap DEF ObserveAdapterReady, Contain, Contained, WaitsForTheDead
<1>3. CASE BeginCreate(a) \/ DriveCreate(a)
  <2>1. /\ UNCHANGED host
        /\ child' = child \/ child' # "None"
        /\ \/ pipe' = pipe \/ pipe' = Arm(pipe) \/ \E c : pipe' = [pipe EXCEPT !.control = c]
    BY <1>3 DEF BeginCreate, DriveCreate, StageFails, Waits, Written, Contain, Contained
  <2> QED BY <1>0, <2>1, WritesWait
<1>4. CASE ObserveSessionReady(a)
  BY <1>0, <1>4, PipeKeepsReap DEF ObserveSessionReady, Contain, Contained, WaitsForTheDead
<1> QED BY <1>1, <1>2, <1>3, <1>4

\* The calls of a turn.
LEMMA PromptWaits ==
  ASSUME SessionInv, NEW a,
         \/ BeginPrompt(a) \/ DrivePrompt(a) \/ ObservePrompt(a)
         \/ RouteForumToolCall(a) \/ DriveForumToolResult(a)
  PROVE  WaitsForTheDead
<1>0. pipe \in Pipes
  BY DEF SessionInv, Typed
<1>1. CASE BeginPrompt(a) \/ DrivePrompt(a)
  <2>1. /\ UNCHANGED host
        /\ child' = child \/ child' # "None"
        /\ \/ pipe' = pipe \/ pipe' = Arm(pipe) \/ \E c : pipe' = [pipe EXCEPT !.control = c]
    BY <1>1 DEF BeginPrompt, DrivePrompt, StageFails, Waits, Written, Contain, Contained
  <2> QED BY <1>0, <2>1, WritesWait
<1>2. CASE RouteForumToolCall(a) \/ DriveForumToolResult(a)
  <2>1. /\ UNCHANGED host
        /\ child' = child \/ child' # "None"
        /\ \/ pipe' = pipe \/ pipe' = Arm(pipe) \/ \E c : pipe' = [pipe EXCEPT !.control = c]
    BY <1>2 DEF RouteForumToolCall, DriveForumToolResult, StageFails, Waits, Written, Contain,
           Contained
  <2> QED BY <1>0, <2>1, WritesWait
<1>3. CASE ObservePrompt(a)
  <2> DEFINE Moves == UNCHANGED <<child, pipe>> \/ Contained
                      \/ (child' = "TaskPromptTerminalRecorded" /\ UNCHANGED pipe)
  <2>1. PICK f \in Frames : ProjectPrompt(f, Observe(peer, f), peer.next, a)
    BY <1>3 DEF ObservePrompt
  <2> DEFINE o == Observe(peer, f)
             s == peer.next
  <2>2. ASSUME \/ PromptResult(f, s, a) \/ PromptEvent(f, s, a) \/ PromptUsage(f, s, a)
               \/ PromptSettled(f, s, a) \/ PromptUsageFailure(s, TRUE, a)
               \/ PromptUsageFailure(s, FALSE, a) \/ Interleaved(o.peer, a) \/ Contain(a)
        PROVE  Moves
    BY <2>2 DEF PromptResult, PromptEvent, PromptUsage, PromptSettled, PromptUsageFailure,
                Interleaved, Contain
  <2> HIDE DEF Moves
  <2>3. Moves
    BY <2>1, <2>2 DEF ProjectPrompt
  <2> QED BY <1>0, <1>3, <2>3, PipeKeepsReap DEF Moves, Contained, ObservePrompt, WaitsForTheDead
<1> QED BY <1>1, <1>2, <1>3

\* The calls of a dispose.
LEMMA DisposeWaits ==
  ASSUME SessionInv, NEW a, BeginDispose(a) \/ DriveDispose(a) \/ ObserveDispose(a)
  PROVE  WaitsForTheDead
<1>0. pipe \in Pipes
  BY DEF SessionInv, Typed
<1>1. CASE BeginDispose(a) \/ DriveDispose(a)
  <2>1. /\ UNCHANGED host
        /\ child' = child \/ child' # "None"
        /\ \/ pipe' = pipe \/ pipe' = Arm(pipe) \/ \E c : pipe' = [pipe EXCEPT !.control = c]
    BY <1>1 DEF BeginDispose, DriveDispose, StageFails, Waits, Written, Contain, Contained
  <2> QED BY <1>0, <2>1, WritesWait
<1>2. CASE ObserveDispose(a)
  <2> DEFINE Moves == \/ UNCHANGED <<child, pipe>> \/ Contained
                      \/ /\ pipe' = [pipe EXCEPT !.stdin = FALSE]
                         /\ child' = child \/ child' = "Disposed"
  <2>1. \/ Contain(a)
        \/ \E f \in Frames : ProjectDispose(f, Observe(peer, f), peer.next, a)
    BY <1>2 DEF ObserveDispose
  <2>2. ASSUME NEW f, NEW s,
               \/ DisposeResult(f, s, a) \/ DisposeUsage(f, s, a) \/ DisposeUsageFailure(s, a)
               \/ DisposeEnds(s, a) \/ Contain(a)
        PROVE  Moves
    BY <2>2 DEF DisposeResult, DisposeUsage, DisposeUsageFailure, DisposeEnds, Contain
  <2> HIDE DEF Moves
  <2>3. Moves
    BY <2>1, <2>2 DEF ProjectDispose
  <2> QED BY <1>0, <1>2, <2>3, PipeKeepsReap DEF Moves, Contained, ObserveDispose, WaitsForTheDead
<1> QED BY <1>1, <1>2

\* Containment, reap and completion.
LEMMA EndWaits ==
  ASSUME SessionInv, NEW a,
         \/ DriveContainment(a) \/ DriveUnregistered(a) \/ ReapDirectChild(a)
         \/ CleanLingering(a) \/ ProveAbsence(a) \/ CompleteActorObligation(a)
  PROVE  WaitsForTheDead
<1>0. pipe \in Pipes /\ (child \in ReapPhases => host = "Dead")
  BY DEF SessionInv, Typed, ReapIsFinal
<1>1. CASE DriveContainment(a)
  BY <1>0, <1>1, PipeKeepsReap DEF DriveContainment, WaitsForTheDead
<1>2. CASE DriveUnregistered(a)
  BY <1>0, <1>2, PipeKeepsReap DEF DriveUnregistered, WaitsForTheDead
<1>3. CASE ReapDirectChild(a)
  BY <1>3 DEF ReapDirectChild, WaitsForTheDead
<1>4. CASE CleanLingering(a)
  BY <1>0, <1>4 DEF CleanLingering, ReapPhases, WaitsForTheDead
<1>5. CASE ProveAbsence(a)
  BY <1>0, <1>5 DEF ProveAbsence, ReapPhases, WaitsForTheDead
<1>6. CASE CompleteActorObligation(a)
  BY <1>6 DEF CompleteActorObligation, WaitsForTheDead
<1> QED BY <1>1, <1>2, <1>3, <1>4, <1>5, <1>6

\* A child whose boundary failed is dead or has its cancellation armed.
FailedIsAttended ==
    child = "Contained" \/ peer.phase = "Fatal" => host = "Dead" \/ pipe.cancel # "None"

\* A host that broke the boundary, or whose boundary the driver gave up, is never
\* left running unattended: either it is dead or its cancellation is armed
\* (begin_task_attempt_boundary_containment, start_automatic_boundary_containment).
THEOREM FailedBoundariesAreAttended ==
    Init /\ [][Next]_vars => [](WaitedIsDead /\ FailedIsAttended)
<1>1. Init => WaitedIsDead
  BY DEF Init, NewPipe, WaitedIsDead
<1>2. SessionInv /\ WaitedIsDead /\ [Next]_vars => WaitedIsDead'
  <2> SUFFICES ASSUME SessionInv, WaitedIsDead, [Next]_vars PROVE WaitedIsDead'
    OBVIOUS
  <2>0. pipe \in Pipes
    BY DEF SessionInv, Typed
  <2>1. CASE UNCHANGED vars
    BY <2>1 DEF vars, WaitedIsDead
  <2>2. CASE WaitsForTheDead
    BY <2>2 DEF WaitsForTheDead, WaitedIsDead
  <2>3. ASSUME NEW a, Spawn(a) PROVE WaitedIsDead'
    <3>1. pipe.reaped = "No" /\ child' # "None"
      BY <2>3 DEF Spawn, WaitedIsDead
    <3>2. pipe'.reaped = pipe.reaped
      BY <2>0, <2>3, PipeKeepsReap DEF Spawn
    <3> QED BY <3>1, <3>2 DEF WaitedIsDead
  <2>4. CASE SealPrompt \/ HostStops
    BY <2>4 DEF SealPrompt, HostStops, WaitedIsDead
  <2>5. CASE GroupDies
    <3>1. pipe'.reaped = pipe.reaped
      BY <2>0, <2>5, PipeKeepsReap DEF GroupDies
    <3> QED BY <2>5, <3>1 DEF GroupDies, WaitedIsDead
  <2> QED BY <2>1, <2>2, <2>3, <2>4, <2>5, LaunchWaits, PromptWaits, DisposeWaits, EndWaits
          DEF Next
<1>3. SessionInv /\ WaitedIsDead => FailedIsAttended
  BY DEF SessionInv, FencedIsContained, ReapIsFinal, WaitedIsDead, FailedIsAttended
<1> QED BY <1>1, <1>2, <1>3, SessionHolds, PTL

-----------------------------------------------------------------------------
(* The harness.                                                            *)

\* Every call, time-out and failure of the harness is a step of the session or
\* leaves it alone (native_task_driver.rs, execute).
LEMMA DriverSteps == ASSUME [DriverNext]_driver PROVE [Next]_vars
<1>1. CASE UNCHANGED driver
  BY <1>1 DEF driver
<1>2. CASE Seal \/ Environment \/ Passes
  BY <1>2 DEF Seal, Environment, Passes, Next
<1>3. CASE Launch \/ AwaitAdapterReady \/ DeliverCreate \/ AwaitSessionReady
  BY <1>3 DEF Launch, AwaitAdapterReady, DeliverCreate, AwaitSessionReady, GivesUp, Next
<1>4. CASE DeliverPrompt \/ AwaitPromptTerminal \/ DeliverForumResult
  BY <1>4 DEF DeliverPrompt, AwaitPromptTerminal, DeliverForumResult, GivesUp, Next
<1>5. CASE DisposeAndReconcile
  BY <1>5 DEF DisposeAndReconcile, GivesUp, Next
<1>6. CASE Complete \/ ContainTask
  BY <1>6 DEF Complete, ContainTask, GivesUp, Next
<1> QED BY <1>1, <1>2, <1>3, <1>4, <1>5, <1>6 DEF DriverNext

\* The harness implements the session: whatever it does in its polling loops and
\* at its time-outs, an attempt goes through states the session allows.
THEOREM DriverImplementsSession == DriverSpec => Init /\ [][Next]_vars
<1>1. DriverInit => Init
  BY DEF DriverInit
<1>2. [DriverNext]_driver => [Next]_vars
  BY DriverSteps
<1> QED BY <1>1, <1>2, PTL DEF DriverSpec

\* What contain is for holds of every attempt whose boundary failed: when the
\* harness returns, its host is dead or its cancellation is armed.  What the
\* silent_host run finds is a boundary that never failed.
COROLLARY FailedAttemptsFailClosed ==
    DriverSpec => [](child = "Contained" \/ peer.phase = "Fatal" => FailsClosed)
<1>1. FailedIsAttended => (child = "Contained" \/ peer.phase = "Fatal" => FailsClosed)
  BY DEF FailedIsAttended, FailsClosed
<1> QED BY <1>1, DriverImplementsSession, FailedBoundariesAreAttended, PTL

\* The steps of the harness up to the prompt, and those of a failed attempt.
Unprompted ==
    {"seal", "spawn", "bind", "adapter", "create", "createWrite", "session",
     "prompt", "contain", "returned"}

\* Whatever came after the seal has moved the frontier.
Overtaken == step \notin {"seal", "spawn"} => frontier = "Stale"

\* The prompt that is sealed before the spawn is refused every time: the spawn's
\* own event overtakes it, so no attempt of the harness is prompted, and none is
\* completed (resident_pilot_backend.rs seals before native_task_driver.rs
\* spawns; authorize_pi_task_attempt_prompt wants the last event).
THEOREM NoAttemptIsPrompted == DriverSpec => [](step \in Unprompted /\ Overtaken)
<1> DEFINE Inv == step \in Unprompted /\ Overtaken
<1>1. DriverInit => Inv
  BY DEF DriverInit, Unprompted, Overtaken
<1>2. Inv /\ [DriverNext]_driver => Inv'
  <2> SUFFICES ASSUME Inv, [DriverNext]_driver PROVE Inv'
    OBVIOUS
  <2>1. CASE UNCHANGED driver
    BY <2>1 DEF driver, vars, Overtaken
  <2>2. CASE Environment
    BY <2>2 DEF Environment, HostStops, GroupDies, Overtaken
  <2>3. CASE Passes
    BY <2>3 DEF Passes, vars, Overtaken
  <2>4. CASE Seal
    BY <2>4 DEF Seal, Unprompted, Overtaken
  <2>g. ASSUME GivesUp PROVE Inv' \/ step \in {"seal", "spawn"}
    BY <2>g DEF GivesUp, vars, Unprompted, Overtaken
  <2>5. CASE Launch
    BY <2>5 DEF Launch, Spawn, BindRuntime, Commit, Refused, Goes, Unprompted, Overtaken
  <2>6. CASE AwaitAdapterReady
    <3>1. ASSUME NEW a \in Answers, ObserveAdapterReady(a)
          PROVE  a \in {"Ok", "Error"} /\ frontier' \in {frontier, "Stale"}
      BY <3>1 DEF ObserveAdapterReady, Contain, Commit, Refused
    <3> QED BY <2>6, <2>g, <3>1 DEF AwaitAdapterReady, Goes, Unprompted, Overtaken
  <2>7. CASE DeliverCreate
    <3>1. ASSUME NEW a \in Answers, BeginCreate(a) \/ DriveCreate(a)
          PROVE  a \in {"Ok", "Waiting", "Error"} /\ frontier' \in {frontier, "Stale"}
      BY <3>1 DEF BeginCreate, DriveCreate, StageFails, Contain, Commit, Refused
    <3> QED BY <2>7, <2>g, <3>1 DEF DeliverCreate, Goes, Unprompted, Overtaken
  <2>8. CASE AwaitSessionReady
    <3>1. ASSUME NEW a \in Answers, ObserveSessionReady(a)
          PROVE  a \in {"Ok", "Waiting", "Error"} /\ frontier' \in {frontier, "Stale"}
      BY <3>1 DEF ObserveSessionReady, Contain, Commit, Refused
    <3> QED BY <2>8, <2>g, <3>1 DEF AwaitSessionReady, Goes, Unprompted, Overtaken
  <2>9. CASE DeliverPrompt
    <3>1. step = "prompt" /\ frontier = "Stale"
      BY <2>9 DEF DeliverPrompt, Unprompted, Overtaken
    <3>2. PICK a \in Answers : BeginPrompt(a) /\ Goes(a, "turn", "promptWrite")
      BY <2>9, <3>1 DEF DeliverPrompt
    <3>3. a = "Error" /\ frontier' = "Stale"
      BY <3>1, <3>2 DEF BeginPrompt, Refused
    <3> QED BY <3>2, <3>3 DEF Goes, Unprompted, Overtaken
  <2>10. CASE AwaitPromptTerminal \/ DeliverForumResult \/ DisposeAndReconcile \/ Complete
    <3>1. step \notin Unprompted
      BY <2>10 DEF AwaitPromptTerminal, DeliverForumResult, DisposeAndReconcile, Complete, Unprompted
    <3> QED BY <3>1
  <2>11. CASE ContainTask
    <3>1. step = "contain" /\ step' \in {"contain", "returned"} /\ frontier' = frontier
      BY <2>11 DEF ContainTask, DriveContainment, DriveUnregistered, vars
    <3> QED BY <3>1 DEF Unprompted, Overtaken
  <2> QED BY <2>1, <2>2, <2>3, <2>4, <2>5, <2>6, <2>7, <2>8, <2>9, <2>10, <2>11 DEF DriverNext
<1> QED BY <1>1, <1>2, PTL DEF DriverSpec

=============================================================================
