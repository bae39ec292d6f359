------------------------------- MODULE Study --------------------------------
(***************************************************************************)
(* The study ledger of the society kernel (study.rs): two arms of a        *)
(* matched pair live through a source and a successor population, talk in  *)
(* a Forum whose earlier messages a Reset successor must never reach, are  *)
(* given the same correction, and are measured and closed.                 *)
(*                                                                         *)
(* Every action is one committed command, as CommandLedger runs them one   *)
(* after another; ReadForum is the daemon's read, which renders and seals  *)
(* the range before it commits it.  An obligation is named by its seat     *)
(* <<episode, phase, role>>, which kernel.sql makes unique, and carries    *)
(* its occurrence, exposure, read receipts, decision and runtime binding.  *)
(* Digests are left out: a mismatch is one more rejection.  There is one   *)
(* protocol with one world, measurement and institution, one study run,    *)
(* and all populations have the same digest and size.                      *)
(***************************************************************************)
EXTENDS Integers, Sequences, FiniteSets, FiniteSetsExt, Functions

CONSTANTS
    Episodes,        \* the identities episodes may get
    Roles,           \* role ordinals
    PopulationSize,  \* the size every population snapshot declares
    Slots,           \* the measurement slots of the measurement revision
    UnitBudget,      \* what one obligation may charge
    EpisodeBudget,   \* the protocol's ceiling for one episode
    PostBudget, ReadBudget,   \* of every obligation
    ReadSpan,        \* FORUM_READ_MAX_MESSAGES
    MaxAdmitted,     \* the most episodes, forks aside
    MaxEvents        \* the most of what an episode can do without, taken together

ASSUME StudyAssumption ==
    /\ PopulationSize \in Nat \ {0} /\ ReadSpan \in Nat \ {0}
    /\ UnitBudget \in Nat /\ EpisodeBudget \in Nat
    /\ PostBudget \in Nat \ {0} /\ ReadBudget \in Nat \ {0}
    /\ {MaxAdmitted, MaxEvents} \subseteq Nat
    /\ Slots # {}   \* StudyMeasurementSlotCount: 1..=64

VARIABLES
    revisions,    \* which revisions are admitted
    populations,  \* how many population snapshots are admitted
    run,          \* the study run: its state and its registered pairs
    pairs,        \* matched pairs <<retained, reset>>
    episode, thread, obligation,
    allocated,    \* seats the root authority allocated work to
    children,     \* native children, in the order of their admission
    events        \* what happened that an episode can do without, for MaxEvents

vars == <<revisions, populations, run, pairs, episode, thread, obligation,
          allocated, children, events>>

-----------------------------------------------------------------------------
(* The state sets of study.rs and the rows of kernel.sql.                  *)

EpisodeStates == {"Admitted", "SourceActive", "SourceReconciled",
                  "SuccessorAdmitted", "CorrectionReleased",
                  "SuccessorActive", "Closed"}

Phases == {"Source", "Successor"}
Treatments == {"Retained", "Reset"}
Seats == Episodes \X Phases \X Roles
EpisodeOf(o) == o[1]
PhaseOf(o) == o[2]

Service == <<>>           \* the author of a correction: no seat
NoHead == -1              \* a head that is not frozen
NoDecision == -1

\* origin tells randomization digests apart: an episode the coordinator
\* admits shares one, a fork derives its own.  forum is Threaded once its
\* only thread is open.
EpisodeRows ==
    [state : EpisodeStates \cup {"None"}, origin : {"Admitted", "Fork"},
     treatment : Treatments \cup {"None"},
     forum : {"None", "Open", "Threaded", "Closed"},
     frozen : Nat \cup {NoHead}, replaced : BOOLEAN, revealed : BOOLEAN,
     measured : SUBSET Slots]

\* target is the message replied to or superseded, 0 for none.
Messages == [author : Seats \cup {Service}, published : BOOLEAN, target : Nat]

\* Exposure: from 0 when there is none.  A read receipt keeps the range and
\* which messages of it were still published; decision the cited message, 0
\* when uncited.
ObligationRows ==
    [state : {"None", "Active", "Completed", "Failed"},
     charged : 0..UnitBudget, from : Nat, through : Nat,
     reads : Seq([first : Nat, through : Nat, shown : SUBSET Nat]),
     decision : Nat \cup {NoDecision},
     claimed : BOOLEAN,
     binding : {"None", "Bound", "Reconciled", "RecoverySettled"}, child : Nat]

\* for: the obligation whose claimed attempt owns the child, Office for a
\* child of a root authority session.  Live is every state but Finalized and
\* LostParentage with the group observed absent.  settled: the attempt has a
\* terminal receipt or fact.
Office == <<>>
ChildRows == [for : Seats \cup {Office}, state : {"Live", "Finalized", "Lost"},
              settled : BOOLEAN]

RunStates == {"None", "Pairing", "Ready", "Running", "Completed"}

NoEpisode == [state |-> "None", origin |-> "Admitted", treatment |-> "None",
              forum |-> "None", frozen |-> NoHead, replaced |-> FALSE,
              revealed |-> FALSE, measured |-> {}]
NoObligation == [state |-> "None", charged |-> 0, from |-> 0, through |-> 0,
                 reads |-> <<>>, decision |-> NoDecision, claimed |-> FALSE,
                 binding |-> "None", child |-> 0]

Init ==
    /\ revisions = {} /\ populations = 0
    /\ run = [state |-> "None", registered |-> {}] /\ pairs = {}
    /\ episode = [e \in Episodes |-> NoEpisode]
    /\ thread = [e \in Episodes |-> <<>>]
    /\ obligation = [o \in Seats |-> NoObligation]
    /\ allocated = {} /\ children = <<>>
    /\ events = 0

-----------------------------------------------------------------------------
(* What the handlers read.                                                 *)

Released(e) == episode[e].state \in {"CorrectionReleased", "SuccessorActive"}
Frozen(e) == episode[e].frozen # NoHead
SeatsOf(e) == {o \in Seats : EpisodeOf(o) = e /\ obligation[o].state # "None"}
Active(o) == obligation[o].state = "Active"
Terminal(o) == obligation[o].state \in {"Completed", "Failed"}
AllTerminal(e) == \A o \in SeatsOf(e) : Terminal(o)
SourceTerminal(e) == \A o \in SeatsOf(e) : PhaseOf(o) = "Source" => Terminal(o)
HeadOf(e) == Len(thread[e])
Threaded(e) == episode[e].forum \in {"Threaded", "Closed"}
PostsBy(o) == {i \in DOMAIN thread[EpisodeOf(o)] : thread[EpisodeOf(o)][i].author = o}
Exposed(o) == obligation[o].from # 0
Visible(o, i) == Exposed(o) /\ i \in obligation[o].from..obligation[o].through
Charged(e) == SumFunction([o \in SeatsOf(e) |-> obligation[o].charged])

SetEpisode(e, row) == episode' = [episode EXCEPT ![e] = row]
SetObligation(o, row) == obligation' = [obligation EXCEPT ![o] = row]

studyUnchanged == UNCHANGED <<revisions, populations, run, pairs>>
forumUnchanged == UNCHANGED <<episode, thread, obligation>>
runtimeUnchanged == UNCHANGED <<allocated, children>>

Obligations == {o \in Seats : obligation[o].state # "None"}

-----------------------------------------------------------------------------
(* Admission of the protocol, its revisions, episodes, pairs and the run.  *)

AdmitRevision(kind) ==
    /\ kind \notin revisions
    /\ kind # "Protocol" => "Protocol" \in revisions
    /\ revisions' = revisions \cup {kind}
    /\ UNCHANGED <<populations, run, pairs>> /\ forumUnchanged /\ runtimeUnchanged

\* Two snapshots are enough: one to start from and one to replace it.
AdmitPopulationSnapshot ==
    /\ "Protocol" \in revisions /\ populations < 2
    /\ populations' = populations + 1
    /\ UNCHANGED <<revisions, run, pairs>> /\ forumUnchanged /\ runtimeUnchanged

AdmitEpisode(e) ==
    /\ {"World", "Measurement", "Institution"} \subseteq revisions
    /\ populations > 0
    /\ episode[e].state = "None"
    /\ Cardinality({f \in Episodes : episode[f].state # "None"}) < MaxAdmitted
    /\ SetEpisode(e, [NoEpisode EXCEPT !.state = "Admitted"])
    /\ UNCHANGED <<thread, obligation>> /\ studyUnchanged /\ runtimeUnchanged

AssignTreatment(e, treatment) ==
    /\ episode[e].state = "Admitted" /\ episode[e].treatment = "None"
    /\ SetEpisode(e, [episode[e] EXCEPT !.treatment = treatment])
    /\ UNCHANGED <<thread, obligation>> /\ studyUnchanged /\ runtimeUnchanged

\* The pair's episodes may be in any state; a fork's randomization matches
\* no other.
AdmitMatchedPair(retained, reset) ==
    /\ episode[retained].treatment = "Retained" /\ episode[reset].treatment = "Reset"
    /\ episode[retained].origin = "Admitted" /\ episode[reset].origin = "Admitted"
    /\ \A p \in pairs : p[1] # retained /\ p[2] # reset
    /\ pairs' = pairs \cup {<<retained, reset>>}
    /\ UNCHANGED <<revisions, populations, run>> /\ forumUnchanged /\ runtimeUnchanged

\* A run of one pair.
AdmitStudyRun ==
    /\ "Protocol" \in revisions /\ run.state = "None"
    /\ run' = [run EXCEPT !.state = "Pairing"]
    /\ UNCHANGED <<revisions, populations, pairs>> /\ forumUnchanged /\ runtimeUnchanged

RegisterStudyRunPair(p) ==
    /\ run.state = "Pairing"
    /\ \A k \in {1, 2} : episode[p[k]].state = "Admitted"
    /\ run' = [state |-> "Ready", registered |-> run.registered \cup {p}]
    /\ UNCHANGED <<revisions, populations, pairs>> /\ forumUnchanged /\ runtimeUnchanged

StartStudyRun ==
    /\ run.state = "Ready"
    /\ run' = [run EXCEPT !.state = "Running"]
    /\ UNCHANGED <<revisions, populations, pairs>> /\ forumUnchanged /\ runtimeUnchanged

\* Mutant: only the retained arm is looked at.
RetainedPairsClosed == \A p \in run.registered : episode[p[1]].state = "Closed"

RegisteredPairsClosed ==
    \A p \in run.registered : \A k \in {1, 2} : episode[p[k]].state = "Closed"

CompleteStudyRun ==
    /\ run.state = "Running" /\ RegisteredPairsClosed
    /\ run' = [run EXCEPT !.state = "Completed"]
    /\ UNCHANGED <<revisions, populations, pairs>> /\ forumUnchanged /\ runtimeUnchanged

CreateEpisodeForum(e) ==
    /\ episode[e].state = "Admitted" /\ episode[e].forum = "None"
    /\ SetEpisode(e, [episode[e] EXCEPT !.forum = "Open"])
    /\ UNCHANGED <<thread, obligation>> /\ studyUnchanged /\ runtimeUnchanged

OpenForumThread(e) ==
    /\ episode[e].forum = "Open"
    /\ SetEpisode(e, [episode[e] EXCEPT !.forum = "Threaded"])
    /\ UNCHANGED <<thread, obligation>> /\ studyUnchanged /\ runtimeUnchanged

-----------------------------------------------------------------------------
(* Obligations.                                                            *)

AdmissionAllowed(e, phase) ==
    IF phase = "Source" THEN episode[e].state \in {"Admitted", "SourceActive"} /\ ~Frozen(e)
    ELSE episode[e].state \in {"SourceReconciled", "SuccessorAdmitted"}

AdmitActorObligation(o) ==
    LET e == EpisodeOf(o)
    IN /\ obligation[o].state = "None"
       /\ episode[e].treatment # "None"
       /\ AdmissionAllowed(e, PhaseOf(o))
       /\ SetObligation(o, [NoObligation EXCEPT !.state = "Active"])
       /\ SetEpisode(e, [episode[e] EXCEPT !.state =
              IF PhaseOf(o) = "Source" THEN "SourceActive" ELSE "SuccessorAdmitted"])
       /\ UNCHANGED thread /\ studyUnchanged /\ runtimeUnchanged

\* Mutant: an obligation ends whatever its runtime is doing.
AnyRuntimeAllows(o, ends) == TRUE

\* What an obligation's runtime binding lets it do: complete only when there
\* is none or it is reconciled, fail also after a recovery settlement.
RuntimeAllows(o, ends) ==
    obligation[o].binding \in {"None", "Reconciled"}
        \cup (IF ends = "Failed" THEN {"RecoverySettled"} ELSE {})

CompleteActorObligation(o, charge) ==
    /\ Active(o) /\ charge <= UnitBudget
    /\ RuntimeAllows(o, "Completed")
    /\ SetObligation(o, [obligation[o] EXCEPT !.state = "Completed", !.charged = charge])
    /\ UNCHANGED <<episode, thread>> /\ studyUnchanged /\ runtimeUnchanged

FailActorObligation(o) ==
    /\ Active(o)
    /\ RuntimeAllows(o, "Failed")
    /\ SetObligation(o, [obligation[o] EXCEPT !.state = "Failed"])
    /\ UNCHANGED <<episode, thread>> /\ studyUnchanged /\ runtimeUnchanged

-----------------------------------------------------------------------------
(* Native runtimes: allocation, launch claim, child, binding.              *)

\* allocate_study_actor_work, for a seat of the run's pair: the obligation
\* need not exist yet.
AllocateStudyActorWork(o) ==
    /\ run.state \in {"Ready", "Running"}
    /\ \E p \in run.registered : EpisodeOf(o) \in {p[1], p[2]}
    /\ o \notin allocated
    /\ allocated' = allocated \cup {o}
    /\ UNCHANGED children /\ studyUnchanged /\ forumUnchanged

\* open_task_attempt_runner_for_study_lifetime serves the pairs of a running
\* study run only.
InRunningPair(e) ==
    run.state = "Running" /\ \E p \in run.registered : e \in {p[1], p[2]}

\* claim_study_actor_task_attempt_launch, with the work the root allocated to
\* the seat: it starts the attempt.
ClaimStudyActorTaskAttemptLaunch(o) ==
    /\ InRunningPair(EpisodeOf(o)) /\ o \in allocated
    /\ Active(o)
    /\ obligation[o].binding = "None" /\ ~obligation[o].claimed
    /\ SetObligation(o, [obligation[o] EXCEPT !.claimed = TRUE])
    /\ UNCHANGED <<episode, thread>> /\ studyUnchanged /\ runtimeUnchanged

\* The runner spawns the one child of a claimed attempt; the claim it reads
\* requires an Active obligation.
SpawnTaskAttempt(o) ==
    /\ obligation[o].claimed /\ Active(o)
    /\ \A c \in DOMAIN children : children[c].for # o
    /\ children' = Append(children, [for |-> o, state |-> "Live", settled |-> FALSE])
    /\ UNCHANGED allocated /\ studyUnchanged /\ forumUnchanged

\* What NativeChild's receipts make of a child: finalized after its reap, or
\* lost to a restart of the daemon and seen absent.
EndChild(c, state) ==
    /\ children[c].state = "Live"
    /\ children' = [children EXCEPT ![c].state = state]
    /\ UNCHANGED allocated /\ studyUnchanged /\ forumUnchanged

\* record_pi_task_attempt_terminal: the attempt's session ended its turn.
RecordTerminalReceipt(c) ==
    /\ children[c].for # Office /\ children[c].state = "Live" /\ ~children[c].settled
    /\ children' = [children EXCEPT ![c].settled = TRUE]
    /\ UNCHANGED allocated /\ studyUnchanged /\ forumUnchanged

MayBind(o) == Active(o) /\ obligation[o].binding = "None"

\* The child of a root authority session, running or lost to a restart, that
\* no obligation is bound to yet: it enters the model here.
BindActorRuntime(o, state) ==
    /\ MayBind(o)
    /\ children' = Append(children, [for |-> Office, state |-> state, settled |-> FALSE])
    /\ SetObligation(o, [obligation[o] EXCEPT !.binding = "Bound", !.child = Len(children) + 1])
    /\ UNCHANGED <<episode, thread, allocated>> /\ studyUnchanged

\* The runner binds the child it spawned.  Its attempt is Running until it is
\* settled after recovery, which needs a binding.
BindActorTaskAttemptRuntime(o, c) ==
    /\ MayBind(o)
    /\ children[c].for = o /\ children[c].state # "Finalized"
    /\ SetObligation(o, [obligation[o] EXCEPT !.binding = "Bound", !.child = c])
    /\ UNCHANGED <<episode, thread>> /\ studyUnchanged /\ runtimeUnchanged

ReconcileActorRuntime(o) ==
    /\ obligation[o].binding = "Bound"
    /\ children[obligation[o].child].state = "Finalized"
    /\ SetObligation(o, [obligation[o] EXCEPT !.binding = "Reconciled"])
    /\ UNCHANGED <<episode, thread>> /\ studyUnchanged /\ runtimeUnchanged

SettleActorTaskAttemptAfterRecovery(o) ==
    LET c == obligation[o].child
    IN /\ Active(o) /\ obligation[o].binding = "Bound"
       /\ children[c].for # Office
       /\ children[c].state = "Lost" /\ ~children[c].settled
       /\ SetObligation(o, [obligation[o] EXCEPT !.binding = "RecoverySettled"])
       /\ children' = [children EXCEPT ![c].settled = TRUE]
       /\ UNCHANGED <<episode, thread, allocated>> /\ studyUnchanged

-----------------------------------------------------------------------------
(* The handover between populations.                                       *)

FreezeForumHead(e) ==
    /\ episode[e].state = "SourceActive" /\ ~Frozen(e)
    /\ SourceTerminal(e) /\ Threaded(e)
    /\ SetEpisode(e, [episode[e] EXCEPT !.frozen = HeadOf(e)])
    /\ UNCHANGED <<thread, obligation>> /\ studyUnchanged /\ runtimeUnchanged

ReplacePopulation(e) ==
    /\ episode[e].state = "SourceActive" /\ Frozen(e)
    /\ SourceTerminal(e)
    /\ populations = 2
    /\ SetEpisode(e, [episode[e] EXCEPT !.state = "SourceReconciled", !.replaced = TRUE])
    /\ UNCHANGED <<thread, obligation>> /\ studyUnchanged /\ runtimeUnchanged

\* Mutant: a reset successor sees the last message of its predecessors.
ExposureFromFrozenHead(o) ==
    LET e == EpisodeOf(o)
    IN IF PhaseOf(o) = "Successor" /\ episode[e].treatment = "Reset"
         THEN Max({1, episode[e].frozen}) ELSE 1

\* Where an exposure must begin.
ExposureStart(o) ==
    LET e == EpisodeOf(o)
    IN IF PhaseOf(o) = "Successor" /\ episode[e].treatment = "Reset"
         THEN episode[e].frozen + 1 ELSE 1

AdmitForumExposure(o) ==
    LET e == EpisodeOf(o)
    IN /\ Active(o) /\ ~Exposed(o) /\ Threaded(e)
       /\ SetObligation(o, [obligation[o] EXCEPT !.from = ExposureStart(o), !.through = HeadOf(e)])
       /\ UNCHANGED <<episode, thread>> /\ studyUnchanged /\ runtimeUnchanged

-----------------------------------------------------------------------------
(* The Forum.                                                              *)

\* Mutant: exposures reach past the new head.
AdvancePastHead(row, e) ==
    [o \in Seats |->
        IF EpisodeOf(o) = e /\ row[o].from # 0 /\ row[o].from <= HeadOf(e) + 1
          THEN [row[o] EXCEPT !.through = HeadOf(e) + 2] ELSE row[o]]

\* Every exposure of the episode that has begun reaches the new head.
Advance(row, e) ==
    [o \in Seats |->
        IF EpisodeOf(o) = e /\ row[o].from # 0 /\ row[o].from <= HeadOf(e) + 1
          THEN [row[o] EXCEPT !.through = HeadOf(e) + 1] ELSE row[o]]

\* Mutant: successors speak before the correction.
EarlyPhaseMaySpeak(o) ==
    LET e == EpisodeOf(o)
    IN IF PhaseOf(o) = "Source" THEN episode[e].state = "SourceActive"
       ELSE Released(e) \/ episode[e].state = "SuccessorAdmitted"

PhaseMaySpeak(o) ==
    LET e == EpisodeOf(o)
    IN IF PhaseOf(o) = "Source" THEN episode[e].state = "SourceActive" ELSE Released(e)

PublishForumMessage(o, target) ==
    LET e == EpisodeOf(o)
    IN /\ Active(o)
       /\ Cardinality(PostsBy(o)) < PostBudget
       /\ PhaseMaySpeak(o)
       /\ PhaseOf(o) = "Source" => ~Frozen(e)
       /\ Exposed(o)
       /\ target # 0 => target <= HeadOf(e) /\ Visible(o, target)
       /\ thread' = [thread EXCEPT ![e] =
              Append(@, [author |-> o, published |-> TRUE, target |-> target])]
       /\ obligation' = Advance(obligation, e)
       /\ SetEpisode(e, [episode[e] EXCEPT !.state =
              IF @ = "CorrectionReleased" THEN "SuccessorActive" ELSE @])
       /\ studyUnchanged /\ runtimeUnchanged

RetractForumMessage(o, i) ==
    LET e == EpisodeOf(o)
    IN /\ Active(o)
       /\ thread[e][i].author = o /\ thread[e][i].published
       /\ PhaseMaySpeak(o)
       /\ thread' = [thread EXCEPT ![e][i].published = FALSE]
       /\ UNCHANGED <<episode, obligation>> /\ studyUnchanged /\ runtimeUnchanged

ReadySuccessors(e) ==
    {o \in SeatsOf(e) : PhaseOf(o) = "Successor" /\ Active(o) /\ Exposed(o)}

\* release_correction_for_episode's conditions.
MayRelease(e) ==
    /\ episode[e].state = "SuccessorAdmitted" /\ Threaded(e)
    /\ Cardinality(ReadySuccessors(e)) = PopulationSize

\* Both arms in one transaction, the reset arm after the retained one.
ReleaseMatchedCorrection(p) ==
    /\ MayRelease(p[1]) /\ MayRelease(p[2])
    /\ thread' = [e \in Episodes |->
           IF e \in {p[1], p[2]}
             THEN Append(thread[e], [author |-> Service, published |-> TRUE, target |-> 0])
             ELSE thread[e]]
    /\ obligation' = Advance(Advance(obligation, p[1]), p[2])
    /\ episode' = [e \in Episodes |->
           IF e \in {p[1], p[2]} THEN [episode[e] EXCEPT !.state = "CorrectionReleased"]
           ELSE episode[e]]
    /\ studyUnchanged /\ runtimeUnchanged

\* What forum_rendering shows of a range: every message, with its state.
Rendering(e, first, through) == {i \in first..through : thread[e][i].published}

\* The content seal's operation names the obligation and the range and not
\* the digest: another rendering of a range once sealed is a conflict.
SealAccepts(o, first, through) ==
    \A k \in DOMAIN obligation[o].reads :
        LET r == obligation[o].reads[k]
        IN r.first = first /\ r.through = through
             => r.shown = Rendering(EpisodeOf(o), first, through)

ReadForum(o, first, through) ==
    LET e == EpisodeOf(o)
    IN /\ Active(o) /\ through - first < ReadSpan
       /\ Len(obligation[o].reads) < ReadBudget
       /\ PhaseOf(o) = "Successor" => Released(e)
       /\ Exposed(o) /\ episode[e].forum # "Closed"
       /\ obligation[o].from <= first /\ first <= through
       /\ through <= obligation[o].through
       /\ SealAccepts(o, first, through)
       /\ SetObligation(o, [obligation[o] EXCEPT !.reads =
              Append(@, [first |-> first, through |-> through,
                         shown |-> Rendering(e, first, through)])])
       /\ UNCHANGED <<episode, thread>> /\ studyUnchanged /\ runtimeUnchanged

-----------------------------------------------------------------------------
(* Decisions, measurement, closure and forks.                              *)

OwnPublished(o, i) ==
    LET e == EpisodeOf(o)
    IN i \in DOMAIN thread[e] /\ thread[e][i].author = o /\ thread[e][i].published

ReceiptsOf(o, i) ==
    {k \in DOMAIN obligation[o].reads :
        i \in obligation[o].reads[k].first..obligation[o].reads[k].through}

\* Exactly one receipt must have returned a message of somebody else's.
RecordDecision(o, cited) ==
    /\ obligation[o].state \in {"Active", "Completed"}
    /\ obligation[o].decision = NoDecision
    /\ obligation[o].state = "Completed" => OwnPublished(o, cited)
    /\ cited # 0 => Cardinality(ReceiptsOf(o, cited)) = 1 \/ OwnPublished(o, cited)
    /\ SetObligation(o, [obligation[o] EXCEPT !.decision = cited])
    /\ UNCHANGED <<episode, thread>> /\ studyUnchanged /\ runtimeUnchanged

\* Mutant: the ground truth is revealed while successors are still acting.
RevealWhileActive(e) ==
    /\ Released(e) /\ ~episode[e].revealed
    /\ SetEpisode(e, [episode[e] EXCEPT !.revealed = TRUE])
    /\ UNCHANGED <<thread, obligation>> /\ studyUnchanged /\ runtimeUnchanged

RevealGroundTruth(e) ==
    /\ Released(e) /\ AllTerminal(e) /\ ~episode[e].revealed
    /\ SetEpisode(e, [episode[e] EXCEPT !.revealed = TRUE])
    /\ UNCHANGED <<thread, obligation>> /\ studyUnchanged /\ runtimeUnchanged

RecordMeasurementResult(e, slot) ==
    /\ Released(e) /\ AllTerminal(e) /\ episode[e].revealed
    /\ slot \notin episode[e].measured
    /\ SetEpisode(e, [episode[e] EXCEPT !.measured = @ \cup {slot}])
    /\ UNCHANGED <<thread, obligation>> /\ studyUnchanged /\ runtimeUnchanged

CloseEpisode(e) ==
    /\ Released(e) /\ AllTerminal(e)
    /\ episode[e].measured = Slots
    /\ Charged(e) <= EpisodeBudget
    /\ SetEpisode(e, [episode[e] EXCEPT !.state = "Closed", !.forum = "Closed"])
    /\ UNCHANGED <<thread, obligation>> /\ studyUnchanged /\ runtimeUnchanged

ForkEpisode(e, f) ==
    /\ episode[e].state = "Closed" /\ episode[f].state = "None"
    /\ SetEpisode(f, [NoEpisode EXCEPT !.state = "Admitted", !.origin = "Fork",
           !.treatment = IF episode[e].treatment = "Reset" THEN "Retained" ELSE "Reset"])
    /\ UNCHANGED <<thread, obligation>> /\ studyUnchanged /\ runtimeUnchanged

-----------------------------------------------------------------------------
(* The bound.  Two arms reach their closure with a run started before the  *)
(* first obligation, one obligation for every member of a population, and  *)
(* without failures, charges, messages, retractions, reads, decisions,     *)
(* children or forks.  Whatever else happens weighs one, or two if much    *)
(* can follow from it, and MaxEvents bounds the sum.                       *)

Planned == UNCHANGED events
Eventful(weight) == events' = events + weight /\ events' <= MaxEvents

AdmissionWeight(o) ==
    (IF episode[EpisodeOf(o)].state # "Admitted" \/ InRunningPair(EpisodeOf(o)) THEN 0 ELSE 1)
        + (IF o[3] > PopulationSize THEN 2 ELSE 0)

StudyNext ==
    \/ /\ Planned
       /\ \/ \E kind \in {"Protocol", "World", "Measurement", "Institution"} : AdmitRevision(kind)
          \/ AdmitPopulationSnapshot
          \/ AdmitStudyRun \/ StartStudyRun \/ CompleteStudyRun
          \/ \E e, f \in Episodes : AdmitMatchedPair(e, f)
          \/ \E p \in pairs : RegisterStudyRunPair(p) \/ ReleaseMatchedCorrection(p)
          \/ \E e \in Episodes :
               \/ AdmitEpisode(e)
               \/ \E t \in Treatments : AssignTreatment(e, t)
               \/ CreateEpisodeForum(e) \/ OpenForumThread(e)
               \/ FreezeForumHead(e) \/ ReplacePopulation(e)
               \/ RevealGroundTruth(e)
               \/ \E slot \in Slots : RecordMeasurementResult(e, slot)
               \/ CloseEpisode(e)
    \/ Eventful(3) /\ \E e, f \in Episodes : ForkEpisode(e, f)

ActorNext ==
    \E o \in Seats :
        LET messages == DOMAIN thread[EpisodeOf(o)]
        IN \/ Eventful(AdmissionWeight(o)) /\ AdmitActorObligation(o)
           \/ /\ Planned
              /\ \/ CompleteActorObligation(o, 0)
                 \/ ClaimStudyActorTaskAttemptLaunch(o) \/ SpawnTaskAttempt(o)
                 \/ \E c \in DOMAIN children : BindActorTaskAttemptRuntime(o, c)
                 \/ ReconcileActorRuntime(o) \/ SettleActorTaskAttemptAfterRecovery(o)
                 \/ AdmitForumExposure(o)
           \/ /\ Eventful(2)
              /\ \/ AllocateStudyActorWork(o)
                 \/ \E s \in {"Live", "Lost"} : BindActorRuntime(o, s)
           \/ /\ Eventful(1)
              /\ \/ \E charge \in 1..UnitBudget : CompleteActorObligation(o, charge)
                 \/ FailActorObligation(o)
                 \/ \E i \in messages \cup {0} : PublishForumMessage(o, i) \/ RecordDecision(o, i)
                 \/ \E i \in messages : RetractForumMessage(o, i)
                 \/ \E i, j \in messages : ReadForum(o, i, j)

ChildNext ==
    /\ Planned
    /\ \E c \in DOMAIN children :
         RecordTerminalReceipt(c) \/ \E s \in {"Finalized", "Lost"} : EndChild(c, s)

Next == StudyNext \/ ActorNext \/ ChildNext

Spec == Init /\ [][Next]_vars

-----------------------------------------------------------------------------
(* Properties.                                                             *)

\* The types of the tables, and what kernel.sql's keys make unique: a child
\* is bound to one obligation and an episode is in one pair.
TypeOK ==
    /\ revisions \subseteq {"Protocol", "World", "Measurement", "Institution"}
    /\ populations \in 0..2
    /\ run \in [state : RunStates, registered : SUBSET pairs]
    /\ pairs \subseteq Episodes \X Episodes
    /\ \A e \in Episodes :
         /\ episode[e] \in EpisodeRows
         /\ \A i \in DOMAIN thread[e] : thread[e][i] \in Messages
    /\ \A o \in Seats :
         LET r == obligation[o]
         IN /\ r.state \in {"None", "Active", "Completed", "Failed"}
            /\ r.charged \in 0..UnitBudget /\ r.from \in Nat
            /\ r.through \in 0..HeadOf(EpisodeOf(o))
            /\ r.decision \in (0..HeadOf(EpisodeOf(o))) \cup {NoDecision}
            /\ (r.child # 0) = (r.binding # "None") /\ r.child <= Len(children)
            /\ \A q \in Seats \ {o} : r.child # 0 => obligation[q].child # r.child
    /\ allocated \subseteq Seats
    /\ \A c \in DOMAIN children : children[c] \in ChildRows
    /\ events \in 0..MaxEvents

\* FORUM.md: the messages of a Reset arm's source population are
\* "unreachable through successor tools".  Whatever a reset successor has
\* read, answered or cited lies after the frozen head; a retained one's
\* exposure reaches back to the first message (study.rs:3869-3900,
\* 4190-4289, 4515-4571, 3946-4005).
ResetForgets ==
    \A o \in Obligations :
        LET e == EpisodeOf(o)
            reached == {i \in DOMAIN thread[e] :
                          \/ ReceiptsOf(o, i) # {}
                          \/ \E j \in PostsBy(o) : thread[e][j].target = i
                          \/ obligation[o].decision = i}
        IN PhaseOf(o) = "Successor" =>
             /\ episode[e].treatment = "Reset" =>
                  \A i \in reached : i > episode[e].frozen
             /\ episode[e].treatment = "Retained" /\ Exposed(o) =>
                  obligation[o].from = 1

\* ReplacePopulation hands the episode over: once a successor exists every
\* source obligation is terminal, nothing it was bound to still runs, and the
\* frozen head divides the thread between the populations.
PopulationsDoNotOverlap ==
    \A e \in Episodes :
        (\E o \in Obligations : EpisodeOf(o) = e /\ PhaseOf(o) = "Successor") =>
            /\ \A o \in Obligations :
                 EpisodeOf(o) = e /\ PhaseOf(o) = "Source" =>
                    /\ obligation[o].state \in {"Completed", "Failed"}
                    /\ obligation[o].child # 0 => children[obligation[o].child].state # "Live"
            /\ \A i \in DOMAIN thread[e] :
                 LET a == thread[e][i].author
                 IN a # Service => (a[2] = "Source" <=> i <= episode[e].frozen)

\* ReleaseMatchedCorrection treats the arms alike: both of a pair have the
\* correction or neither, it is the first message after the frozen head and
\* the only one the service wrote, and every exposed successor can see it.
CorrectionIsMatched ==
    /\ \A p \in pairs :
         LET corrected == {e \in {p[1], p[2]} : \E i \in DOMAIN thread[e] : thread[e][i].author = Service}
         IN Cardinality(corrected) \in {0, 2}
    /\ \A e \in Episodes :
         LET corrections == {i \in DOMAIN thread[e] : thread[e][i].author = Service}
             after == episode[e].frozen + 1
         IN /\ episode[e].state \in {"CorrectionReleased", "SuccessorActive", "Closed"} =>
                 /\ corrections = {after}
                 /\ \A o \in Obligations :
                      EpisodeOf(o) = e /\ PhaseOf(o) = "Successor" /\ obligation[o].from # 0 =>
                         after \in obligation[o].from..obligation[o].through
            /\ episode[e].state \in {"SourceReconciled", "SuccessorAdmitted"} =>
                 corrections = {} /\ Len(thread[e]) = episode[e].frozen

\* The comment at study.rs:3107: a pair is complete "only after its two
\* durable episodes pass their own closure checks (terminal actors, committed
\* reveal, exact measurement slots, and budget)".
ClosedIsReconciled ==
    /\ \A e \in Episodes : episode[e].state = "Closed" =>
         /\ episode[e].revealed /\ episode[e].measured = Slots
         /\ Charged(e) <= EpisodeBudget
         /\ \A o \in Obligations : EpisodeOf(o) = e =>
              /\ obligation[o].state \in {"Completed", "Failed"}
              /\ obligation[o].child # 0 => children[obligation[o].child].state # "Live"
    /\ run.state = "Completed" =>
         \A p \in run.registered : \A k \in {1, 2} : episode[p[k]].state = "Closed"

\* Once an episode's ground truth is revealed its actors are done: nobody
\* publishes, retracts, reads or is admitted any more.
RevealEndsActing ==
    [][\A e \in Episodes : episode[e].revealed =>
          /\ thread'[e] = thread[e]
          /\ \A o \in Seats : EpisodeOf(o) = e =>
               /\ obligation'[o].state = obligation[o].state
               /\ obligation'[o].reads = obligation[o].reads]_vars

\* ARCHITECTURE.md:260 "Every actor and native descendant must be reconciled
\* before episode closure."  A child launched for an obligation and not bound
\* to it is a native descendant too, and closure does not look at it.
DescendantsAreReconciled ==
    \A c \in DOMAIN children :
        children[c].for # Office /\ children[c].state = "Live" =>
            episode[EpisodeOf(children[c].for)].state # "Closed"
=============================================================================
