---------------------------- MODULE CommandCodec ----------------------------
(***************************************************************************)
(* How the kernel turns a typed command or event into bytes and rows and   *)
(* back.  store.rs writes every body three times by hand: into the bytes   *)
(* of its fingerprint, into the columns of its own body table, and back    *)
(* from those columns into the typed value.  Nothing but care keeps the    *)
(* three in step for 118 commands and 112 events.                          *)
(*                                                                         *)
(* A body is a sequence of field values, one for each field of its         *)
(* variant, and a field value is a sequence of numbers: one number for an  *)
(* identifier, an amount or an enumeration code, the characters of a text, *)
(* nothing or one number for an Option, and the alternative followed by    *)
(* its payload for a sum.  The layouts give the types of the fields, the   *)
(* tables after them the order in which a function handles the fields.     *)
(***************************************************************************)
EXTENDS Integers, Sequences, SequencesExt, TLC

N == "Number"
T == "Text"
O == "Option"

\* n identifiers, amounts or ordinals.
Ids(n) == [i \in 1..n |-> N]

\* PiCumulativeUsage: five token counts, the provider's cost as bytes and
\* the ceiling.
Usage == Ids(5) \o <<T, N>>

\* ApplicationMissionInput: identity, name, ordinal, statement, the list of
\* principles, the four questions and the digest of the rendering.
Mission == <<T, T, N, T, T, T, T, T, T, T>>

\* ProjectNorthStarAlignment: the application revision and four answers.
NorthStarAlignment == <<N, T, T, T, T>>

-----------------------------------------------------------------------------
(* The fields of every command and event, as domain.rs declares them.      *)

CommandLayout1 == [
    CreateSocietyIdentity |-> <<T>>,
    InstallRootAuthorityOffice |-> <<>>,
    InstallFoundingMission |-> Mission,
    AppointInitialRootAuthority |-> <<T>>,
    SetR0HardCeiling |-> Ids(1),
    BootstrapSociety |-> <<>>,
    ProposeOperatingCycle |-> <<"OperatingCycleTreatment", N>>,
    AdmitOperatingCycle |-> Ids(1),
    StartRootAuthorityOfficeSession |-> Ids(1),
    RecordOfficeSessionReady |-> Ids(1),
    RecordOfficeSessionTerminal |-> <<N, "OfficeSessionTerminalState">>,
    OpenOfficeTurn |-> <<N, "OfficeTurnPurpose">>,
    SettleOfficeTurn |-> Ids(2),
    QuiesceOperatingCycle |-> Ids(1),
    RecordCycleDrained |-> Ids(1),
    ResumeOperatingCycle |-> Ids(1),
    ReconcileOperatingCycle |-> Ids(1),
    CloseOperatingCycle |-> Ids(1),
    ReserveBudget |-> Ids(2),
    ReconcileBudget |-> <<N, "CostObservation">>,
    RequestCancellation |-> <<N, "CancellationMode">>,
    ReconcileCancellation |-> Ids(1),
    CloseCostPostmortem |-> <<N, "CostPostmortemResolution">>,
    CreateProject |-> <<N, T>> \o NorthStarAlignment,
    CharterProject |-> <<N, N, T, T, T>>,
    TransitionProject |-> <<N, N, "ProjectState">>,
    CompleteProjectMilestone |-> Ids(2),
    ReopenProject |-> Ids(2),
    CreateTicket |-> <<N, N, T, T, O>>,
    TransitionTicket |-> <<N, N, "TicketState">>,
    AddGraphObjectRevision |-> <<N, N, O, O, "GraphRevisionBody">>,
    CommitGraphRevision |-> Ids(2),
    AddGraphEdge |-> Ids(4) \o <<"GraphEdgeKind">>,
    CreateEpisode |-> Ids(2),
    TransitionEpisode |-> <<N, N, "EpisodeState">>,
    ReopenEpisode |-> Ids(2),
    RequestAdversarialReview |-> Ids(3)]

CommandLayout2 == [
    AssignAdversarialReviewer |-> Ids(5),
    SubmitReviewChallenge |-> Ids(4) \o <<"ReviewChallengeSeverity", T>>,
    RespondToReviewChallenge |-> <<N, N, T>>,
    DispositionReviewChallenge |-> <<N, N, "ReviewDispositionKind">>,
    ResolveAdversarialReview |-> <<N, N, "ReviewResolutionKind">>,
    TriggerPostmortem |-> <<N, N, O>>,
    RecordPostmortemCausalClaim |-> <<N, N, "PostmortemCausalClaimKind", T>>,
    ProposePostmortemAction |-> <<N, N, "PostmortemActionKind", T>>,
    ClosePostmortem |-> Ids(2),
    RegisterActorConfiguration |-> <<T, "ActorModelPolicy",
        "DevelopmentalAttractor">>,
    RegisterContextPack |-> <<N, "ContextPackPurpose", T>>,
    AdmitActorInstance |-> Ids(3) \o <<T>>,
    AdmitTicket |-> Ids(2),
    RegisterWorkItem |-> Ids(4) \o <<"WorkItemKind", O, T>>,
    ClaimWorkItem |-> Ids(2),
    StartActorAttempt |-> Ids(3),
    AttestActorAttemptTerminal |-> <<N, "ActorAttemptTerminalKind">>,
    ValidateTicketAttempt |-> Ids(2),
    RetryActorAttempt |-> Ids(2),
    CompleteTicket |-> Ids(2),
    ExpireWorkLease |-> Ids(1),
    CancelActorAttempt |-> <<N, "ActorAttemptCancellationReason">>,
    RegisterOutcomeObligation |-> <<N, N, T>>,
    ResolveOutcomeObligation |-> <<N, N, "OutcomeObligationDisposition">>,
    RecordContentSealReceipt |-> <<T>>,
    RegisterContentObject |-> Ids(1),
    RegisterForensicManifest |-> <<N, N, "ForensicManifestCapturePolicy",
        "RetentionAccessClass", N>>]

CommandLayout3 == [
    RegisterDeterministicEvaluatorForensicManifest |-> Ids(2),
    RegisterDeterministicExperiment |-> Ids(6),
    RecordDeterministicEvaluationReceipt |-> Ids(6),
    AdmitDeterministicEvidence |-> Ids(2),
    FinalizeDeterministicExperiment |-> Ids(2),
    AdmitDeterministicEvaluatorNativeChild |-> Ids(6) \o <<T, N, T>>,
    RecordDeterministicEvaluatorNativeChildSpawn |-> <<N, T, N, N>>,
    OpenSupervisorEpoch |-> <<N, T>>,
    AdmitPiChildSpawn |-> <<N, "PiChildOwner", N, N, N, T, N, T, T, T>>,
    RecordInertChildSpawn |-> <<N, T, N, N>>,
    RecordPiAdapterReady |-> <<N, T, T>>,
    AuthorizePiCreateSession |-> <<N, T, T>>,
    RecordPiCreateSessionDelivery |-> <<N, T, T>>,
    RecordPiSessionReady |-> <<N, T>>,
    RecordPiAbortControlDelivery |-> <<N, N, T, T,
        "PiAbortControlWriteOutcome">>,
    RecordChildStreamSeal |-> <<N, "ChildStreamKind", T, N,
        "ChildStreamSealCompleteness">>,
    RecordChildProcessLiveness |-> <<N, "ProcessGroupLiveness">>,
    RecordProcessSignalReceipt |-> <<N, "ProcessSignalAction",
        "ProcessSignalDelivery", "ProcessGroupLiveness", "ProcessSignalCause">>,
    RecordDirectChildReap |-> <<N, "DirectChildWaitStatus",
        "ProcessGroupLiveness", "ProcessGroupLiveness">>,
    RecordChildRecovery |-> <<N, "ChildRecoveryObservation",
        "ProcessGroupLiveness">>,
    FinalizeChildProcess |-> Ids(1),
    BeginCancellationPropagation |-> Ids(1),
    ReconcileCancellationPropagation |-> Ids(1),
    RecordNativeChildNotSpawned |-> <<N, "NativeChildNotSpawnedReason">>]

CommandLayout4 == [
    AuthorizePiOfficeTurnPrompt |-> <<N, T, N, T, N>>,
    RecordPiOfficeTurnPromptDelivery |-> <<N, T, T>>,
    RecordPiOfficeTurnPromptAccepted |-> <<N, T, N>>,
    RecordPiOfficeTurnUsage |-> <<N, T, N>> \o Usage,
    RecordPiOfficeTurnUsageFailure |-> <<N, T, N, "UsageFailure">>,
    RecordPiOfficeTurnTerminal |-> <<N, T, "TerminalEvidence", N,
        "PiOfficeTurnDisposition", "PiOfficeTurnAssistantOutcome",
        "PiOfficeTurnTranscriptDisposition">>,
    AuthorizePiOfficeSessionDispose |-> <<N, T>>,
    RecordPiOfficeSessionDisposeDelivery |-> <<N, T>>,
    RecordPiOfficeSessionDisposeAccepted |-> <<N, T, N>>,
    RecordPiOfficeSessionDisposeUsage |-> <<N, T, N>> \o Usage,
    RecordPiOfficeSessionDisposeUsageFailure |-> <<N, T, N, "UsageFailure">>,
    RecordPiOfficeSessionDisposed |-> <<N, T, N, "TranscriptReceipt">>,
    AuthorizePiTaskAttemptPrompt |-> <<N, T, N, T, N>>,
    RecordPiTaskAttemptPromptDelivery |-> <<N, T, T>>,
    RecordPiTaskAttemptPromptAccepted |-> <<N, T, N>>,
    RecordPiTaskAttemptUsage |-> <<N, T, N>> \o Usage,
    RecordPiTaskAttemptUsageFailure |-> <<N, T, N, "UsageFailure">>,
    RecordPiTaskAttemptTerminal |-> <<N, T, "TerminalEvidence", N,
        "PiTaskAttemptDisposition", "PiTaskAttemptAssistantOutcome",
        "PiTaskAttemptTranscriptDisposition">>,
    AuthorizePiTaskAttemptSessionDispose |-> <<N, T>>,
    RecordPiTaskAttemptSessionDisposeDelivery |-> <<N, T>>]

CommandLayout5 == [
    RecordPiTaskAttemptSessionDisposeAccepted |-> <<N, T, N>>,
    RecordPiTaskAttemptSessionDisposeUsage |-> <<N, T, N>> \o Usage,
    RecordPiTaskAttemptSessionDisposeUsageFailure |-> <<N, T, N,
        "UsageFailure">>,
    RecordPiTaskAttemptSessionDisposed |-> <<N, T, N, "TranscriptReceipt">>,
    QualifyNativeExecutionProfile |-> Ids(4) \o <<T, N, T, N, T, T, N>>,
    StartNativeExecutionProfileQualification |-> Ids(1),
    ClaimStudyActorTaskAttemptLaunch |-> Ids(5) \o <<T, N, T>>,
    ClaimNativeExecutionProfileQualificationLaunch |-> Ids(3) \o <<T, N, T>>,
    AllocateStudyActorWork |-> <<N, N, "StudyTreatment",
        "StudyPopulationPhase", N, N, N, N, N, T>>,
    StudyTransition |-> Ids(1)]

CommandLayout ==
    CommandLayout1 @@ CommandLayout2 @@ CommandLayout3 @@ CommandLayout4 @@
    CommandLayout5

EventLayout1 == [
    SocietyIdentityCreated |-> Ids(1),
    RootAuthorityOfficeInstalled |-> Ids(1),
    FoundingMissionInstalled |-> Ids(2),
    RootAuthorityAppointed |-> Ids(2),
    R0HardCeilingSet |-> Ids(2),
    SocietyBootstrapped |-> Ids(1),
    OperatingCycleProposed |-> <<N, N, "OperatingCycleTreatment", N>>,
    OperatingCycleStateChanged |-> <<N, "OperatingCycleState", N>>,
    RootAuthorityOfficeSessionStarted |-> Ids(2),
    RootAuthorityOfficeSessionStateChanged |-> <<N, "OfficeSessionState">>,
    OfficeTurnOpened |-> <<N, N, "OfficeTurnPurpose">>,
    OfficeTurnSettled |-> Ids(3),
    BudgetReserved |-> Ids(3),
    BudgetReconciled |-> Ids(2),
    BudgetAdmissionFrozen |-> Ids(4) \o <<"BudgetFreezeReason">>,
    CancellationRequested |-> <<N, N, "CancellationMode", N>>,
    CancellationReconciled |-> Ids(2),
    CostPostmortemClosed |-> Ids(3) \o <<"CostPostmortemResolution", N>>,
    ProjectCreated |-> Ids(2),
    ProjectChartered |-> Ids(1),
    ProjectStateChanged |-> <<N, "ProjectState">>,
    ProjectMilestoneCompleted |-> Ids(1),
    TicketCreated |-> Ids(2),
    TicketStateChanged |-> <<N, "TicketState">>,
    GraphObjectRevisionAdded |-> Ids(2),
    GraphRevisionCommitted |-> Ids(1),
    GraphEdgeAdded |-> Ids(1),
    EpisodeCreated |-> Ids(2),
    EpisodeStateChanged |-> <<N, "EpisodeState">>,
    AdversarialReviewRequested |-> Ids(1),
    AdversarialReviewerAssigned |-> Ids(4),
    ReviewChallengeSubmitted |-> Ids(2),
    ReviewChallengeResponded |-> Ids(1),
    ReviewChallengeDispositioned |-> <<N, "ReviewDispositionKind">>,
    AdversarialReviewResolved |-> <<N, "AdversarialReviewState">>,
    PostmortemTriggered |-> Ids(1)]

EventLayout2 == [
    PostmortemCausalClaimRecorded |-> Ids(1),
    PostmortemActionProposed |-> Ids(1),
    PostmortemClosed |-> Ids(1),
    ActorConfigurationRegistered |-> Ids(2),
    ContextPackRegistered |-> Ids(1),
    ActorInstanceAdmitted |-> Ids(2),
    TicketAdmitted |-> Ids(1),
    WorkItemRegistered |-> <<N, N, O>>,
    WorkItemClaimed |-> Ids(3),
    ActorAttemptStarted |-> Ids(3),
    ActorAttemptTerminalAttested |-> <<N, "ActorAttemptTerminalKind">>,
    TicketAttemptValidated |-> Ids(2),
    ActorAttemptRetryPrepared |-> Ids(3),
    TicketCompleted |-> Ids(2),
    WorkLeaseExpired |-> Ids(2),
    ActorAttemptCancellationRequested |-> <<N,
        "ActorAttemptCancellationReason">>,
    OutcomeObligationRegistered |-> Ids(2),
    OutcomeObligationResolved |-> <<N, "OutcomeObligationState">>,
    ContentSealReceiptRecorded |-> <<N, T>>,
    ContentObjectRegistered |-> Ids(2),
    ForensicManifestRegistered |-> Ids(3),
    DeterministicEvaluatorForensicManifestRegistered |-> Ids(5),
    DeterministicExperimentRegistered |-> Ids(3),
    DeterministicEvaluationReceiptRecorded |-> Ids(2),
    DeterministicEvidenceAdmitted |-> <<N, N, "EvidenceSemanticRole",
        "EvidenceApplicability", "EvidenceLimitationKind">>,
    DeterministicExperimentFinalized |-> <<N, "DeterministicExperimentState">>,
    DeterministicEvaluatorNativeChildAdmitted |-> Ids(1) \o Ids(3),
    DeterministicEvaluatorNativeChildSpawnRecorded |-> Ids(2),
    PiChildSpawnAdmitted |-> <<N, "PiChildOwner", N>>,
    InertPiChildSpawnRecorded |-> Ids(2),
    PiAdapterReadyRecorded |-> Ids(2),
    PiCreateSessionAuthorized |-> Ids(1),
    PiCreateSessionDeliveryRecorded |-> Ids(1),
    PiSessionReadyRecorded |-> Ids(2),
    PiAbortControlDeliveryRecorded |-> Ids(3) \o <<T, T,
        "PiAbortControlWriteOutcome">>]

EventLayout3 == [
    ChildStreamSealed |-> <<N, N, "ChildStreamKind",
        "ChildStreamSealCompleteness">>,
    ChildProcessLivenessObserved |-> <<N, N, "ProcessGroupLiveness">>,
    ProcessSignalReceiptRecorded |-> <<N, N, "ProcessSignalAction",
        "ProcessSignalDelivery", "ProcessGroupLiveness", "ProcessSignalCause">>,
    DirectChildReaped |-> <<N, N, "DirectChildWaitStatus",
        "ProcessGroupLiveness", "ProcessGroupLiveness">>,
    ChildRecoveryObserved |-> <<N, N, "ChildRecoveryObservation",
        "ProcessGroupLiveness">>,
    ChildProcessFinalized |-> <<N, "ChildTerminalDisposition">>,
    CancellationPropagationBegun |-> Ids(2),
    CancellationPropagationReconciled |-> Ids(1),
    CancellationPropagationContainmentFailed |-> Ids(1),
    NativeChildSpawnInvalidated |-> <<N, "NativeChildNotSpawnedReason">>,
    SupervisorEpochOpened |-> Ids(1),
    PiOfficeTurnPromptAuthorized |-> Ids(3) \o <<T, N>>,
    PiOfficeTurnPromptDelivered |-> <<N, T>>,
    PiOfficeTurnPromptAccepted |-> <<N, T, N>>,
    PiOfficeTurnUsageRecorded |-> Ids(4),
    PiOfficeTurnUsageFrozen |-> Ids(4) \o <<"UsageFailure">>,
    PiOfficeTurnTerminalRecorded |-> <<N, N, "PiOfficeTurnDisposition",
        "PiOfficeTurnAssistantOutcome">>,
    PiOfficeSessionDisposeAuthorized |-> <<N, N, T, N>>,
    PiOfficeSessionDisposeDelivered |-> <<N, N, T>>,
    PiOfficeSessionDisposeAccepted |-> <<N, T, N>>,
    PiOfficeSessionDisposeUsageRecorded |-> Ids(3),
    PiOfficeSessionDisposeUsageFrozen |-> Ids(4) \o <<"UsageFailure">>,
    PiOfficeSessionDisposed |-> Ids(4) \o <<"DisposeBudget">>,
    PiTaskAttemptPromptAuthorized |-> Ids(3) \o <<T, N>>,
    PiTaskAttemptPromptDelivered |-> <<N, T>>,
    PiTaskAttemptPromptAccepted |-> <<N, T, N>>,
    PiTaskAttemptUsageRecorded |-> Ids(4)]

EventLayout4 == [
    PiTaskAttemptUsageFrozen |-> Ids(4) \o <<"UsageFailure">>,
    PiTaskAttemptTerminalRecorded |-> <<N, N, "PiTaskAttemptDisposition",
        "PiTaskAttemptAssistantOutcome">>,
    PiTaskAttemptSessionDisposeAuthorized |-> <<N, N, T, N>>,
    PiTaskAttemptSessionDisposeDelivered |-> <<N, N, T>>,
    PiTaskAttemptSessionDisposeAccepted |-> <<N, T, N>>,
    PiTaskAttemptSessionDisposeUsageRecorded |-> Ids(3),
    PiTaskAttemptSessionDisposeUsageFrozen |-> Ids(4) \o <<"UsageFailure">>,
    PiTaskAttemptSessionDisposed |-> Ids(4) \o <<"DisposeBudget">>,
    NativeExecutionProfileQualified |-> Ids(5),
    NativeExecutionProfileQualificationStarted |-> Ids(2),
    StudyActorTaskAttemptLaunchClaimed |-> Ids(9),
    NativeExecutionProfileQualificationLaunchClaimed |-> Ids(6),
    StudyActorWorkAllocated |-> <<N, N, "StudyTreatment",
        "StudyPopulationPhase", N, N, N, N, N, N>>,
    StudyTransition |-> Ids(1)]

EventLayout ==
    EventLayout1 @@ EventLayout2 @@ EventLayout3 @@ EventLayout4

-----------------------------------------------------------------------------
(* The codes of the enumerations: what domain.rs declares and what the     *)
(* decoders of store.rs accept.                                            *)

EnumCodes1 == [
    OfficeKind |-> 1..1, OperatingCycleState |-> 1..11]

EnumCodes2 == [
    OperatingCycleTreatment |-> 1..4, ProjectState |-> 1..9,
    ProjectMilestoneState |-> 1..2, TicketState |-> 1..11,
    GraphObjectKind |-> 1..2]

EnumCodes3 == [
    GraphRevisionState |-> 1..2, GraphEdgeKind |-> 1..2]

EnumCodes4 == [
    EpisodeState |-> 1..17, AdversarialReviewState |-> 1..9,
    ActorModelPolicy |-> 1..2, DevelopmentalAttractor |-> 1..8,
    ActorConfigurationState |-> 1..2, ActorInstanceState |-> 1..2,
    ExecutionProfileKind |-> 1..3, ExecutionProfileReadiness |-> 1..3,
    CapabilityGrantOrigin |-> 1..3, ContextPackPurpose |-> 1..2,
    WorkItemKind |-> 1..2, WorkItemState |-> 1..5, WorkLeaseState |-> 1..4]

EnumCodes5 == [
    NativeChildSpawnAdmissionState |-> 1..3, ChildProcessState |-> 1..8,
    PiChildSessionState |-> 1..5, PiOfficeTurnDisposition |-> 1..6,
    PiOfficeTurnAssistantOutcome |-> 1..6]

EnumCodes6 == [
    PiOfficeTurnTranscriptDisposition |-> 1..1]

EnumCodes7 == [
    PiOfficeTurnUsageUnknownReason |-> 1..3,
    PiOfficeTurnUsageUnavailableReason |-> 1..3,
    PiTaskAttemptDisposition |-> 1..6, PiTaskAttemptAssistantOutcome |-> 1..6]

EnumCodes8 == [
    PiTaskAttemptTranscriptDisposition |-> 1..1]

EnumCodes9 == [
    ChildStreamKind |-> 1..4, ChildStreamSealCompleteness |-> 1..3,
    ProcessGroupLiveness |-> 1..3, ProcessSignalAction |-> 1..3,
    PiAbortControlWriteOutcome |-> 1..4, ProcessSignalDelivery |-> 1..4]

EnumCodes10 == [
    ChildRecoveryObservation |-> 1..1, NativeChildNotSpawnedReason |-> 1..4,
    ChildTerminalDisposition |-> {1, 4, 5, 6, 7},
    CancellationPropagationState |-> 1..3,
    CancellationPropagationTargetDisposition |-> 1..7,
    ActorAttemptState |-> 1..9]

EnumCodes11 == [
    EvaluatorExecutionContract |-> 1..1, EvaluatorOutputContract |-> 1..1,
    RetentionAccessClass |-> 1..2, ForensicManifestCapturePolicy |-> 1..1,
    DeterministicExperimentState |-> 1..5, EvidenceSemanticRole |-> 1..1,
    EvidenceApplicability |-> 1..1, EvidenceLimitationKind |-> 1..1,
    ActorAttemptTerminalKind |-> 1..6]

EnumCodes12 == [
    ActorAttemptCancellationReason |-> 1..3, OutcomeObligationState |-> 1..3,
    OutcomeObligationDisposition |-> 1..2, ReviewChallengeSeverity |-> 1..4,
    ReviewChallengeResponseState |-> 1..2, ReviewDispositionKind |-> 1..3,
    ReviewResolutionKind |-> 1..2, PostmortemState |-> 1..3,
    PostmortemCausalClaimKind |-> 1..3, PostmortemActionKind |-> 1..2,
    OfficeSessionState |-> 1..11, OfficeTurnState |-> 1..4,
    OfficeTurnPurpose |-> 1..4, OfficeSessionTerminalState |-> 1..3,
    CancellationMode |-> 1..3]

EnumCodes13 == [
    CancellationState |-> 1..9, BudgetReservationState |-> 1..3,
    CostPostmortemCause |-> 1..3, CostPostmortemResolution |-> 1..2,
    CostPostmortemState |-> 1..2, CostUnknownReason |-> 1..3,
    CostUnavailableReason |-> 1..4]

StudyEnumCodes == [
    StudyTreatment |-> 1..2, StudyPopulationPhase |-> 1..2,
    ForumMessageKind |-> 1..5, StudyMeasurementStatus |-> 1..3,
    StudyRunLifecycleState |-> 1..4,
    StudyActorTaskAttemptRecoveryAccountingState |-> 1..1]

EnumCodes ==
    EnumCodes1 @@ EnumCodes2 @@ EnumCodes3 @@ EnumCodes4 @@ EnumCodes5 @@
    EnumCodes6 @@ EnumCodes7 @@ EnumCodes8 @@ EnumCodes9 @@ EnumCodes10 @@
    EnumCodes11 @@ EnumCodes12 @@ EnumCodes13 @@ StudyEnumCodes

StoredCodes1 == [
    StudyTreatment |-> 1..2, StudyPopulationPhase |-> 1..2]

StoredCodes2 == [
    PiOfficeTurnDisposition |-> 1..6, PiTaskAttemptDisposition |-> 1..6,
    PiOfficeTurnAssistantOutcome |-> 1..6,
    PiTaskAttemptAssistantOutcome |-> 1..6]

StoredCodes3 == [
    PiOfficeTurnTranscriptDisposition |-> 1..1,
    PiTaskAttemptTranscriptDisposition |-> 1..1]

StoredCodes4 == [
    OperatingCycleState |-> 1..11, ChildProcessState |-> 1..8]

StoredCodes5 == [
    ChildStreamKind |-> 1..4, ChildStreamSealCompleteness |-> 1..3,
    ProcessGroupLiveness |-> 1..3, ProcessSignalAction |-> 1..3,
    ProcessSignalDelivery |-> 1..4, PiAbortControlWriteOutcome |-> 1..4,
    NativeChildNotSpawnedReason |-> 1..4,
    DeterministicExperimentState |-> 1..5, ChildRecoveryObservation |-> 1..1,
    ChildTerminalDisposition |-> {1, 4, 5, 6, 7}]

StoredCodes6 == [
    OperatingCycleTreatment |-> 1..4, RetentionAccessClass |-> 1..2,
    ForensicManifestCapturePolicy |-> 1..1, EvidenceSemanticRole |-> 1..1,
    EvidenceLimitationKind |-> 1..1, EvidenceApplicability |-> 1..1,
    OfficeSessionState |-> 1..11, OfficeSessionTerminalState |-> 1..3,
    OfficeTurnPurpose |-> 1..4, CancellationMode |-> 1..3]

StoredCodes7 == [
    CostPostmortemCause |-> 1..3, CostPostmortemResolution |-> 1..2,
    CostUnknownReason |-> 1..3, CostUnavailableReason |-> 1..4,
    MissionPrincipleKind |-> 1..4, ProjectState |-> 1..9,
    TicketState |-> 1..11, ActorModelPolicy |-> 1..2,
    DevelopmentalAttractor |-> 1..8, ExecutionProfileKind |-> 1..3,
    ExecutionProfileReadiness |-> 1..3, ActorInstanceState |-> 1..2,
    ContextPackPurpose |-> 1..2, WorkItemKind |-> 1..2, WorkItemState |-> 1..5]

StoredCodes8 == [
    ActorAttemptState |-> 1..9, ActorAttemptTerminalKind |-> 1..6,
    ActorAttemptCancellationReason |-> 1..3, OutcomeObligationState |-> 1..3,
    OutcomeObligationDisposition |-> 1..2, GraphObjectKind |-> 1..2,
    GraphRevisionState |-> 1..2, GraphEdgeKind |-> 1..2,
    EpisodeState |-> 1..17, AdversarialReviewState |-> 1..9,
    ReviewChallengeSeverity |-> 1..4, ReviewChallengeResponseState |-> 1..2,
    ReviewDispositionKind |-> 1..3, ReviewResolutionKind |-> 1..2]

StoredCodes9 == [
    PostmortemState |-> 1..3, PostmortemCausalClaimKind |-> 1..3,
    PostmortemActionKind |-> 1..2]

StudyStoredCodes == [
    StudyTreatment |-> 1..2, StudyPopulationPhase |-> 1..2,
    ForumMessageKind |-> 1..5, StudyMeasurementStatus |-> 1..3,
    StudyRunLifecycleState |-> 1..4,
    StudyActorTaskAttemptRecoveryAccountingState |-> 1..1]

StoredCodes ==
    StoredCodes1 @@ StoredCodes2 @@ StoredCodes3 @@ StoredCodes4 @@
    StoredCodes5 @@ StoredCodes6 @@ StoredCodes7 @@ StoredCodes8 @@
    StoredCodes9 @@ StudyStoredCodes

-----------------------------------------------------------------------------
(* Sums.  SumColumns lists for every alternative the columns its payload   *)
(* fills; every other column of the field is NULL.  A tag column comes     *)
(* first, except for the sums in Untagged, which are told apart by the     *)
(* columns alone.  The second alternative of a transcript receipt is the   *)
(* first with the digest of a verified first prompt.                       *)

SumColumns == [
    CostObservation |-> <<<<1>>, <<2>>, <<3>>>>,
    BudgetFreezeReason |-> <<<<1, 2>>, <<3>>, <<4>>>>,
    DirectChildWaitStatus |-> <<<<1>>, <<1>>, <<>>>>,
    ProcessSignalCause |-> <<<<1>>, <<>>>>,
    PiChildOwner |-> <<<<1>>, <<2>>, <<3>>>>,
    GraphRevisionBody |-> <<<<1>>, <<2>>>>,
    UsageFailure |-> <<<<1>>, <<2>>>>,
    TerminalEvidence |-> <<<<1, 2>>, <<2>>>>,
    TranscriptReceipt |-> <<<<1, 2, 3>>, <<1, 2, 3, 4>>, <<1>>>>,
    DisposeBudget |-> <<<<1>>, <<2, 3>>>>]

Untagged == {"PiChildOwner", "GraphRevisionBody"}

Width(sum) ==
    CHOOSE n \in 0..4 :
        /\ \A a \in DOMAIN SumColumns[sum] : Range(SumColumns[sum][a]) \subseteq 1..n
        /\ \E a \in DOMAIN SumColumns[sum] : n = 0 \/ n \in Range(SumColumns[sum][a])

-----------------------------------------------------------------------------
(* One field: its bytes in a fingerprint, its columns, and its value read  *)
(* back from those columns.                                                *)

NULL == <<>>

\* What no stored value equals: InvalidStoredValue, LedgerCorruption.
Corrupt == <<0>>

UnprefixedBytes(type, value) ==
    CASE type = T -> value
      [] type = O -> IF value = <<>> THEN <<0>> ELSE <<1>> \o value
      [] OTHER -> value

\* put_bytes prefixes a text with its length, put_optional_i64 an Option with
\* its presence, and every sum starts with its alternative.
Bytes(type, value) ==
    CASE type = T -> <<Len(value)>> \o value
      [] type = O -> IF value = <<>> THEN <<0>> ELSE <<1>> \o value
      [] type = "ProcessSignalCause" -> value \o IF value = <<2>> THEN <<0>> ELSE <<>>
      [] OTHER -> value

SumToColumns(sum, value) ==
    LET shape == SumColumns[sum][Head(value)]
        filled == [c \in 1..Width(sum) |->
                      IF c \in Range(shape)
                      THEN <<Tail(value)[CHOOSE i \in DOMAIN shape : shape[i] = c]>>
                      ELSE NULL]
    IN  IF sum \in Untagged THEN filled ELSE <<<<Head(value)>>>> \o filled

TaglessFromColumns(sum, columns) ==
    LET payload == IF sum \in Untagged THEN columns ELSE Tail(columns)
        matches(a) ==
            \A c \in 1..Width(sum) :
                payload[c] # NULL <=> c \in Range(SumColumns[sum][a])
        alternatives == {a \in DOMAIN SumColumns[sum] : matches(a)}
        a == CHOOSE a \in alternatives : TRUE
    IN  IF alternatives = {} THEN Corrupt
        ELSE <<a>> \o [i \in DOMAIN SumColumns[sum][a] |-> payload[SumColumns[sum][a][i]][1]]

SumFromColumns(sum, columns) ==
    LET payload == IF sum \in Untagged THEN columns ELSE Tail(columns)
        matches(a) ==
            /\ sum \notin Untagged => columns[1] = <<a>>
            /\ \A c \in 1..Width(sum) :
                   payload[c] # NULL <=> c \in Range(SumColumns[sum][a])
        alternatives == {a \in DOMAIN SumColumns[sum] : matches(a)}
        a == CHOOSE a \in alternatives : TRUE
    IN  IF alternatives = {} THEN Corrupt
        ELSE <<a>> \o [i \in DOMAIN SumColumns[sum][a] |-> payload[SumColumns[sum][a][i]][1]]

ToColumns(type, value) ==
    IF type \in DOMAIN SumColumns THEN SumToColumns(type, value) ELSE <<value>>

FromColumns(type, columns) ==
    CASE type \in DOMAIN SumColumns -> SumFromColumns(type, columns)
      [] type \in {N, T} -> IF columns[1] = NULL THEN Corrupt ELSE columns[1]
      [] type = O -> columns[1]
      [] OTHER ->
            IF columns[1] # NULL /\ columns[1][1] \in StoredCodes[type] THEN columns[1] ELSE Corrupt

-----------------------------------------------------------------------------
(* A whole body: its fingerprint, its row and the body read from the row.  *)
(* `fields' is the order of the fields in the fingerprint, `columns' and   *)
(* `reads' name for every field the column it is written to and read from. *)

Fingerprint(layout, fields, body) ==
    FlattenSeq([i \in DOMAIN fields |-> Bytes(layout[fields[i]], body[fields[i]])])

ToRow(layout, columns, body) ==
    [c \in Range(columns) |->
        LET f == CHOOSE f \in DOMAIN columns : columns[f] = c
        IN  ToColumns(layout[f], body[f])]

FromRow(layout, reads, row) ==
    [f \in DOMAIN layout |->
        IF reads[f] \in DOMAIN row THEN FromColumns(layout[f], row[reads[f]]) ELSE Corrupt]

-----------------------------------------------------------------------------
(* What it takes for the three to be in step.                              *)

\* What a field of each type may hold: a number, a text that is not empty, the
\* codes that are read back, and the alternatives of a sum with their payloads.
WellTyped(type, value) ==
    /\ value \in Seq(Int)
    /\ CASE type = N -> Len(value) = 1
         [] type = T -> value # <<>>
         [] type = O -> Len(value) <= 1
         [] type \in DOMAIN SumColumns ->
               /\ value # <<>> /\ value[1] \in DOMAIN SumColumns[type]
               /\ Len(value) = 1 + Len(SumColumns[type][value[1]])
         [] OTHER -> Len(value) = 1 /\ value[1] \in StoredCodes[type]

\* A body of a layout: a value of its type for every field.
IsBody(layout, body) ==
    /\ body = [f \in DOMAIN layout |-> body[f]]
    /\ \A f \in DOMAIN layout : WellTyped(layout[f], body[f])

\* The fields in the order of a fingerprint: all of them.
AreFields(layout, fields) == fields \in Seq(DOMAIN layout) /\ Range(fields) = DOMAIN layout

\* The columns of a layout: one for every field, none of them shared.
AreColumns(layout, columns) ==
    /\ DOMAIN columns = DOMAIN layout
    /\ \A f, g \in DOMAIN columns : columns[f] = columns[g] => f = g

\* The types of fields there are, and the codes a field may be given: every one
\* of them is read back, and the first is the least.
FieldTypes == {N, T, O} \cup DOMAIN SumColumns \cup (DOMAIN EnumCodes \cap DOMAIN StoredCodes)

CodesInStep ==
    \A type \in FieldTypes \ ({N, T, O} \cup DOMAIN SumColumns) :
        /\ EnumCodes[type] \subseteq StoredCodes[type]
        /\ 1 \in EnumCodes[type] /\ \A c \in EnumCodes[type] : c \in Int /\ 1 <= c

-----------------------------------------------------------------------------
(* The order in which each function of store.rs handles the fields of each *)
(* variant: for nearly all of them the order of the declaration.           *)

InOrder(kinds) == [k \in kinds |-> [f \in DOMAIN CommandLayout[k] |-> f]]

EventInOrder(kinds) == [k \in kinds |-> [f \in DOMAIN EventLayout[k] |-> f]]

\* request_fingerprint: the fields appended after the envelope.
RequestFields1 == InOrder(
    {"CreateSocietyIdentity", "InstallRootAuthorityOffice", "BootstrapSociety",
    "InstallFoundingMission", "AppointInitialRootAuthority",
    "SetR0HardCeiling", "ProposeOperatingCycle", "AdmitOperatingCycle",
    "StartRootAuthorityOfficeSession", "QuiesceOperatingCycle",
    "RecordCycleDrained", "ResumeOperatingCycle", "ReconcileOperatingCycle",
    "CloseOperatingCycle", "RecordOfficeSessionReady",
    "RecordOfficeSessionTerminal", "OpenOfficeTurn", "SettleOfficeTurn",
    "ReserveBudget", "ReconcileBudget", "RequestCancellation",
    "ReconcileCancellation", "CloseCostPostmortem"})

RequestFields2 == InOrder(
    {"CreateProject", "CharterProject", "TransitionProject",
    "CompleteProjectMilestone", "ReopenProject", "CreateTicket",
    "TransitionTicket", "AddGraphObjectRevision", "CommitGraphRevision",
    "AddGraphEdge", "CreateEpisode", "TransitionEpisode"})

RequestFields3 == InOrder(
    {"ReopenEpisode", "RequestAdversarialReview", "AssignAdversarialReviewer",
    "SubmitReviewChallenge", "RespondToReviewChallenge",
    "DispositionReviewChallenge", "RecordContentSealReceipt",
    "RegisterContentObject", "RegisterForensicManifest",
    "RegisterDeterministicEvaluatorForensicManifest",
    "RegisterDeterministicExperiment", "RecordDeterministicEvaluationReceipt",
    "AdmitDeterministicEvidence", "FinalizeDeterministicExperiment"})

RequestFields4 == InOrder(
    {"AdmitDeterministicEvaluatorNativeChild",
    "RecordDeterministicEvaluatorNativeChildSpawn",
    "ResolveAdversarialReview", "TriggerPostmortem",
    "RecordPostmortemCausalClaim", "ProposePostmortemAction",
    "ClosePostmortem", "RegisterActorConfiguration", "RegisterContextPack",
    "AdmitActorInstance", "AdmitTicket", "RegisterWorkItem", "ClaimWorkItem"})

RequestFields5 == InOrder(
    {"StartActorAttempt", "AttestActorAttemptTerminal",
    "ValidateTicketAttempt", "RetryActorAttempt", "CompleteTicket",
    "ExpireWorkLease", "CancelActorAttempt", "RegisterOutcomeObligation",
    "ResolveOutcomeObligation", "OpenSupervisorEpoch", "AdmitPiChildSpawn",
    "RecordInertChildSpawn", "RecordPiAdapterReady",
    "AuthorizePiCreateSession", "RecordPiCreateSessionDelivery",
    "RecordPiSessionReady"})

RequestFields6 == InOrder(
    {"RecordPiAbortControlDelivery", "RecordChildStreamSeal",
    "RecordChildProcessLiveness", "RecordProcessSignalReceipt",
    "RecordDirectChildReap", "RecordChildRecovery", "FinalizeChildProcess",
    "BeginCancellationPropagation", "ReconcileCancellationPropagation",
    "RecordNativeChildNotSpawned", "AuthorizePiOfficeTurnPrompt",
    "RecordPiOfficeTurnPromptDelivery", "RecordPiOfficeTurnPromptAccepted",
    "RecordPiOfficeTurnUsage", "RecordPiOfficeTurnUsageFailure"})

RequestFields7 == InOrder(
    {"RecordPiOfficeTurnTerminal", "AuthorizePiOfficeSessionDispose",
    "RecordPiOfficeSessionDisposeDelivery",
    "RecordPiOfficeSessionDisposeAccepted",
    "RecordPiOfficeSessionDisposeUsage",
    "RecordPiOfficeSessionDisposeUsageFailure",
    "RecordPiOfficeSessionDisposed", "AuthorizePiTaskAttemptPrompt",
    "RecordPiTaskAttemptPromptDelivery", "RecordPiTaskAttemptPromptAccepted",
    "RecordPiTaskAttemptUsage", "RecordPiTaskAttemptSessionDisposeUsage",
    "RecordPiTaskAttemptUsageFailure",
    "RecordPiTaskAttemptSessionDisposeUsageFailure"})

RequestFields8 == InOrder(
    {"RecordPiTaskAttemptTerminal", "AuthorizePiTaskAttemptSessionDispose",
    "RecordPiTaskAttemptSessionDisposeDelivery",
    "RecordPiTaskAttemptSessionDisposeAccepted",
    "RecordPiTaskAttemptSessionDisposed", "QualifyNativeExecutionProfile",
    "StartNativeExecutionProfileQualification",
    "ClaimStudyActorTaskAttemptLaunch",
    "ClaimNativeExecutionProfileQualificationLaunch",
    "AllocateStudyActorWork", "StudyTransition"})

RequestFields ==
    RequestFields1 @@ RequestFields2 @@ RequestFields3 @@ RequestFields4 @@
    RequestFields5 @@ RequestFields6 @@ RequestFields7 @@ RequestFields8

\* insert_command_body: the column each field is written to.
CommandInserts1 == InOrder(
    {"CreateSocietyIdentity", "RecordPiAbortControlDelivery",
    "InstallRootAuthorityOffice", "InstallFoundingMission",
    "AppointInitialRootAuthority", "SetR0HardCeiling", "BootstrapSociety",
    "ProposeOperatingCycle", "AdmitOperatingCycle",
    "StartRootAuthorityOfficeSession", "RecordOfficeSessionReady",
    "RecordOfficeSessionTerminal", "OpenOfficeTurn", "SettleOfficeTurn",
    "QuiesceOperatingCycle", "RecordCycleDrained", "ResumeOperatingCycle",
    "ReconcileOperatingCycle", "CloseOperatingCycle", "ReserveBudget",
    "ReconcileBudget", "RequestCancellation"})

CommandInserts2 == InOrder(
    {"ReconcileCancellation", "CloseCostPostmortem", "CreateProject",
    "AuthorizePiOfficeTurnPrompt", "RecordPiOfficeTurnPromptDelivery",
    "RecordPiOfficeTurnPromptAccepted", "RecordPiOfficeTurnUsage",
    "RecordPiOfficeTurnUsageFailure", "RecordPiOfficeTurnTerminal",
    "AuthorizePiOfficeSessionDispose", "RecordPiOfficeSessionDisposeDelivery",
    "RecordPiOfficeSessionDisposeAccepted"})

CommandInserts3 == InOrder(
    {"RecordPiOfficeSessionDisposeUsage",
    "RecordPiOfficeSessionDisposeUsageFailure",
    "RecordPiOfficeSessionDisposed", "AuthorizePiTaskAttemptPrompt",
    "RecordPiTaskAttemptPromptDelivery", "RecordPiTaskAttemptPromptAccepted",
    "RecordPiTaskAttemptUsage", "RecordPiTaskAttemptSessionDisposeUsage",
    "RecordPiTaskAttemptUsageFailure",
    "RecordPiTaskAttemptSessionDisposeUsageFailure",
    "RecordPiTaskAttemptTerminal"})

CommandInserts4 == InOrder(
    {"AuthorizePiTaskAttemptSessionDispose",
    "RecordPiTaskAttemptSessionDisposeDelivery",
    "RecordPiTaskAttemptSessionDisposeAccepted",
    "RecordPiTaskAttemptSessionDisposed", "QualifyNativeExecutionProfile",
    "StartNativeExecutionProfileQualification",
    "ClaimStudyActorTaskAttemptLaunch",
    "ClaimNativeExecutionProfileQualificationLaunch",
    "AllocateStudyActorWork", "StudyTransition"})

CommandInserts5 == InOrder(
    {"RecordContentSealReceipt", "RegisterContentObject",
    "RegisterForensicManifest",
    "RegisterDeterministicEvaluatorForensicManifest",
    "RegisterDeterministicExperiment", "RecordDeterministicEvaluationReceipt",
    "AdmitDeterministicEvidence", "FinalizeDeterministicExperiment",
    "AdmitDeterministicEvaluatorNativeChild",
    "RecordDeterministicEvaluatorNativeChildSpawn",
    "RegisterActorConfiguration", "RegisterContextPack"})

CommandInserts6 == InOrder(
    {"AdmitActorInstance", "AdmitTicket", "RegisterWorkItem", "ClaimWorkItem",
    "StartActorAttempt", "AttestActorAttemptTerminal",
    "ValidateTicketAttempt", "RetryActorAttempt", "CompleteTicket",
    "ExpireWorkLease", "CancelActorAttempt"})

CommandInserts7 == InOrder(
    {"RegisterOutcomeObligation", "ResolveOutcomeObligation",
    "CharterProject", "TransitionProject", "CompleteProjectMilestone",
    "ReopenProject", "CreateTicket", "TransitionTicket"})

CommandInserts8 == InOrder(
    {"AddGraphObjectRevision", "CommitGraphRevision", "AddGraphEdge",
    "CreateEpisode", "TransitionEpisode", "ReopenEpisode",
    "RequestAdversarialReview", "AssignAdversarialReviewer"})

CommandInserts9 == InOrder(
    {"SubmitReviewChallenge", "RespondToReviewChallenge",
    "DispositionReviewChallenge", "ResolveAdversarialReview",
    "TriggerPostmortem", "RecordPostmortemCausalClaim",
    "ProposePostmortemAction", "ClosePostmortem", "OpenSupervisorEpoch"})

CommandInserts10 == InOrder(
    {"AdmitPiChildSpawn", "RecordInertChildSpawn", "RecordPiAdapterReady",
    "AuthorizePiCreateSession", "RecordPiCreateSessionDelivery",
    "RecordPiSessionReady", "RecordChildStreamSeal",
    "RecordChildProcessLiveness", "RecordProcessSignalReceipt"})

CommandInserts11 == InOrder(
    {"RecordDirectChildReap", "RecordChildRecovery", "FinalizeChildProcess",
    "BeginCancellationPropagation", "ReconcileCancellationPropagation",
    "RecordNativeChildNotSpawned"})

CommandInserts ==
    CommandInserts1 @@ CommandInserts2 @@ CommandInserts3 @@ CommandInserts4
    @@ CommandInserts5 @@ CommandInserts6 @@ CommandInserts7 @@
    CommandInserts8 @@ CommandInserts9 @@ CommandInserts10 @@ CommandInserts11

\* decode_command_body: the column each field is read from.
CommandReads1 == InOrder(
    {"CreateSocietyIdentity", "InstallRootAuthorityOffice",
    "InstallFoundingMission", "AppointInitialRootAuthority",
    "SetR0HardCeiling", "BootstrapSociety", "ProposeOperatingCycle",
    "AdmitOperatingCycle", "StartRootAuthorityOfficeSession",
    "RecordOfficeSessionReady", "OpenOfficeTurn", "SettleOfficeTurn",
    "QuiesceOperatingCycle", "RecordCycleDrained", "ResumeOperatingCycle",
    "ReconcileOperatingCycle"})

CommandReads2 == InOrder(
    {"CloseOperatingCycle", "ReserveBudget", "ReconcileBudget",
    "RequestCancellation", "ReconcileCancellation",
    "RecordOfficeSessionTerminal", "CloseCostPostmortem"})

CommandReads3 == InOrder(
    {"CreateProject", "CharterProject", "TransitionProject",
    "CompleteProjectMilestone", "ReopenProject", "CreateTicket",
    "TransitionTicket", "AddGraphObjectRevision"})

CommandReads4 == InOrder(
    {"CommitGraphRevision", "AddGraphEdge", "CreateEpisode",
    "TransitionEpisode", "ReopenEpisode", "RequestAdversarialReview",
    "AssignAdversarialReviewer", "SubmitReviewChallenge",
    "RespondToReviewChallenge", "DispositionReviewChallenge",
    "ResolveAdversarialReview"})

CommandReads5 == InOrder(
    {"TriggerPostmortem", "RecordPostmortemCausalClaim",
    "ProposePostmortemAction", "ClosePostmortem",
    "RegisterActorConfiguration", "RegisterContextPack", "AdmitActorInstance",
    "AdmitTicket", "RegisterWorkItem", "ClaimWorkItem", "StartActorAttempt",
    "AttestActorAttemptTerminal"})

CommandReads6 == InOrder(
    {"ValidateTicketAttempt", "RetryActorAttempt", "CompleteTicket",
    "ExpireWorkLease", "CancelActorAttempt", "RegisterOutcomeObligation",
    "ResolveOutcomeObligation", "RecordContentSealReceipt",
    "RegisterContentObject", "RegisterForensicManifest",
    "RegisterDeterministicEvaluatorForensicManifest",
    "RegisterDeterministicExperiment"})

CommandReads7 == InOrder(
    {"RecordDeterministicEvaluationReceipt", "AdmitDeterministicEvidence",
    "FinalizeDeterministicExperiment",
    "AdmitDeterministicEvaluatorNativeChild",
    "RecordDeterministicEvaluatorNativeChildSpawn", "OpenSupervisorEpoch",
    "AdmitPiChildSpawn", "RecordInertChildSpawn", "RecordPiAdapterReady"})

CommandReads8 == InOrder(
    {"AuthorizePiCreateSession", "RecordPiCreateSessionDelivery",
    "RecordPiSessionReady", "RecordPiAbortControlDelivery",
    "RecordChildStreamSeal", "RecordChildProcessLiveness",
    "RecordProcessSignalReceipt", "RecordDirectChildReap",
    "RecordChildRecovery", "FinalizeChildProcess",
    "BeginCancellationPropagation", "ReconcileCancellationPropagation",
    "RecordNativeChildNotSpawned"})

CommandReads9 == InOrder(
    {"AuthorizePiOfficeTurnPrompt", "RecordPiOfficeTurnPromptDelivery",
    "RecordPiOfficeTurnPromptAccepted", "RecordPiOfficeTurnUsage",
    "RecordPiOfficeTurnUsageFailure", "RecordPiOfficeTurnTerminal",
    "AuthorizePiOfficeSessionDispose", "RecordPiOfficeSessionDisposeDelivery",
    "RecordPiOfficeSessionDisposeAccepted"})

CommandReads10 == InOrder(
    {"RecordPiOfficeSessionDisposeUsage",
    "RecordPiOfficeSessionDisposeUsageFailure",
    "RecordPiOfficeSessionDisposed", "AuthorizePiTaskAttemptPrompt",
    "RecordPiTaskAttemptPromptDelivery", "RecordPiTaskAttemptPromptAccepted",
    "RecordPiTaskAttemptUsage", "RecordPiTaskAttemptSessionDisposeUsage"})

CommandReads11 == InOrder(
    {"RecordPiTaskAttemptUsageFailure",
    "RecordPiTaskAttemptSessionDisposeUsageFailure",
    "RecordPiTaskAttemptTerminal", "AuthorizePiTaskAttemptSessionDispose",
    "RecordPiTaskAttemptSessionDisposeDelivery",
    "RecordPiTaskAttemptSessionDisposeAccepted",
    "RecordPiTaskAttemptSessionDisposed",
    "StartNativeExecutionProfileQualification"})

CommandReads12 == InOrder(
    {"ClaimStudyActorTaskAttemptLaunch",
    "ClaimNativeExecutionProfileQualificationLaunch",
    "AllocateStudyActorWork"})

CommandReads13 == InOrder(
    {"QualifyNativeExecutionProfile", "StudyTransition"})

CommandReads ==
    CommandReads1 @@ CommandReads2 @@ CommandReads3 @@ CommandReads4 @@
    CommandReads5 @@ CommandReads6 @@ CommandReads7 @@ CommandReads8 @@
    CommandReads9 @@ CommandReads10 @@ CommandReads11 @@ CommandReads12 @@
    CommandReads13

\* event_fingerprint: TicketCompleted appends its two fields the other way round.
EventFields1 == EventInOrder(
    {"SocietyIdentityCreated", "SocietyBootstrapped",
    "RootAuthorityOfficeInstalled", "FoundingMissionInstalled",
    "RootAuthorityAppointed", "R0HardCeilingSet", "OperatingCycleProposed",
    "OperatingCycleStateChanged", "RootAuthorityOfficeSessionStarted",
    "RootAuthorityOfficeSessionStateChanged", "OfficeTurnOpened",
    "OfficeTurnSettled", "BudgetReserved", "BudgetReconciled",
    "BudgetAdmissionFrozen", "CancellationRequested",
    "CancellationReconciled"})

EventFields2 == EventInOrder(
    {"CostPostmortemClosed", "ProjectCreated", "ProjectChartered",
    "ProjectStateChanged", "ProjectMilestoneCompleted", "TicketCreated",
    "TicketStateChanged", "GraphObjectRevisionAdded",
    "GraphRevisionCommitted", "GraphEdgeAdded", "EpisodeCreated",
    "EpisodeStateChanged", "AdversarialReviewRequested",
    "AdversarialReviewerAssigned", "AdversarialReviewResolved",
    "ReviewChallengeSubmitted", "ReviewChallengeResponded",
    "ReviewChallengeDispositioned", "PostmortemTriggered", "PostmortemClosed",
    "PostmortemCausalClaimRecorded", "PostmortemActionProposed",
    "ActorConfigurationRegistered", "ContextPackRegistered",
    "ActorInstanceAdmitted", "TicketAdmitted", "WorkItemRegistered"})

EventFields3 == EventInOrder(
    {"WorkItemClaimed", "ActorAttemptStarted", "ActorAttemptTerminalAttested",
    "TicketAttemptValidated", "ActorAttemptRetryPrepared", "WorkLeaseExpired",
    "ActorAttemptCancellationRequested", "OutcomeObligationRegistered",
    "OutcomeObligationResolved", "ContentSealReceiptRecorded",
    "ContentObjectRegistered", "ForensicManifestRegistered",
    "DeterministicEvaluatorForensicManifestRegistered",
    "DeterministicExperimentRegistered",
    "DeterministicEvaluationReceiptRecorded", "DeterministicEvidenceAdmitted",
    "DeterministicExperimentFinalized"}) @@ [TicketCompleted |-> <<2, 1>>]

EventFields4 == EventInOrder(
    {"DeterministicEvaluatorNativeChildAdmitted",
    "DeterministicEvaluatorNativeChildSpawnRecorded", "PiChildSpawnAdmitted",
    "InertPiChildSpawnRecorded", "PiAdapterReadyRecorded",
    "PiSessionReadyRecorded", "PiAbortControlDeliveryRecorded",
    "PiCreateSessionAuthorized", "PiCreateSessionDeliveryRecorded",
    "ChildStreamSealed", "ChildProcessLivenessObserved",
    "ProcessSignalReceiptRecorded", "DirectChildReaped",
    "ChildRecoveryObserved"})

EventFields5 == EventInOrder(
    {"ChildProcessFinalized", "CancellationPropagationBegun",
    "CancellationPropagationReconciled", "SupervisorEpochOpened",
    "CancellationPropagationContainmentFailed", "NativeChildSpawnInvalidated",
    "PiOfficeTurnPromptAuthorized", "PiOfficeTurnPromptDelivered",
    "PiOfficeTurnPromptAccepted", "PiOfficeTurnUsageRecorded",
    "PiOfficeTurnUsageFrozen", "PiOfficeTurnTerminalRecorded",
    "PiOfficeSessionDisposeAuthorized", "PiOfficeSessionDisposeDelivered",
    "PiOfficeSessionDisposeAccepted", "PiOfficeSessionDisposeUsageRecorded",
    "PiOfficeSessionDisposeUsageFrozen"})

EventFields6 == EventInOrder(
    {"PiOfficeSessionDisposed", "PiTaskAttemptPromptAuthorized",
    "PiTaskAttemptPromptDelivered", "PiTaskAttemptPromptAccepted",
    "PiTaskAttemptUsageRecorded", "PiTaskAttemptUsageFrozen",
    "PiTaskAttemptTerminalRecorded", "PiTaskAttemptSessionDisposeAuthorized",
    "PiTaskAttemptSessionDisposeDelivered",
    "PiTaskAttemptSessionDisposeAccepted",
    "PiTaskAttemptSessionDisposeUsageRecorded",
    "PiTaskAttemptSessionDisposeUsageFrozen", "PiTaskAttemptSessionDisposed"})

EventFields7 == EventInOrder(
    {"NativeExecutionProfileQualified",
    "NativeExecutionProfileQualificationStarted",
    "StudyActorTaskAttemptLaunchClaimed",
    "NativeExecutionProfileQualificationLaunchClaimed",
    "StudyActorWorkAllocated", "StudyTransition"})

EventFields ==
    EventFields1 @@ EventFields2 @@ EventFields3 @@ EventFields4 @@
    EventFields5 @@ EventFields6 @@ EventFields7

\* insert_event_body: the column each field is written to.
EventInserts1 == EventInOrder(
    {"PiOfficeSessionDisposeAuthorized", "SocietyIdentityCreated",
    "RootAuthorityOfficeInstalled", "FoundingMissionInstalled",
    "RootAuthorityAppointed", "R0HardCeilingSet", "SocietyBootstrapped",
    "OperatingCycleProposed", "OperatingCycleStateChanged",
    "RootAuthorityOfficeSessionStarted",
    "RootAuthorityOfficeSessionStateChanged", "OfficeTurnOpened",
    "OfficeTurnSettled", "BudgetReserved", "BudgetReconciled",
    "BudgetAdmissionFrozen", "CancellationRequested",
    "CancellationReconciled", "CostPostmortemClosed"})

EventInserts2 == EventInOrder(
    {"ProjectCreated", "ProjectChartered", "ProjectStateChanged",
    "ProjectMilestoneCompleted", "TicketCreated", "TicketStateChanged",
    "GraphObjectRevisionAdded", "GraphRevisionCommitted", "GraphEdgeAdded",
    "EpisodeCreated", "EpisodeStateChanged", "AdversarialReviewRequested",
    "AdversarialReviewerAssigned", "ReviewChallengeSubmitted",
    "ReviewChallengeResponded"})

EventInserts3 == EventInOrder(
    {"ReviewChallengeDispositioned", "AdversarialReviewResolved",
    "PostmortemTriggered", "PostmortemCausalClaimRecorded",
    "PostmortemActionProposed", "PostmortemClosed",
    "ActorConfigurationRegistered", "ContextPackRegistered",
    "ActorInstanceAdmitted", "TicketAdmitted", "WorkItemRegistered",
    "WorkItemClaimed", "ActorAttemptStarted", "ActorAttemptTerminalAttested"})

EventInserts4 == EventInOrder(
    {"TicketAttemptValidated", "ActorAttemptRetryPrepared", "TicketCompleted",
    "WorkLeaseExpired", "ActorAttemptCancellationRequested",
    "OutcomeObligationRegistered", "OutcomeObligationResolved",
    "ContentSealReceiptRecorded", "ContentObjectRegistered",
    "ForensicManifestRegistered",
    "DeterministicEvaluatorForensicManifestRegistered"})

EventInserts5 == EventInOrder(
    {"DeterministicExperimentRegistered",
    "DeterministicEvaluationReceiptRecorded", "DeterministicEvidenceAdmitted",
    "DeterministicExperimentFinalized",
    "DeterministicEvaluatorNativeChildAdmitted",
    "DeterministicEvaluatorNativeChildSpawnRecorded", "PiChildSpawnAdmitted",
    "InertPiChildSpawnRecorded", "PiAdapterReadyRecorded",
    "PiCreateSessionAuthorized"})

EventInserts6 == EventInOrder(
    {"PiCreateSessionDeliveryRecorded", "PiSessionReadyRecorded",
    "PiAbortControlDeliveryRecorded", "ChildStreamSealed",
    "ChildProcessLivenessObserved", "ProcessSignalReceiptRecorded",
    "DirectChildReaped", "ChildRecoveryObserved", "ChildProcessFinalized",
    "CancellationPropagationBegun"})

EventInserts7 == EventInOrder(
    {"CancellationPropagationReconciled", "SupervisorEpochOpened",
    "CancellationPropagationContainmentFailed", "NativeChildSpawnInvalidated",
    "PiOfficeTurnPromptAuthorized", "PiOfficeTurnPromptDelivered",
    "PiOfficeTurnPromptAccepted", "PiOfficeTurnUsageRecorded",
    "PiOfficeTurnUsageFrozen", "PiOfficeTurnTerminalRecorded",
    "PiOfficeSessionDisposeDelivered", "PiOfficeSessionDisposeAccepted"})

EventInserts8 == EventInOrder(
    {"PiOfficeSessionDisposeUsageRecorded",
    "PiOfficeSessionDisposeUsageFrozen", "PiOfficeSessionDisposed",
    "PiTaskAttemptPromptAuthorized", "PiTaskAttemptPromptDelivered",
    "PiTaskAttemptPromptAccepted", "PiTaskAttemptUsageRecorded",
    "PiTaskAttemptUsageFrozen", "PiTaskAttemptTerminalRecorded",
    "PiTaskAttemptSessionDisposeAuthorized",
    "PiTaskAttemptSessionDisposeDelivered",
    "PiTaskAttemptSessionDisposeAccepted",
    "PiTaskAttemptSessionDisposeUsageRecorded"})

EventInserts9 == EventInOrder(
    {"PiTaskAttemptSessionDisposeUsageFrozen", "PiTaskAttemptSessionDisposed",
    "NativeExecutionProfileQualified",
    "NativeExecutionProfileQualificationStarted",
    "StudyActorTaskAttemptLaunchClaimed",
    "NativeExecutionProfileQualificationLaunchClaimed",
    "StudyActorWorkAllocated", "StudyTransition"})

EventInserts ==
    EventInserts1 @@ EventInserts2 @@ EventInserts3 @@ EventInserts4 @@
    EventInserts5 @@ EventInserts6 @@ EventInserts7 @@ EventInserts8 @@
    EventInserts9

\* decode_event_body: the column each field is read from.
EventReads1 == EventInOrder(
    {"SocietyIdentityCreated", "RootAuthorityOfficeInstalled",
    "FoundingMissionInstalled", "RootAuthorityAppointed", "R0HardCeilingSet",
    "SocietyBootstrapped", "OperatingCycleProposed",
    "OperatingCycleStateChanged", "RootAuthorityOfficeSessionStarted",
    "RootAuthorityOfficeSessionStateChanged", "OfficeTurnOpened",
    "OfficeTurnSettled", "BudgetReserved", "BudgetReconciled"})

EventReads2 == EventInOrder(
    {"BudgetAdmissionFrozen", "CancellationRequested",
    "CancellationReconciled", "CostPostmortemClosed", "ProjectCreated",
    "ProjectChartered", "ProjectStateChanged", "ProjectMilestoneCompleted",
    "TicketCreated", "TicketStateChanged", "GraphObjectRevisionAdded",
    "GraphRevisionCommitted", "GraphEdgeAdded", "EpisodeCreated"})

EventReads3 == EventInOrder(
    {"EpisodeStateChanged", "AdversarialReviewRequested",
    "AdversarialReviewerAssigned", "ReviewChallengeSubmitted",
    "ReviewChallengeResponded", "ReviewChallengeDispositioned",
    "AdversarialReviewResolved", "PostmortemTriggered",
    "PostmortemCausalClaimRecorded", "PostmortemActionProposed",
    "PostmortemClosed", "ActorConfigurationRegistered",
    "ContextPackRegistered", "ActorInstanceAdmitted", "TicketAdmitted"})

EventReads4 == EventInOrder(
    {"WorkItemRegistered", "WorkItemClaimed", "ActorAttemptStarted",
    "ActorAttemptTerminalAttested", "TicketAttemptValidated",
    "ActorAttemptRetryPrepared", "TicketCompleted", "WorkLeaseExpired",
    "ActorAttemptCancellationRequested", "OutcomeObligationRegistered",
    "OutcomeObligationResolved", "ContentSealReceiptRecorded",
    "ContentObjectRegistered"})

EventReads5 == EventInOrder(
    {"ForensicManifestRegistered",
    "DeterministicEvaluatorForensicManifestRegistered",
    "DeterministicExperimentRegistered",
    "DeterministicEvaluationReceiptRecorded", "DeterministicEvidenceAdmitted",
    "DeterministicExperimentFinalized",
    "DeterministicEvaluatorNativeChildAdmitted",
    "DeterministicEvaluatorNativeChildSpawnRecorded", "PiChildSpawnAdmitted"})

EventReads6 == EventInOrder(
    {"InertPiChildSpawnRecorded", "PiAdapterReadyRecorded",
    "PiCreateSessionAuthorized", "PiCreateSessionDeliveryRecorded",
    "PiSessionReadyRecorded", "PiAbortControlDeliveryRecorded",
    "ChildStreamSealed", "ChildProcessLivenessObserved",
    "ProcessSignalReceiptRecorded", "DirectChildReaped",
    "ChildRecoveryObserved", "ChildProcessFinalized",
    "CancellationPropagationBegun"})

EventReads7 == EventInOrder(
    {"CancellationPropagationReconciled", "SupervisorEpochOpened",
    "CancellationPropagationContainmentFailed", "NativeChildSpawnInvalidated",
    "PiOfficeTurnPromptAuthorized", "PiOfficeTurnPromptDelivered",
    "PiOfficeTurnPromptAccepted", "PiOfficeTurnUsageRecorded",
    "PiOfficeTurnUsageFrozen", "PiOfficeTurnTerminalRecorded"})

EventReads8 == EventInOrder(
    {"PiOfficeSessionDisposeAuthorized", "PiOfficeSessionDisposeDelivered",
    "PiOfficeSessionDisposeAccepted", "PiOfficeSessionDisposeUsageRecorded",
    "PiOfficeSessionDisposeUsageFrozen"})

EventReads9 == EventInOrder(
    {"PiOfficeSessionDisposed", "PiTaskAttemptPromptAuthorized",
    "PiTaskAttemptPromptDelivered", "PiTaskAttemptPromptAccepted",
    "PiTaskAttemptUsageRecorded", "PiTaskAttemptUsageFrozen",
    "PiTaskAttemptTerminalRecorded", "PiTaskAttemptSessionDisposeAuthorized",
    "PiTaskAttemptSessionDisposeDelivered"})

EventReads10 == EventInOrder(
    {"PiTaskAttemptSessionDisposeAccepted",
    "PiTaskAttemptSessionDisposeUsageRecorded",
    "PiTaskAttemptSessionDisposeUsageFrozen", "PiTaskAttemptSessionDisposed",
    "NativeExecutionProfileQualificationStarted",
    "StudyActorTaskAttemptLaunchClaimed"})

EventReads11 == EventInOrder(
    {"NativeExecutionProfileQualificationLaunchClaimed",
    "StudyActorWorkAllocated", "NativeExecutionProfileQualified",
    "StudyTransition"})

EventReads ==
    EventReads1 @@ EventReads2 @@ EventReads3 @@ EventReads4 @@ EventReads5 @@
    EventReads6 @@ EventReads7 @@ EventReads8 @@ EventReads9 @@ EventReads10
    @@ EventReads11

=============================================================================
