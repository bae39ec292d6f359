-------------------------- MODULE CommandAuthority --------------------------
(***************************************************************************)
(* Which command, event and capability every code stands for, who may ask  *)
(* for which command, and the event an accepted command leaves.            *)
(***************************************************************************)
EXTENDS Naturals, Sequences, TLC

-----------------------------------------------------------------------------
(* The codes.  A kind is stored as its position in these lists.            *)

CommandKinds ==
    <<"CreateSocietyIdentity", "InstallRootAuthorityOffice",
      "InstallFoundingMission", "AppointInitialRootAuthority",
      "SetR0HardCeiling", "BootstrapSociety", "ProposeOperatingCycle",
      "AdmitOperatingCycle", "StartRootAuthorityOfficeSession",
      "RecordOfficeSessionReady", "OpenOfficeTurn", "SettleOfficeTurn",
      "QuiesceOperatingCycle", "RecordCycleDrained", "ResumeOperatingCycle",
      "ReconcileOperatingCycle", "CloseOperatingCycle", "ReserveBudget",
      "ReconcileBudget", "RequestCancellation", "ReconcileCancellation",
      "RecordOfficeSessionTerminal", "CloseCostPostmortem", "CreateProject",
      "CharterProject", "TransitionProject", "CompleteProjectMilestone",
      "ReopenProject", "CreateTicket", "TransitionTicket",
      "AddGraphObjectRevision", "CommitGraphRevision", "AddGraphEdge",
      "CreateEpisode", "TransitionEpisode", "ReopenEpisode",
      "RequestAdversarialReview", "SubmitReviewChallenge",
      "RespondToReviewChallenge", "DispositionReviewChallenge",
      "ResolveAdversarialReview", "TriggerPostmortem",
      "RecordPostmortemCausalClaim", "ProposePostmortemAction",
      "ClosePostmortem", "AssignAdversarialReviewer",
      "RegisterActorConfiguration", "RegisterContextPack",
      "AdmitActorInstance", "AdmitTicket", "RegisterWorkItem",
      "ClaimWorkItem", "StartActorAttempt", "AttestActorAttemptTerminal",
      "ValidateTicketAttempt", "RetryActorAttempt", "CompleteTicket",
      "ExpireWorkLease", "CancelActorAttempt", "RegisterOutcomeObligation",
      "ResolveOutcomeObligation", "RecordContentSealReceipt",
      "RegisterContentObject", "RegisterForensicManifest",
      "RegisterDeterministicExperiment",
      "RecordDeterministicEvaluationReceipt", "AdmitDeterministicEvidence",
      "FinalizeDeterministicExperiment", "AdmitPiChildSpawn",
      "RecordInertChildSpawn", "RecordPiAdapterReady",
      "AuthorizePiCreateSession", "RecordPiCreateSessionDelivery",
      "RecordPiSessionReady", "RecordChildStreamSeal",
      "RecordChildProcessLiveness", "RecordProcessSignalReceipt",
      "RecordDirectChildReap", "RecordChildRecovery", "FinalizeChildProcess",
      "BeginCancellationPropagation", "ReconcileCancellationPropagation",
      "OpenSupervisorEpoch", "RecordPiAbortControlDelivery",
      "RecordNativeChildNotSpawned", "AuthorizePiOfficeTurnPrompt",
      "RecordPiOfficeTurnPromptDelivery", "RecordPiOfficeTurnPromptAccepted",
      "RecordPiOfficeTurnUsage", "RecordPiOfficeTurnUsageFailure",
      "RecordPiOfficeTurnTerminal", "AuthorizePiOfficeSessionDispose",
      "RecordPiOfficeSessionDisposeDelivery",
      "RecordPiOfficeSessionDisposeAccepted",
      "RecordPiOfficeSessionDisposeUsage",
      "RecordPiOfficeSessionDisposeUsageFailure",
      "RecordPiOfficeSessionDisposed",
      "AdmitDeterministicEvaluatorNativeChild",
      "RecordDeterministicEvaluatorNativeChildSpawn",
      "RegisterDeterministicEvaluatorForensicManifest", "StudyTransition",
      "AuthorizePiTaskAttemptPrompt", "RecordPiTaskAttemptPromptDelivery",
      "RecordPiTaskAttemptPromptAccepted", "RecordPiTaskAttemptUsage",
      "RecordPiTaskAttemptUsageFailure", "RecordPiTaskAttemptTerminal",
      "AuthorizePiTaskAttemptSessionDispose",
      "RecordPiTaskAttemptSessionDisposeDelivery",
      "RecordPiTaskAttemptSessionDisposeAccepted",
      "RecordPiTaskAttemptSessionDisposeUsage",
      "RecordPiTaskAttemptSessionDisposeUsageFailure",
      "RecordPiTaskAttemptSessionDisposed", "QualifyNativeExecutionProfile",
      "StartNativeExecutionProfileQualification",
      "ClaimStudyActorTaskAttemptLaunch",
      "ClaimNativeExecutionProfileQualificationLaunch",
      "AllocateStudyActorWork">>

EventKinds ==
    <<"SocietyIdentityCreated", "RootAuthorityOfficeInstalled",
      "FoundingMissionInstalled", "RootAuthorityAppointed",
      "R0HardCeilingSet", "SocietyBootstrapped", "OperatingCycleProposed",
      "OperatingCycleStateChanged", "RootAuthorityOfficeSessionStarted",
      "RootAuthorityOfficeSessionStateChanged", "OfficeTurnOpened",
      "OfficeTurnSettled", "BudgetReserved", "BudgetReconciled",
      "BudgetAdmissionFrozen", "CancellationRequested",
      "CancellationReconciled", "CostPostmortemClosed", "ProjectCreated",
      "ProjectChartered", "ProjectStateChanged", "ProjectMilestoneCompleted",
      "TicketCreated", "TicketStateChanged", "GraphObjectRevisionAdded",
      "GraphRevisionCommitted", "GraphEdgeAdded", "EpisodeCreated",
      "EpisodeStateChanged", "AdversarialReviewRequested",
      "ReviewChallengeSubmitted", "ReviewChallengeResponded",
      "ReviewChallengeDispositioned", "AdversarialReviewResolved",
      "PostmortemTriggered", "PostmortemCausalClaimRecorded",
      "PostmortemActionProposed", "PostmortemClosed",
      "AdversarialReviewerAssigned", "ActorConfigurationRegistered",
      "ContextPackRegistered", "ActorInstanceAdmitted", "TicketAdmitted",
      "WorkItemRegistered", "WorkItemClaimed", "ActorAttemptStarted",
      "ActorAttemptTerminalAttested", "TicketAttemptValidated",
      "ActorAttemptRetryPrepared", "TicketCompleted", "WorkLeaseExpired",
      "ActorAttemptCancellationRequested", "OutcomeObligationRegistered",
      "OutcomeObligationResolved", "ContentSealReceiptRecorded",
      "ContentObjectRegistered", "ForensicManifestRegistered",
      "DeterministicExperimentRegistered",
      "DeterministicEvaluationReceiptRecorded",
      "DeterministicEvidenceAdmitted", "DeterministicExperimentFinalized",
      "PiChildSpawnAdmitted", "InertPiChildSpawnRecorded",
      "PiAdapterReadyRecorded", "PiCreateSessionAuthorized",
      "PiCreateSessionDeliveryRecorded", "PiSessionReadyRecorded",
      "ChildStreamSealed", "ChildProcessLivenessObserved",
      "ProcessSignalReceiptRecorded", "DirectChildReaped",
      "ChildRecoveryObserved", "ChildProcessFinalized",
      "CancellationPropagationBegun", "CancellationPropagationReconciled",
      "SupervisorEpochOpened", "CancellationPropagationContainmentFailed",
      "PiAbortControlDeliveryRecorded", "NativeChildSpawnInvalidated",
      "PiOfficeTurnPromptAuthorized", "PiOfficeTurnPromptDelivered",
      "PiOfficeTurnPromptAccepted", "PiOfficeTurnUsageRecorded",
      "PiOfficeTurnUsageFrozen", "PiOfficeTurnTerminalRecorded",
      "PiOfficeSessionDisposeAuthorized", "PiOfficeSessionDisposeDelivered",
      "PiOfficeSessionDisposeAccepted", "PiOfficeSessionDisposeUsageRecorded",
      "PiOfficeSessionDisposeUsageFrozen", "PiOfficeSessionDisposed",
      "DeterministicEvaluatorNativeChildAdmitted",
      "DeterministicEvaluatorNativeChildSpawnRecorded",
      "DeterministicEvaluatorForensicManifestRegistered", "StudyTransition",
      "PiTaskAttemptPromptAuthorized", "PiTaskAttemptPromptDelivered",
      "PiTaskAttemptPromptAccepted", "PiTaskAttemptUsageRecorded",
      "PiTaskAttemptUsageFrozen", "PiTaskAttemptTerminalRecorded",
      "PiTaskAttemptSessionDisposeAuthorized",
      "PiTaskAttemptSessionDisposeDelivered",
      "PiTaskAttemptSessionDisposeAccepted",
      "PiTaskAttemptSessionDisposeUsageRecorded",
      "PiTaskAttemptSessionDisposeUsageFrozen",
      "PiTaskAttemptSessionDisposed", "NativeExecutionProfileQualified",
      "NativeExecutionProfileQualificationStarted",
      "StudyActorTaskAttemptLaunchClaimed",
      "NativeExecutionProfileQualificationLaunchClaimed",
      "StudyActorWorkAllocated">>

\* The capabilities follow the commands from the 21st on.
Capabilities ==
    <<"CreateSocietyIdentity", "InstallRootAuthorityOffice",
      "InstallFoundingMission", "AppointInitialRootAuthority",
      "SetR0HardCeiling", "BootstrapSociety", "ProposeOperatingCycle",
      "AdmitOperatingCycle", "QuiesceOperatingCycle", "ResumeOperatingCycle",
      "ReconcileOperatingCycle", "CloseOperatingCycle",
      "StartRootAuthorityOfficeSession", "OpenOfficeTurn",
      "RequestCancellation", "ReserveBudget", "ReconcileBudget",
      "RecordCycleDrained", "RecordOfficeSessionReady", "SettleOfficeTurn">>
    \o [SubSeq(CommandKinds, 21, Len(CommandKinds))
           EXCEPT ![101 - 20] = "RunStudyTransition"]

StudyCommandKinds ==
    <<"AdmitProtocolRevision", "AdmitWorldRevision",
      "AdmitMeasurementRevision", "AdmitInstitutionRevision",
      "AdmitPopulationSnapshot", "AdmitEpisode", "AssignTreatment",
      "AdmitMatchedPair", "CreateEpisodeForum", "OpenForumThread",
      "AdmitActorObligation", "CompleteActorObligation", "FreezeForumHead",
      "ReplacePopulation", "AdmitForumExposure", "PublishForumMessage",
      "ReleaseMatchedCorrection", "ReadForum", "RecordDecision",
      "RecordMeasurementResult", "CloseEpisode", "ForkEpisode",
      "RetractForumMessage", "FailActorObligation", "RevealGroundTruth",
      "BindActorRuntime", "ReconcileActorRuntime",
      "BindActorTaskAttemptRuntime", "AdmitStudyRun", "RegisterStudyRunPair",
      "StartStudyRun", "SettleActorTaskAttemptAfterRecovery",
      "CompleteStudyRun">>

StudyEventKinds ==
    <<"ProtocolRevisionAdmitted", "WorldRevisionAdmitted",
      "MeasurementRevisionAdmitted", "InstitutionRevisionAdmitted",
      "PopulationSnapshotAdmitted", "EpisodeAdmitted", "TreatmentAssigned",
      "MatchedPairAdmitted", "EpisodeForumCreated", "ForumThreadOpened",
      "ActorObligationAdmitted", "ActorObligationCompleted",
      "ForumHeadFrozen", "PopulationReplaced", "ForumExposureAdmitted",
      "ForumMessagePublished", "MatchedCorrectionReleased",
      "ForumMessagesRead", "DecisionRecorded", "MeasurementResultRecorded",
      "EpisodeClosed", "ExperimentalForkCreated", "ForumMessageRetracted",
      "ActorObligationFailed", "GroundTruthRevealed", "ActorRuntimeBound",
      "ActorRuntimeReconciled", "ActorTaskAttemptRuntimeBound",
      "StudyRunAdmitted", "StudyRunPairRegistered", "StudyRunStarted",
      "ActorTaskAttemptRecoverySettled", "StudyRunCompleted">>

\* The decoders accept exactly those codes.
StoredCommandKinds == CommandKinds

StoredEventKinds == EventKinds

StoredCapabilities == Capabilities

StoredStudyCommandKinds == StudyCommandKinds

StoredStudyEventKinds == StudyEventKinds

\* The code of a body's kind.
CommandCode(kind) == CHOOSE i \in DOMAIN CommandKinds : CommandKinds[i] = kind

EventCode(kind) == CHOOSE i \in DOMAIN EventKinds : EventKinds[i] = kind

StudyCommandCode(kind) == CHOOSE i \in DOMAIN StudyCommandKinds : StudyCommandKinds[i] = kind

StudyEventCode(kind) == CHOOSE i \in DOMAIN StudyEventKinds : StudyEventKinds[i] = kind

CapabilityCode(capability) ==
    CHOOSE i \in DOMAIN Capabilities : Capabilities[i] = capability

-----------------------------------------------------------------------------
(* Who may ask.                                                            *)

RequiredCapability(kind) == IF kind = "StudyTransition" THEN "RunStudyTransition" ELSE kind

FOUNDING ==
    {"CreateSocietyIdentity", "InstallRootAuthorityOffice",
     "InstallFoundingMission", "AppointInitialRootAuthority",
     "SetR0HardCeiling", "BootstrapSociety", "ProposeOperatingCycle",
     "AdmitOperatingCycle"}

ROOT_AUTHORITY ==
    {"ProposeOperatingCycle", "AdmitOperatingCycle", "QuiesceOperatingCycle",
     "ResumeOperatingCycle", "ReconcileOperatingCycle", "CloseOperatingCycle",
     "StartRootAuthorityOfficeSession", "OpenOfficeTurn",
     "RequestCancellation", "ReserveBudget", "CloseCostPostmortem",
     "CreateProject", "CharterProject", "TransitionProject",
     "CompleteProjectMilestone", "ReopenProject", "CreateTicket",
     "TransitionTicket", "AddGraphObjectRevision", "CommitGraphRevision",
     "AddGraphEdge", "CreateEpisode", "TransitionEpisode", "ReopenEpisode",
     "RequestAdversarialReview", "RespondToReviewChallenge",
     "DispositionReviewChallenge", "ResolveAdversarialReview",
     "TriggerPostmortem", "RecordPostmortemCausalClaim",
     "ProposePostmortemAction", "ClosePostmortem",
     "RegisterActorConfiguration", "RegisterContextPack",
     "AdmitActorInstance", "AdmitTicket", "RegisterWorkItem",
     "StartActorAttempt", "RetryActorAttempt", "CompleteTicket",
     "RegisterOutcomeObligation", "ResolveOutcomeObligation",
     "RegisterDeterministicExperiment", "FinalizeDeterministicExperiment",
     "AllocateStudyActorWork"}

KERNEL_SERVICE ==
    {"QuiesceOperatingCycle", "ReconcileOperatingCycle",
     "CloseOperatingCycle", "ReserveBudget", "RecordCycleDrained",
     "RecordOfficeSessionReady", "SettleOfficeTurn", "ReconcileBudget",
     "ReconcileCancellation", "RecordOfficeSessionTerminal",
     "SubmitReviewChallenge", "AssignAdversarialReviewer",
     "AttestActorAttemptTerminal", "ValidateTicketAttempt", "ExpireWorkLease",
     "CancelActorAttempt", "RecordContentSealReceipt",
     "RegisterContentObject", "RegisterForensicManifest",
     "RecordDeterministicEvaluationReceipt", "AdmitDeterministicEvidence",
     "AdmitPiChildSpawn", "RecordInertChildSpawn", "RecordPiAdapterReady",
     "AuthorizePiCreateSession", "RecordPiCreateSessionDelivery",
     "RecordPiSessionReady", "RecordChildStreamSeal",
     "RecordChildProcessLiveness", "RecordProcessSignalReceipt",
     "RecordDirectChildReap", "RecordChildRecovery", "FinalizeChildProcess",
     "BeginCancellationPropagation", "ReconcileCancellationPropagation",
     "OpenSupervisorEpoch", "RecordPiAbortControlDelivery",
     "RecordNativeChildNotSpawned", "AuthorizePiOfficeTurnPrompt",
     "RecordPiOfficeTurnPromptDelivery", "RecordPiOfficeTurnPromptAccepted",
     "RecordPiOfficeTurnUsage", "RecordPiOfficeTurnUsageFailure",
     "RecordPiOfficeTurnTerminal", "AuthorizePiOfficeSessionDispose",
     "RecordPiOfficeSessionDisposeDelivery",
     "RecordPiOfficeSessionDisposeAccepted",
     "RecordPiOfficeSessionDisposeUsage",
     "RecordPiOfficeSessionDisposeUsageFailure",
     "RecordPiOfficeSessionDisposed",
     "AdmitDeterministicEvaluatorNativeChild",
     "RecordDeterministicEvaluatorNativeChildSpawn",
     "RegisterDeterministicEvaluatorForensicManifest", "RunStudyTransition",
     "AuthorizePiTaskAttemptPrompt", "RecordPiTaskAttemptPromptDelivery",
     "RecordPiTaskAttemptPromptAccepted", "RecordPiTaskAttemptUsage",
     "RecordPiTaskAttemptUsageFailure", "RecordPiTaskAttemptTerminal",
     "AuthorizePiTaskAttemptSessionDispose",
     "RecordPiTaskAttemptSessionDisposeDelivery",
     "RecordPiTaskAttemptSessionDisposeAccepted",
     "RecordPiTaskAttemptSessionDisposeUsage",
     "RecordPiTaskAttemptSessionDisposeUsageFailure",
     "RecordPiTaskAttemptSessionDisposed", "QualifyNativeExecutionProfile",
     "StartNativeExecutionProfileQualification",
     "ClaimStudyActorTaskAttemptLaunch",
     "ClaimNativeExecutionProfileQualificationLaunch"}

\* An accepted founding command spends the bootstrap grant it used.
RequiresConsumption(capability) == capability \in FOUNDING

\* Every command names the admission generation it was decided under, except
\* the founding ones and the records of facts that no generation can undo.
CarriesGeneration(kind) ==
    kind \notin
        {"CreateSocietyIdentity", "InstallRootAuthorityOffice",
         "InstallFoundingMission", "AppointInitialRootAuthority",
         "SetR0HardCeiling", "BootstrapSociety", "ProposeOperatingCycle",
         "SettleOfficeTurn", "RecordCycleDrained", "ReconcileBudget",
         "ReconcileCancellation", "RegisterActorConfiguration",
         "AttestActorAttemptTerminal", "ExpireWorkLease",
         "CancelActorAttempt", "RecordContentSealReceipt",
         "RegisterContentObject", "OpenSupervisorEpoch", "StudyTransition"}

\* The commands whose operating cycle the treatment fence looks up; it lets
\* every other command through.
CycleScoped(kind) ==
    kind \notin
        {"CreateSocietyIdentity", "InstallRootAuthorityOffice",
         "InstallFoundingMission", "AppointInitialRootAuthority",
         "SetR0HardCeiling", "BootstrapSociety", "ProposeOperatingCycle",
         "RegisterActorConfiguration", "RecordContentSealReceipt",
         "RegisterContentObject", "AdmitPiChildSpawn",
         "RecordInertChildSpawn", "RecordPiAdapterReady",
         "AuthorizePiCreateSession", "RecordPiCreateSessionDelivery",
         "RecordPiSessionReady", "RecordChildStreamSeal",
         "RecordChildProcessLiveness", "RecordProcessSignalReceipt",
         "RecordDirectChildReap", "RecordChildRecovery",
         "FinalizeChildProcess", "BeginCancellationPropagation",
         "ReconcileCancellationPropagation", "OpenSupervisorEpoch",
         "RecordPiAbortControlDelivery", "RecordNativeChildNotSpawned",
         "AuthorizePiOfficeTurnPrompt", "RecordPiOfficeTurnPromptDelivery",
         "RecordPiOfficeTurnPromptAccepted", "RecordPiOfficeTurnUsage",
         "RecordPiOfficeTurnUsageFailure", "RecordPiOfficeTurnTerminal",
         "AuthorizePiOfficeSessionDispose",
         "RecordPiOfficeSessionDisposeDelivery",
         "RecordPiOfficeSessionDisposeAccepted",
         "RecordPiOfficeSessionDisposeUsage",
         "RecordPiOfficeSessionDisposeUsageFailure",
         "RecordPiOfficeSessionDisposed",
         "RecordDeterministicEvaluatorNativeChildSpawn", "StudyTransition"}

\* What the kernel may still do in the cycle of a qualification run.
QualificationKernelWork ==
    {"RecordOfficeSessionReady", "SettleOfficeTurn", "QuiesceOperatingCycle",
     "RecordCycleDrained", "ReconcileOperatingCycle", "CloseOperatingCycle",
     "ReserveBudget", "ReconcileBudget", "ReconcileCancellation",
     "RecordOfficeSessionTerminal", "AttestActorAttemptTerminal",
     "ExpireWorkLease", "CancelActorAttempt", "AdmitPiChildSpawn",
     "RecordInertChildSpawn", "RecordPiAdapterReady",
     "AuthorizePiCreateSession", "RecordPiCreateSessionDelivery",
     "RecordPiSessionReady", "RecordChildStreamSeal",
     "RecordChildProcessLiveness", "RecordProcessSignalReceipt",
     "RecordDirectChildReap", "FinalizeChildProcess",
     "QualifyNativeExecutionProfile",
     "StartNativeExecutionProfileQualification",
     "ClaimNativeExecutionProfileQualificationLaunch"}

\* The command families a supervisor's frame can carry.
WireKinds ==
    {"CreateSocietyIdentity", "InstallRootAuthorityOffice",
     "InstallFoundingMission", "AppointInitialRootAuthority",
     "SetR0HardCeiling", "BootstrapSociety", "ProposeOperatingCycle",
     "AdmitOperatingCycle", "StartRootAuthorityOfficeSession",
     "OpenOfficeTurn", "QuiesceOperatingCycle", "ResumeOperatingCycle",
     "ReconcileOperatingCycle", "CloseOperatingCycle", "ReserveBudget"}

-----------------------------------------------------------------------------
(* The event an accepted command leaves.  Ticket transitions are refused   *)
(* outright; a reconciled budget or a finished propagation has two ends.   *)

Outcome1 == [
    CreateSocietyIdentity |-> {"SocietyIdentityCreated"},
    InstallRootAuthorityOffice |-> {"RootAuthorityOfficeInstalled"},
    InstallFoundingMission |-> {"FoundingMissionInstalled"},
    AppointInitialRootAuthority |-> {"RootAuthorityAppointed"},
    SetR0HardCeiling |-> {"R0HardCeilingSet"},
    BootstrapSociety |-> {"SocietyBootstrapped"},
    ProposeOperatingCycle |-> {"OperatingCycleProposed"},
    AdmitOperatingCycle |-> {"OperatingCycleStateChanged"},
    StartRootAuthorityOfficeSession |-> {"RootAuthorityOfficeSessionStarted"},
    StartNativeExecutionProfileQualification |-> {"NativeExecutionProfileQualificationStarted"},
    RecordOfficeSessionReady |-> {"RootAuthorityOfficeSessionStateChanged"},
    RecordOfficeSessionTerminal |-> {"RootAuthorityOfficeSessionStateChanged"},
    OpenOfficeTurn |-> {"OfficeTurnOpened"},
    SettleOfficeTurn |-> {"OfficeTurnSettled"},
    QuiesceOperatingCycle |-> {"OperatingCycleStateChanged"},
    RecordCycleDrained |-> {"OperatingCycleStateChanged"},
    ResumeOperatingCycle |-> {"OperatingCycleStateChanged"},
    ReconcileOperatingCycle |-> {"OperatingCycleStateChanged"},
    CloseOperatingCycle |-> {"OperatingCycleStateChanged"},
    ReserveBudget |-> {"BudgetReserved"},
    ReconcileBudget |-> {"BudgetReconciled", "BudgetAdmissionFrozen"},
    RequestCancellation |-> {"CancellationRequested"},
    ReconcileCancellation |-> {"CancellationReconciled"},
    CloseCostPostmortem |-> {"CostPostmortemClosed"},
    CreateProject |-> {"ProjectCreated"}]

Outcome2 == [
    CharterProject |-> {"ProjectChartered"},
    TransitionProject |-> {"ProjectStateChanged"},
    CompleteProjectMilestone |-> {"ProjectMilestoneCompleted"},
    ReopenProject |-> {"ProjectStateChanged"},
    CreateTicket |-> {"TicketCreated"},
    TransitionTicket |-> {},
    AddGraphObjectRevision |-> {"GraphObjectRevisionAdded"},
    CommitGraphRevision |-> {"GraphRevisionCommitted"},
    AddGraphEdge |-> {"GraphEdgeAdded"},
    CreateEpisode |-> {"EpisodeCreated"},
    TransitionEpisode |-> {"EpisodeStateChanged"},
    ReopenEpisode |-> {"EpisodeStateChanged"}]

Outcome3 == [
    RequestAdversarialReview |-> {"AdversarialReviewRequested"},
    AssignAdversarialReviewer |-> {"AdversarialReviewerAssigned"},
    SubmitReviewChallenge |-> {"ReviewChallengeSubmitted"},
    RespondToReviewChallenge |-> {"ReviewChallengeResponded"},
    DispositionReviewChallenge |-> {"ReviewChallengeDispositioned"},
    ResolveAdversarialReview |-> {"AdversarialReviewResolved"},
    TriggerPostmortem |-> {"PostmortemTriggered"},
    RecordPostmortemCausalClaim |-> {"PostmortemCausalClaimRecorded"},
    ProposePostmortemAction |-> {"PostmortemActionProposed"},
    ClosePostmortem |-> {"PostmortemClosed"},
    RegisterActorConfiguration |-> {"ActorConfigurationRegistered"}]

Outcome4 == [
    RegisterContextPack |-> {"ContextPackRegistered"},
    AdmitActorInstance |-> {"ActorInstanceAdmitted"},
    AdmitTicket |-> {"TicketAdmitted"},
    RegisterWorkItem |-> {"WorkItemRegistered"},
    ClaimWorkItem |-> {"WorkItemClaimed"},
    StartActorAttempt |-> {"ActorAttemptStarted"},
    AttestActorAttemptTerminal |-> {"ActorAttemptTerminalAttested"},
    ValidateTicketAttempt |-> {"TicketAttemptValidated"},
    RetryActorAttempt |-> {"ActorAttemptRetryPrepared"},
    CompleteTicket |-> {"TicketCompleted"},
    ExpireWorkLease |-> {"WorkLeaseExpired"},
    CancelActorAttempt |-> {"ActorAttemptCancellationRequested"},
    RegisterOutcomeObligation |-> {"OutcomeObligationRegistered"},
    ResolveOutcomeObligation |-> {"OutcomeObligationResolved"}]

Outcome5 == [
    RecordContentSealReceipt |-> {"ContentSealReceiptRecorded"},
    RegisterContentObject |-> {"ContentObjectRegistered"},
    RegisterForensicManifest |-> {"ForensicManifestRegistered"},
    RegisterDeterministicEvaluatorForensicManifest |-> {"DeterministicEvaluatorForensicManifestRegistered"},
    RegisterDeterministicExperiment |-> {"DeterministicExperimentRegistered"},
    RecordDeterministicEvaluationReceipt |-> {"DeterministicEvaluationReceiptRecorded"},
    AdmitDeterministicEvidence |-> {"DeterministicEvidenceAdmitted"},
    FinalizeDeterministicExperiment |-> {"DeterministicExperimentFinalized"},
    AdmitDeterministicEvaluatorNativeChild |-> {"DeterministicEvaluatorNativeChildAdmitted"},
    RecordDeterministicEvaluatorNativeChildSpawn |-> {"DeterministicEvaluatorNativeChildSpawnRecorded"},
    OpenSupervisorEpoch |-> {"SupervisorEpochOpened"}]

Outcome6 == [
    AdmitPiChildSpawn |-> {"PiChildSpawnAdmitted"},
    RecordInertChildSpawn |-> {"InertPiChildSpawnRecorded"},
    RecordPiAdapterReady |-> {"PiAdapterReadyRecorded"},
    AuthorizePiCreateSession |-> {"PiCreateSessionAuthorized"},
    RecordPiCreateSessionDelivery |-> {"PiCreateSessionDeliveryRecorded"},
    RecordPiSessionReady |-> {"PiSessionReadyRecorded"},
    RecordPiAbortControlDelivery |-> {"PiAbortControlDeliveryRecorded"},
    RecordChildStreamSeal |-> {"ChildStreamSealed"},
    RecordChildProcessLiveness |-> {"ChildProcessLivenessObserved"}]

Outcome7 == [
    RecordProcessSignalReceipt |-> {"ProcessSignalReceiptRecorded"},
    RecordDirectChildReap |-> {"DirectChildReaped"},
    RecordChildRecovery |-> {"ChildRecoveryObserved"},
    FinalizeChildProcess |-> {"ChildProcessFinalized"},
    BeginCancellationPropagation |-> {"CancellationPropagationBegun"},
    ReconcileCancellationPropagation |-> {"CancellationPropagationContainmentFailed", "CancellationPropagationReconciled"},
    RecordNativeChildNotSpawned |-> {"NativeChildSpawnInvalidated"},
    AuthorizePiOfficeTurnPrompt |-> {"PiOfficeTurnPromptAuthorized"},
    RecordPiOfficeTurnPromptDelivery |-> {"PiOfficeTurnPromptDelivered"},
    RecordPiOfficeTurnPromptAccepted |-> {"PiOfficeTurnPromptAccepted"},
    RecordPiOfficeTurnUsage |-> {"PiOfficeTurnUsageRecorded"},
    RecordPiOfficeTurnUsageFailure |-> {"PiOfficeTurnUsageFrozen"}]

Outcome8 == [
    RecordPiOfficeTurnTerminal |-> {"PiOfficeTurnTerminalRecorded"},
    RecordPiOfficeSessionDisposeDelivery |-> {"PiOfficeSessionDisposeDelivered"},
    AuthorizePiOfficeSessionDispose |-> {"PiOfficeSessionDisposeAuthorized"},
    RecordPiOfficeSessionDisposeAccepted |-> {"PiOfficeSessionDisposeAccepted"},
    RecordPiOfficeSessionDisposeUsage |-> {"PiOfficeSessionDisposeUsageRecorded"},
    RecordPiOfficeSessionDisposeUsageFailure |-> {"PiOfficeSessionDisposeUsageFrozen"},
    RecordPiOfficeSessionDisposed |-> {"PiOfficeSessionDisposed"},
    AuthorizePiTaskAttemptPrompt |-> {"PiTaskAttemptPromptAuthorized"},
    RecordPiTaskAttemptPromptDelivery |-> {"PiTaskAttemptPromptDelivered"},
    RecordPiTaskAttemptPromptAccepted |-> {"PiTaskAttemptPromptAccepted"},
    RecordPiTaskAttemptUsage |-> {"PiTaskAttemptUsageRecorded"}]

Outcome9 == [
    RecordPiTaskAttemptUsageFailure |-> {"PiTaskAttemptUsageFrozen"},
    RecordPiTaskAttemptTerminal |-> {"PiTaskAttemptTerminalRecorded"},
    AuthorizePiTaskAttemptSessionDispose |-> {"PiTaskAttemptSessionDisposeAuthorized"},
    RecordPiTaskAttemptSessionDisposeDelivery |-> {"PiTaskAttemptSessionDisposeDelivered"},
    RecordPiTaskAttemptSessionDisposeAccepted |-> {"PiTaskAttemptSessionDisposeAccepted"},
    RecordPiTaskAttemptSessionDisposeUsage |-> {"PiTaskAttemptSessionDisposeUsageRecorded"},
    RecordPiTaskAttemptSessionDisposeUsageFailure |-> {"PiTaskAttemptSessionDisposeUsageFrozen"},
    RecordPiTaskAttemptSessionDisposed |-> {"PiTaskAttemptSessionDisposed"},
    QualifyNativeExecutionProfile |-> {"NativeExecutionProfileQualified"}]

Outcome10 == [
    ClaimStudyActorTaskAttemptLaunch |-> {"StudyActorTaskAttemptLaunchClaimed"},
    ClaimNativeExecutionProfileQualificationLaunch |-> {"NativeExecutionProfileQualificationLaunchClaimed"},
    AllocateStudyActorWork |-> {"StudyActorWorkAllocated"},
    StudyTransition |-> {"StudyTransition"}]

Outcome ==
    Outcome1 @@ Outcome2 @@ Outcome3 @@ Outcome4 @@ Outcome5 @@ Outcome6 @@
    Outcome7 @@ Outcome8 @@ Outcome9 @@ Outcome10

\* A study command leaves the event declared at the same place.
StudyOutcome(kind) == StudyEventKinds[StudyCommandCode(kind)]

=============================================================================
