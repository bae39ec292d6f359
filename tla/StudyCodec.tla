---------------------------- MODULE StudyCodec -----------------------------
(***************************************************************************)
(* The bodies of the 33 study commands and the 33 study events, which all  *)
(* share one command table and one event table (study.rs).  A column means *)
(* something else for every kind: primary_id, secondary_id and tertiary_id *)
(* hold whatever identities the event has, text_value holds a title, a     *)
(* message, a correction, a decision or a reveal.                          *)
(***************************************************************************)
EXTENDS CommandCodec

(* The fields of every study command and event.                            *)

StudyCommandLayout1 == [
    AdmitProtocolRevision |-> <<N, T, T, T, T, T, T, T, T, N>>,
    AdmitWorldRevision |-> <<N, T>>,
    AdmitMeasurementRevision |-> <<N, T, N>>,
    AdmitInstitutionRevision |-> <<N, T>>,
    AdmitPopulationSnapshot |-> <<N, T, N>>,
    AdmitEpisode |-> Ids(5) \o <<T>>,
    AssignTreatment |-> <<N, "StudyTreatment">>,
    AdmitMatchedPair |-> Ids(2),
    AdmitStudyRun |-> <<N, N, T, N>>,
    RegisterStudyRunPair |-> Ids(3) \o <<T>>,
    StartStudyRun |-> Ids(1),
    CompleteStudyRun |-> Ids(1),
    CreateEpisodeForum |-> <<N, T>>,
    OpenForumThread |-> <<N, T>>,
    AdmitActorObligation |-> <<N, "StudyPopulationPhase", N, T, T, T, N, N, N>>,
    CompleteActorObligation |-> Ids(2),
    FailActorObligation |-> <<N, T>>,
    BindActorRuntime |-> Ids(4),
    BindActorTaskAttemptRuntime |-> Ids(4),
    ReconcileActorRuntime |-> Ids(2)]

StudyCommandLayout2 == [
    SettleActorTaskAttemptAfterRecovery |-> Ids(4),
    FreezeForumHead |-> Ids(2),
    ReplacePopulation |-> Ids(2),
    AdmitForumExposure |-> Ids(3),
    PublishForumMessage |-> <<N, "ForumMessageKind", T, O, O>>,
    RetractForumMessage |-> Ids(2),
    ReleaseMatchedCorrection |-> Ids(3) \o <<T>>,
    ReadForum |-> Ids(4),
    RecordDecision |-> <<N, T, O>>,
    RevealGroundTruth |-> <<N, T>>,
    RecordMeasurementResult |-> <<N, N, "StudyMeasurementStatus", O, O, O>>,
    CloseEpisode |-> Ids(1),
    ForkEpisode |-> <<N, "StudyTreatment">>]

StudyCommandLayout ==
    StudyCommandLayout1 @@ StudyCommandLayout2

StudyEventLayout1 == [
    ProtocolRevisionAdmitted |-> Ids(1),
    WorldRevisionAdmitted |-> Ids(1),
    MeasurementRevisionAdmitted |-> Ids(1),
    InstitutionRevisionAdmitted |-> Ids(1),
    PopulationSnapshotAdmitted |-> Ids(1),
    EpisodeAdmitted |-> Ids(1),
    TreatmentAssigned |-> <<N, N, "StudyTreatment">>,
    MatchedPairAdmitted |-> Ids(1),
    StudyRunAdmitted |-> Ids(3) \o <<T, N>>,
    StudyRunPairRegistered |-> Ids(3) \o <<T, "StudyRunLifecycleState">>,
    StudyRunStarted |-> Ids(1),
    StudyRunCompleted |-> Ids(1),
    EpisodeForumCreated |-> Ids(2),
    ForumThreadOpened |-> Ids(2),
    ActorObligationAdmitted |-> Ids(4) \o <<"StudyPopulationPhase">>,
    ActorObligationCompleted |-> Ids(1),
    ActorObligationFailed |-> <<N, T>>,
    ActorRuntimeBound |-> Ids(5),
    ActorTaskAttemptRuntimeBound |-> Ids(5),
    ActorRuntimeReconciled |-> Ids(2),
    ActorTaskAttemptRecoverySettled |-> Ids(4) \o <<"StudyActorTaskAttemptRecoveryAccountingState">>,
    GroundTruthRevealed |-> <<N, T>>,
    ForumHeadFrozen |-> Ids(3),
    PopulationReplaced |-> Ids(2),
    ForumExposureAdmitted |-> Ids(4),
    ForumMessagePublished |-> Ids(4) \o <<"ForumMessageKind", T>>,
    MatchedCorrectionReleased |-> Ids(3) \o <<T>>,
    ForumMessagesRead |-> Ids(5) \o <<T, N>>,
    DecisionRecorded |-> Ids(1),
    MeasurementResultRecorded |-> <<N, N, "StudyMeasurementStatus">>,
    EpisodeClosed |-> Ids(1)]

StudyEventLayout2 == [
    ExperimentalForkCreated |-> Ids(3) \o <<"StudyTreatment">>,
    ForumMessageRetracted |-> Ids(2)]

StudyEventLayout ==
    StudyEventLayout1 @@ StudyEventLayout2

-----------------------------------------------------------------------------
(* The column each field is written to.  RecordDecision and                *)
(* RevealGroundTruth also store the digest of their text, which nothing    *)
(* reads back.  The execution profile of a bound runtime is not stored: it *)
(* is read from the spawn admission the event names.                       *)

StudyCommandInserts == [
    AdmitProtocolRevision |-> <<"application_revision_id", "protocol_digest",
        "actor_policy_digest", "forum_prompt_digest", "forum_tool_digest",
        "evidence_digest", "ground_truth_commitment_digest",
        "correction_digest", "topology_digest", "budget_units">>,
    AdmitWorldRevision |-> <<"protocol_revision_id", "world_digest">>,
    AdmitMeasurementRevision |-> <<"protocol_revision_id", "analysis_digest",
        "measurement_slot_count">>,
    AdmitInstitutionRevision |-> <<"protocol_revision_id",
        "institution_digest">>,
    AdmitPopulationSnapshot |-> <<"protocol_revision_id", "population_digest",
        "population_size">>,
    AdmitEpisode |-> <<"protocol_revision_id", "world_revision_id",
        "measurement_revision_id", "institution_revision_id",
        "population_snapshot_id", "randomization_digest">>,
    AssignTreatment |-> <<"study_episode_id", "study_treatment">>,
    AdmitMatchedPair |-> <<"study_episode_id", "related_study_episode_id">>,
    AdmitStudyRun |-> <<"protocol_revision_id", "plan_content_object_id",
        "plan_digest", "pair_count">>,
    RegisterStudyRunPair |-> <<"study_run_id", "pair_ordinal", "study_pair_id",
        "randomization_digest">>,
    StartStudyRun |-> <<"study_run_id">>,
    CompleteStudyRun |-> <<"study_run_id">>,
    CreateEpisodeForum |-> <<"study_episode_id", "charter_digest">>,
    OpenForumThread |-> <<"forum_id", "text_value">>,
    AdmitActorObligation |-> <<"study_episode_id", "population_phase",
        "role_ordinal", "private_view_digest", "forum_prompt_digest",
        "forum_tool_digest", "budget_units", "read_budget", "post_budget">>,
    CompleteActorObligation |-> <<"obligation_id", "charged_budget_units">>,
    FailActorObligation |-> <<"obligation_id", "reason_digest">>,
    BindActorRuntime |-> <<"obligation_id", "root_authority_office_session_id",
        "native_child_id", "native_child_spawn_admission_id">>,
    BindActorTaskAttemptRuntime |-> <<"obligation_id", "actor_attempt_id",
        "native_child_id", "native_child_spawn_admission_id">>,
    ReconcileActorRuntime |-> <<"obligation_id", "native_child_id">>,
    SettleActorTaskAttemptAfterRecovery |-> <<"obligation_id",
        "actor_attempt_id", "native_child_id",
        "native_child_recovery_receipt_id">>,
    FreezeForumHead |-> <<"study_episode_id", "thread_id">>,
    ReplacePopulation |-> <<"study_episode_id", "population_snapshot_id">>,
    AdmitForumExposure |-> <<"obligation_id", "forum_id", "first_ordinal">>,
    PublishForumMessage |-> <<"obligation_id", "message_kind", "text_value",
        "message_id", "related_message_id">>,
    RetractForumMessage |-> <<"obligation_id", "message_id">>,
    ReleaseMatchedCorrection |-> <<"study_pair_id", "thread_id",
        "related_thread_id", "text_value">>,
    ReadForum |-> <<"obligation_id", "first_ordinal", "through_ordinal",
        "rendered_content_object_id">>,
    RecordDecision |-> <<"obligation_id", "text_value", "message_id">>,
    RevealGroundTruth |-> <<"study_episode_id", "text_value">>,
    RecordMeasurementResult |-> <<"study_episode_id", "measurement_slot",
        "measurement_status", "observed_value", "value_digest",
        "reason_digest">>,
    CloseEpisode |-> <<"study_episode_id">>,
    ForkEpisode |-> <<"study_episode_id", "study_treatment">>]

StudyEventInserts == [
    ProtocolRevisionAdmitted |-> <<"primary_id">>,
    WorldRevisionAdmitted |-> <<"primary_id">>,
    MeasurementRevisionAdmitted |-> <<"primary_id">>,
    InstitutionRevisionAdmitted |-> <<"primary_id">>,
    PopulationSnapshotAdmitted |-> <<"primary_id">>,
    EpisodeAdmitted |-> <<"study_episode_id">>,
    TreatmentAssigned |-> <<"primary_id", "study_episode_id",
        "study_treatment">>,
    MatchedPairAdmitted |-> <<"primary_id">>,
    StudyRunAdmitted |-> <<"study_run_id", "protocol_revision_id",
        "plan_content_object_id", "plan_digest", "pair_count">>,
    StudyRunPairRegistered |-> <<"study_run_id", "study_pair_id",
        "pair_ordinal", "randomization_digest", "study_run_lifecycle_state">>,
    StudyRunStarted |-> <<"study_run_id">>,
    StudyRunCompleted |-> <<"study_run_id">>,
    EpisodeForumCreated |-> <<"forum_id", "study_episode_id">>,
    ForumThreadOpened |-> <<"thread_id", "forum_id">>,
    ActorObligationAdmitted |-> <<"obligation_id", "actor_occurrence_id",
        "study_episode_id", "primary_id", "population_phase">>,
    ActorObligationCompleted |-> <<"obligation_id">>,
    ActorObligationFailed |-> <<"obligation_id", "body_digest">>,
    ActorRuntimeBound |-> <<"obligation_id", "tertiary_id", "primary_id",
        "secondary_id", "admission.execution_profile_id">>,
    ActorTaskAttemptRuntimeBound |-> <<"obligation_id", "tertiary_id",
        "primary_id", "secondary_id", "admission.execution_profile_id">>,
    ActorRuntimeReconciled |-> <<"obligation_id", "primary_id">>,
    ActorTaskAttemptRecoverySettled |-> <<"obligation_id", "secondary_id",
        "primary_id", "tertiary_id", "recovery_accounting_state">>,
    GroundTruthRevealed |-> <<"study_episode_id", "body_digest">>,
    ForumHeadFrozen |-> <<"study_episode_id", "thread_id", "through_ordinal">>,
    PopulationReplaced |-> <<"study_episode_id", "primary_id">>,
    ForumExposureAdmitted |-> <<"primary_id", "obligation_id", "first_ordinal",
        "through_ordinal">>,
    ForumMessagePublished |-> <<"message_id", "thread_id", "through_ordinal",
        "actor_occurrence_id", "message_kind", "body_digest">>,
    MatchedCorrectionReleased |-> <<"primary_id", "secondary_id",
        "tertiary_id", "body_digest">>,
    ForumMessagesRead |-> <<"primary_id", "obligation_id", "thread_id",
        "first_ordinal", "through_ordinal", "rendered_digest",
        "rendered_content_object_id">>,
    DecisionRecorded |-> <<"obligation_id">>,
    MeasurementResultRecorded |-> <<"primary_id", "study_episode_id",
        "measurement_status">>,
    EpisodeClosed |-> <<"study_episode_id">>,
    ExperimentalForkCreated |-> <<"primary_id", "secondary_id", "tertiary_id",
        "study_treatment">>,
    ForumMessageRetracted |-> <<"message_id", "obligation_id">>]

-----------------------------------------------------------------------------
(* The order of the fields in a fingerprint, and the columns the decoders  *)
(* read: the declaration's order, and the columns written.                 *)

StudyInOrder(kinds) == [k \in kinds |-> [f \in DOMAIN StudyCommandLayout[k] |-> f]]

StudyEventInOrder(kinds) == [k \in kinds |-> [f \in DOMAIN StudyEventLayout[k] |-> f]]

AsWritten(kinds) == [k \in kinds |-> StudyCommandInserts[k]]

EventAsWritten(kinds) == [k \in kinds |-> StudyEventInserts[k]]

StudyCommandFields1 == StudyInOrder(
    {"AdmitProtocolRevision", "AdmitWorldRevision",
    "AdmitMeasurementRevision", "AdmitInstitutionRevision",
    "AdmitPopulationSnapshot", "AdmitEpisode", "AssignTreatment",
    "AdmitMatchedPair", "AdmitStudyRun", "RegisterStudyRunPair",
    "StartStudyRun", "CompleteStudyRun", "CreateEpisodeForum",
    "OpenForumThread"})

StudyCommandFields2 == StudyInOrder(
    {"AdmitActorObligation", "CompleteActorObligation", "FailActorObligation",
    "BindActorRuntime", "BindActorTaskAttemptRuntime",
    "ReconcileActorRuntime", "SettleActorTaskAttemptAfterRecovery",
    "FreezeForumHead", "ReplacePopulation", "AdmitForumExposure",
    "PublishForumMessage", "RetractForumMessage", "ReleaseMatchedCorrection",
    "ReadForum", "RecordDecision"})

StudyCommandFields3 == StudyInOrder(
    {"RevealGroundTruth", "RecordMeasurementResult", "CloseEpisode",
    "ForkEpisode"})

StudyCommandFields ==
    StudyCommandFields1 @@ StudyCommandFields2 @@ StudyCommandFields3

StudyEventFields1 == StudyEventInOrder(
    {"ProtocolRevisionAdmitted", "WorldRevisionAdmitted",
    "MeasurementRevisionAdmitted", "InstitutionRevisionAdmitted",
    "PopulationSnapshotAdmitted", "EpisodeAdmitted", "EpisodeClosed",
    "PopulationReplaced", "TreatmentAssigned", "MatchedPairAdmitted",
    "StudyRunAdmitted", "StudyRunPairRegistered", "StudyRunStarted",
    "StudyRunCompleted", "EpisodeForumCreated", "ForumThreadOpened",
    "ActorObligationAdmitted", "ActorObligationCompleted", "DecisionRecorded",
    "ActorObligationFailed", "ActorRuntimeBound",
    "ActorTaskAttemptRuntimeBound", "ActorRuntimeReconciled",
    "ActorTaskAttemptRecoverySettled"})

StudyEventFields2 == StudyEventInOrder(
    {"GroundTruthRevealed", "ForumHeadFrozen", "ForumExposureAdmitted",
    "ForumMessagePublished", "MatchedCorrectionReleased", "ForumMessagesRead",
    "MeasurementResultRecorded", "ExperimentalForkCreated",
    "ForumMessageRetracted"})

StudyEventFields ==
    StudyEventFields1 @@ StudyEventFields2

StudyCommandReads1 == AsWritten(
    {"AdmitProtocolRevision", "AdmitWorldRevision",
    "AdmitMeasurementRevision", "AdmitInstitutionRevision",
    "AdmitPopulationSnapshot", "AdmitEpisode", "AssignTreatment",
    "AdmitMatchedPair", "AdmitStudyRun", "RegisterStudyRunPair",
    "StartStudyRun", "CompleteStudyRun", "CreateEpisodeForum"})

StudyCommandReads2 == AsWritten(
    {"OpenForumThread", "AdmitActorObligation", "CompleteActorObligation",
    "FailActorObligation", "BindActorRuntime", "BindActorTaskAttemptRuntime",
    "ReconcileActorRuntime", "SettleActorTaskAttemptAfterRecovery",
    "FreezeForumHead", "ReplacePopulation", "AdmitForumExposure"})

StudyCommandReads3 == AsWritten(
    {"PublishForumMessage", "RetractForumMessage", "ReleaseMatchedCorrection",
    "ReadForum", "RecordDecision", "RevealGroundTruth",
    "RecordMeasurementResult", "CloseEpisode", "ForkEpisode"})

StudyCommandReads ==
    StudyCommandReads1 @@ StudyCommandReads2 @@ StudyCommandReads3

StudyEventReads1 == EventAsWritten(
    {"ProtocolRevisionAdmitted", "WorldRevisionAdmitted",
    "MeasurementRevisionAdmitted", "InstitutionRevisionAdmitted",
    "PopulationSnapshotAdmitted", "EpisodeAdmitted", "TreatmentAssigned",
    "MatchedPairAdmitted", "StudyRunAdmitted", "StudyRunPairRegistered",
    "StudyRunStarted", "StudyRunCompleted", "EpisodeForumCreated",
    "ForumThreadOpened", "ActorObligationAdmitted",
    "ActorObligationCompleted", "ActorObligationFailed", "ActorRuntimeBound",
    "ActorTaskAttemptRuntimeBound", "ActorRuntimeReconciled"})

StudyEventReads2 == EventAsWritten(
    {"ActorTaskAttemptRecoverySettled", "GroundTruthRevealed",
    "ForumHeadFrozen", "PopulationReplaced", "ForumExposureAdmitted",
    "ForumMessagePublished", "MatchedCorrectionReleased", "ForumMessagesRead",
    "DecisionRecorded", "MeasurementResultRecorded", "EpisodeClosed",
    "ExperimentalForkCreated", "ForumMessageRetracted"})

StudyEventReads ==
    StudyEventReads1 @@ StudyEventReads2

=============================================================================
