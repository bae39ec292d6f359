--------------------------- MODULE MCCommandLedger --------------------------
EXTENDS CommandLedger

\* One kind for each way in: founding, proposing, admitting, commands of the
\* Root Authority, of the kernel, of both, of an actor, and a study command.
Examined == {"CreateSocietyIdentity", "InstallFoundingMission", "ProposeOperatingCycle",
             "AdmitOperatingCycle", "RegisterActorConfiguration", "QuiesceOperatingCycle",
             "RecordCycleDrained", "OpenOfficeTurn", "RecordPiSessionReady",
             "ClaimWorkItem", "PublishForumMessage"}
=============================================================================
