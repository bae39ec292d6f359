---------------------------- MODULE CommandLedger ---------------------------
(***************************************************************************)
(* The command ledger of the kernel and the daemon around it.              *)
(*                                                                         *)
(* Every request becomes one durable command row, accepted with an event   *)
(* or rejected without one, and a retried request is answered from its     *)
(* row.  A daemon that starts decodes every row and event, executes the    *)
(* requests again in a fresh schema and refuses to serve unless receipts,  *)
(* events and material state come out the same.                            *)
(*                                                                         *)
(* A behaviour looks at one kind of command: the scenario chosen in the    *)
(* initial state fixes the kind, two bodies that differ in a field or two, *)
(* the event each of them leads to and the treatment of the operating      *)
(* cycle the command is about.  The commands that came before it are not   *)
(* part of the model; what the domain handlers decide about a body is      *)
(* reduced to "has this body been applied already".                        *)
(***************************************************************************)
EXTENDS Integers, FiniteSets, StudyCodec, CommandAuthority

CONSTANTS FaultKinds,   \* kinds examined with faults and deviating envelopes
          MaxRows,      \* bound on the command rows
          MaxAborts     \* bound on the transactions that abort

ASSUME BoundsAreNatural == MaxRows \in Nat /\ MaxAborts \in Nat

VARIABLES scenario, ledger, aborts, mode, stream, operation, sealed

vars == <<scenario, ledger, aborts, mode, stream, operation, sealed>>

-----------------------------------------------------------------------------
(* Kinds.  A study command travels inside the command StudyTransition.     *)

IsStudy(kind) == kind \in Range(StudyCommandKinds)

Kinds == (Range(CommandKinds) \ {"StudyTransition"}) \cup Range(StudyCommandKinds)

Outer(kind) == IF IsStudy(kind) THEN "StudyTransition" ELSE kind

EventsOf(kind) == IF IsStudy(kind) THEN {StudyOutcome(kind)} ELSE Outcome[kind]

IsStudyEvent(kind) == kind \in Range(StudyEventKinds)

OuterEvent(kind) == IF IsStudyEvent(kind) THEN "StudyTransition" ELSE kind

Events == (Range(EventKinds) \ {"StudyTransition"}) \cup Range(StudyEventKinds)

Layout(kind) == IF IsStudy(kind) THEN StudyCommandLayout[kind] ELSE CommandLayout[kind]

LayoutOfEvent(kind) ==
    IF IsStudyEvent(kind) THEN StudyEventLayout[kind] ELSE EventLayout[kind]

-----------------------------------------------------------------------------
(* Sample values and bodies.  A field takes few values, and the two bodies *)
(* of a scenario are the base body with one field changed, or with one of  *)
(* two adjacent fields changed: what a missing length prefix, a swapped    *)
(* column or a shifted field would confuse.                                *)

Samples(type) ==
    CASE type = N -> {<<1>>, <<2>>}
      [] type = T -> {<<1>>, <<1, 1>>}
      [] type = O -> {<<>>, <<1>>}
      [] type \in DOMAIN SumColumns ->
            UNION {{<<a>> \o [i \in DOMAIN SumColumns[type][a] |-> v] : v \in 1..2} :
                       a \in DOMAIN SumColumns[type]}
      [] OTHER -> {<<c>> : c \in EnumCodes[type]}

Base(layout) ==
    [f \in DOMAIN layout |->
        CASE layout[f] \in DOMAIN SumColumns ->
                <<1>> \o [i \in DOMAIN SumColumns[layout[f]][1] |-> 1]
          [] layout[f] = O -> <<>>
          [] OTHER -> CHOOSE v \in Samples(layout[f]) :
                          \A w \in Samples(layout[f]) : v[1] <= w[1] /\ Len(v) <= Len(w)]

\* A body equal to the base except in one field.
Variants(layout, f) ==
    {[Base(layout) EXCEPT ![f] = v] : v \in Samples(layout[f]) \ {Base(layout)[f]}}

Pairs(layout) ==
    {<<Base(layout), b>> : b \in UNION {Variants(layout, f) : f \in DOMAIN layout}}
    \cup
    UNION {Variants(layout, f) \X Variants(layout, f + 1) :
               f \in {g \in DOMAIN layout : g + 1 \in DOMAIN layout /\ {layout[g], layout[g + 1]} # {N}}}

BasePair(layout) ==
    <<Base(layout),
      IF layout = <<>> THEN <<>> ELSE CHOOSE b \in Variants(layout, 1) : TRUE>>

\* The scenarios: every pair of command bodies with the base event bodies,
\* every pair of event bodies with the base command bodies.
ScenariosOf(kind) ==
    LET make(event, bodies, outcomes, treatment, base) ==
            [kind |-> kind, bodies |-> bodies, event |-> event, outcomes |-> outcomes,
             treatment |-> treatment, faults |-> base /\ kind \in FaultKinds]
        events == IF EventsOf(kind) = {} THEN {"none"} ELSE EventsOf(kind)
        eventLayout(event) == IF event = "none" THEN <<>> ELSE LayoutOfEvent(event)
        plain == BasePair(Layout(kind))
    IN  UNION {
            {make(e, pair, BasePair(eventLayout(e)), "Ordinary", FALSE) :
                 pair \in Pairs(Layout(kind))}
            \cup {make(e, plain, pair, "Ordinary", FALSE) : pair \in Pairs(eventLayout(e))}
            \cup {make(e, plain, BasePair(eventLayout(e)), t, TRUE) :
                      t \in {"Ordinary", "Qualification"}} : e \in events}

-----------------------------------------------------------------------------
(* Requests.                                                               *)

Bootstrap == 1
Kernel == 2
Root == 3
Actor == 4

NotApplicable == -1
CurrentGeneration == 1

\* The grants of each principal: the founding ones, the service ones, those
\* of the Root Authority's office and those of an admitted actor.
Grants(principal) ==
    CASE principal = Bootstrap -> FOUNDING
      [] principal = Kernel -> KERNEL_SERVICE
      [] principal = Root -> ROOT_AUTHORITY
      [] principal = Actor -> {"ClaimWorkItem"}

Request(id, principal, grant, capability, generation, kind, body) ==
    [id |-> id, principal |-> principal, grant |-> grant, capability |-> capability,
     generation |-> generation, kind |-> kind, body |-> body]

Proper(id, principal, kind, body) ==
    Request(id, principal, 1, RequiredCapability(Outer(kind)),
            IF CarriesGeneration(Outer(kind)) THEN CurrentGeneration ELSE NotApplicable,
            kind, body)

Owners(kind) == {p \in Bootstrap..Actor : RequiredCapability(Outer(kind)) \in Grants(p)}

CommandIds == {<<1>>, <<1, 1>>}

\* The two bodies of the scenario under either command identity; in a
\* scenario with faults also one request for each way an envelope may be
\* wrong: the capability, the generation, the principal or the grant.
Requests ==
    LET owner == CHOOSE p \in Owners(scenario.kind) : TRUE
        proper == {Proper(id, p, scenario.kind, scenario.bodies[b]) :
                      id \in CommandIds, p \in Owners(scenario.kind), b \in 1..2}
        first == Proper(<<1>>, owner, scenario.kind, scenario.bodies[1])
        deviating ==
            {[first EXCEPT !.capability = "OpenOfficeTurn"],
             [first EXCEPT !.generation = CurrentGeneration + 1],
             [first EXCEPT !.generation = NotApplicable],
             [first EXCEPT !.grant = 2]}
            \cup {[first EXCEPT !.principal = p] : p \in Bootstrap..Actor}
    IN  IF scenario.faults THEN proper \cup deviating ELSE proper

\* Without faults one command identity is enough.
Submissions == {r \in Requests : scenario.faults \/ r.id = <<1>>}

-----------------------------------------------------------------------------
(* Rows.  `origin' is the request or event a row was made from; no         *)
(* definition but the properties reads it.                                 *)

Fields(kind) ==
    IF IsStudy(kind) THEN StudyCommandFields[kind] ELSE RequestFields[kind]

Inserts(kind) ==
    IF IsStudy(kind) THEN StudyCommandInserts[kind] ELSE CommandInserts[kind]

Reads(kind) ==
    IF IsStudy(kind) THEN StudyCommandReads[kind] ELSE CommandReads[kind]

FieldsOfEvent(kind) ==
    IF IsStudyEvent(kind) THEN StudyEventFields[kind] ELSE EventFields[kind]

InsertsOfEvent(kind) ==
    IF IsStudyEvent(kind) THEN StudyEventInserts[kind] ELSE EventInserts[kind]

ReadsOfEvent(kind) ==
    IF IsStudyEvent(kind) THEN StudyEventReads[kind] ELSE EventReads[kind]

\* request_fingerprint, before it is hashed.
RequestBytes(request) ==
    Bytes(T, request.id)
    \o <<request.principal, request.grant, CapabilityCode(request.capability),
         request.generation, CommandCode(Outer(request.kind))>>
    \o (IF IsStudy(request.kind) THEN <<StudyCommandCode(request.kind)>> ELSE <<>>)
    \o Fingerprint(Layout(request.kind), Fields(request.kind), request.body)

InsertCommandBody(kind, body) ==
    [study |-> IF IsStudy(kind) THEN StudyCommandCode(kind) ELSE 0,
     columns |-> ToRow(Layout(kind), Inserts(kind), body)]

DecodeCommandBody(code, stored) ==
    LET outer == StoredCommandKinds[code]
        kind == IF outer = "StudyTransition" THEN StoredStudyCommandKinds[stored.study] ELSE outer
    IN  [kind |-> kind,
         body |-> FromRow(Layout(kind), Reads(kind), stored.columns)]

\* replay_command_requests: the request a row stands for.
RequestOf(row) ==
    LET decoded == DecodeCommandBody(row.kind, row.stored)
    IN  Request(row.id, row.principal, row.grant, StoredCapabilities[row.capability],
                row.generation, decoded.kind, decoded.body)

\* event_fingerprint, before it is hashed.
EventBytes(event) ==
    <<event.id>> \o Bytes(T, event.command) \o <<EventCode(OuterEvent(event.kind))>>
    \o (IF IsStudyEvent(event.kind) THEN <<StudyEventCode(event.kind)>> ELSE <<>>)
    \o Fingerprint(LayoutOfEvent(event.kind), FieldsOfEvent(event.kind), event.body)

InsertEventBody(kind, body) ==
    [study |-> IF IsStudyEvent(kind) THEN StudyEventCode(kind) ELSE 0,
     columns |-> ToRow(LayoutOfEvent(kind), InsertsOfEvent(kind), body)]

DecodeEventBody(code, stored) ==
    LET outer == StoredEventKinds[code]
        kind == IF outer = "StudyTransition" THEN StoredStudyEventKinds[stored.study] ELSE outer
    IN  [kind |-> kind,
         body |-> FromRow(LayoutOfEvent(kind), ReadsOfEvent(kind), stored.columns)]

EventOf(row) ==
    LET decoded == DecodeEventBody(row.kind, row.stored)
    IN  [id |-> row.id, command |-> row.command, kind |-> decoded.kind, body |-> decoded.body]

-----------------------------------------------------------------------------
(* What the tables have to agree on.  Nothing here depends on a constant   *)
(* or on a body: TLC evaluates TablesInStep once, for all kinds, and the   *)
(* rest is proved from it.                                                 *)

\* The fingerprint of a command covers its fields, each field has a column of
\* its own and is read from it, its codes are declared, somebody holds its
\* capability, and a body that has fields has a variant.
CommandInStep(kind) ==
    /\ Layout(kind) \in Seq(FieldTypes)
    /\ AreFields(Layout(kind), Fields(kind))
    /\ AreColumns(Layout(kind), Inserts(kind))
    /\ Reads(kind) = Inserts(kind)
    /\ Outer(kind) \in Range(CommandKinds)
    /\ RequiredCapability(Outer(kind)) \in Range(Capabilities)
    /\ Owners(kind) # {}
    /\ Layout(kind) # <<>> => Variants(Layout(kind), 1) # {}
    /\ EventsOf(kind) \subseteq Events

EventInStep(kind) ==
    /\ LayoutOfEvent(kind) \in Seq(FieldTypes)
    /\ AreFields(LayoutOfEvent(kind), FieldsOfEvent(kind))
    /\ AreColumns(LayoutOfEvent(kind), InsertsOfEvent(kind))
    /\ ReadsOfEvent(kind) = InsertsOfEvent(kind)
    /\ OuterEvent(kind) \in Range(EventKinds)
    /\ LayoutOfEvent(kind) # <<>> => Variants(LayoutOfEvent(kind), 1) # {}

\* The commands the mission's source takes.
MissionInStep ==
    /\ {"InstallFoundingMission", "RecordContentSealReceipt", "RegisterContentObject"}
          \subseteq Kinds
    /\ Layout("InstallFoundingMission") = Mission
    /\ Layout("RecordContentSealReceipt") = <<T>>
    /\ Layout("RegisterContentObject") = <<N>>
    /\ CommandInserts["RegisterContentObject"] = <<1>>
    /\ CommandReads["RegisterContentObject"] = <<1>>
    /\ ~IsStudy("RegisterContentObject")

TablesInStep ==
    /\ CodesInStep
    /\ \A codes \in {CommandKinds, EventKinds, Capabilities, StudyCommandKinds, StudyEventKinds} :
          codes \in Seq(STRING)
    /\ "OpenOfficeTurn" \in Range(Capabilities)
    /\ \A kind \in Kinds : CommandInStep(kind)
    /\ \A kind \in Events : EventInStep(kind) /\ kind # "none"
    /\ MissionInStep

ASSUME TablesAgree == TablesInStep

-----------------------------------------------------------------------------
(* Executing a request.  A ledger holds the command rows, the events, the  *)
(* material rows the commands created, the founding capabilities spent and *)
(* the next values of the identity sequences.                              *)

EmptyLedger ==
    [commands |-> <<>>, events |-> <<>>, material |-> {}, spent |-> {},
     nextRow |-> 1, nextSubject |-> 1]

Known(l, id) == \E i \in DOMAIN l.commands : l.commands[i].id = id

RowOf(l, id) == l.commands[CHOOSE i \in DOMAIN l.commands : l.commands[i].id = id]

Applied(l, kind) == {m \in l.material : m.kind = kind}

\* content_identity_state: the registered object of a digest, if any.
ContentObjects(l, digest) ==
    {o \in Applied(l, "RegisterContentObject") :
        \E r \in Applied(l, "RecordContentSealReceipt") :
            r.body = <<digest>> /\ o.body = <<<<r.subject>>>>}

MissionDigest(body) == body[Len(Mission)]

\* The qualification treatment leaves its cycle to the bootstrap principal's
\* admission and to the kernel's own work.  Proposing such a cycle is the
\* bootstrap principal's alone, and while one is open nobody but it and the
\* kernel registers an actor configuration.
QualificationFences(request) ==
    /\ scenario.treatment = "Qualification"
    /\ CASE request.kind = "ProposeOperatingCycle" -> request.principal # Bootstrap
         [] request.kind = "RegisterActorConfiguration" -> request.principal \notin {Bootstrap, Kernel}
         [] OTHER ->
               /\ CycleScoped(Outer(request.kind))
               /\ ~ \/ request.principal = Bootstrap /\ request.kind = "AdmitOperatingCycle"
                    \/ request.principal = Kernel /\ request.kind \in QualificationKernelWork

\* What the envelope alone decides: "" or the rejection.
EnvelopeVerdict(l, request) ==
    IF request.capability # RequiredCapability(Outer(request.kind)) THEN "CapabilityMismatch"
    ELSE IF CarriesGeneration(Outer(request.kind)) # (request.generation # NotApplicable)
         THEN "InvalidExpectedGeneration"
    ELSE IF request.grant # 1 \/ request.capability \notin Grants(request.principal)
         THEN "CapabilityNotGranted"
    ELSE IF request.principal = Bootstrap /\ request.capability \in l.spent
         THEN "CapabilityNoLongerActive"
    ELSE IF QualificationFences(request) THEN "QualificationTreatmentRestricted"
    ELSE ""

\* apply_command: the envelope, then the handler.  A handler checks the
\* generation and its subject before it writes; a body applied before meets a
\* unique constraint only after the handler drew an identity for its row.
Verdict(l, request) ==
    IF EnvelopeVerdict(l, request) # "" THEN EnvelopeVerdict(l, request)
    ELSE IF request.generation \notin {NotApplicable, CurrentGeneration}
         THEN "StaleAdmissionGeneration"
    ELSE IF EventsOf(request.kind) = {} THEN "InvalidLifecycleTransition"
    ELSE IF request.kind = "InstallFoundingMission"
            /\ (Applied(l, request.kind) # {}
                \/ ContentObjects(l, MissionDigest(request.body)) = {})
         THEN "FoundingInvariant"
    ELSE IF \E m \in Applied(l, request.kind) : m.body = request.body THEN "UniqueConstraint"
    ELSE "Accepted"

\* The event a body leads to.
EventFor(request) ==
    CASE request.kind = scenario.kind ->
            [kind |-> scenario.event,
             body |-> scenario.outcomes[CHOOSE b \in 1..2 : scenario.bodies[b] = request.body]]
      [] OTHER ->
            LET kind == CHOOSE e \in EventsOf(request.kind) : TRUE
            IN  [kind |-> kind, body |-> Base(LayoutOfEvent(kind))]

SkippedRow(l, request, verdict) ==
    [row |-> l.nextRow + 1, id |-> request.id, principal |-> request.principal,
     grant |-> request.grant, capability |-> CapabilityCode(request.capability),
     generation |-> request.generation, kind |-> CommandCode(Outer(request.kind)),
     fingerprint |-> RequestBytes(request),
     stored |-> InsertCommandBody(request.kind, request.body),
     verdict |-> verdict,
     event |-> IF verdict = "Accepted" THEN Len(l.events) + 1 ELSE 0,
     origin |-> request]

CommandRow(l, request, verdict) ==
    [row |-> l.nextRow, id |-> request.id, principal |-> request.principal,
     grant |-> request.grant, capability |-> CapabilityCode(request.capability),
     generation |-> request.generation, kind |-> CommandCode(Outer(request.kind)),
     fingerprint |-> RequestBytes(request),
     stored |-> InsertCommandBody(request.kind, request.body),
     verdict |-> verdict,
     event |-> IF verdict = "Accepted" THEN Len(l.events) + 1 ELSE 0,
     origin |-> request]

EventRow(l, request) ==
    LET made == EventFor(request)
        event == [id |-> Len(l.events) + 1, command |-> request.id,
                  kind |-> made.kind, body |-> made.body]
    IN  [id |-> event.id, row |-> l.nextRow, command |-> event.command,
         kind |-> EventCode(OuterEvent(event.kind)), fingerprint |-> EventBytes(event),
         stored |-> InsertEventBody(event.kind, event.body), origin |-> event]

\* execute_in_transaction: a known identity is answered from its row, with
\* its receipt or with a conflict; a new one is written down before it is
\* decided, and a rejection rolls back all but that row and the identities
\* drawn.
Execute(l, request) ==
    LET verdict == Verdict(l, request)
        written == [l EXCEPT !.commands = Append(@, CommandRow(l, request, verdict)),
                             !.nextRow = @ + 1,
                             !.nextSubject =
                                 IF verdict \in {"Accepted", "UniqueConstraint"} THEN @ + 1 ELSE @]
    IN  IF Known(l, request.id) THEN l
        ELSE IF verdict # "Accepted" THEN written
        ELSE [written EXCEPT
                 !.events = Append(@, EventRow(l, request)),
                 !.material = @ \cup {[kind |-> request.kind, body |-> request.body,
                                       subject |-> l.nextSubject, row |-> l.nextRow]},
                 !.spent = @ \cup IF request.principal = Bootstrap
                                     /\ RequiresConsumption(request.capability)
                                  THEN {request.capability} ELSE {}]

\* A transaction that does not commit leaves nothing but the identities it
\* drew: sequences are not rolled back.
Abandon(l, request) ==
    IF Known(l, request.id) THEN l
    ELSE [l EXCEPT !.nextRow = @ + 1,
                   !.nextSubject =
                       IF Verdict(l, request) \in {"Accepted", "UniqueConstraint"} THEN @ + 1 ELSE @]

-----------------------------------------------------------------------------
(* Validating a ledger when a daemon binds.                                *)

\* verify_command_bodies: every body decodes to the request fingerprinted.
CommandsVerify(l) ==
    \A i \in DOMAIN l.commands :
        RequestBytes(RequestOf(l.commands[i])) = l.commands[i].fingerprint

\* replay_ledger: the sequence is contiguous and every event decodes to what
\* was fingerprinted.
EventsVerify(l) ==
    \A i \in DOMAIN l.events :
        /\ l.events[i].id = i
        /\ EventBytes(EventOf(l.events[i])) = l.events[i].fingerprint

AcceptedReplay(l) ==
    FoldLeft(LAMBDA rebuilt, row : Execute(rebuilt, RequestOf(row)), EmptyLedger,
             SelectSeq(l.commands, LAMBDA row : row.verdict = "Accepted"))

\* The requests of the ledger executed again, in row order, in a new schema:
\* rejected ones too, since they drew identities as well.
Replay(l) ==
    FoldLeft(LAMBDA rebuilt, row : Execute(rebuilt, RequestOf(row)), EmptyLedger, l.commands)

\* validate_replayed_materialized_state.  The code compares the tables that
\* MATERIALIZED_TABLES lists; the two launch-claim tables and
\* study_actor_work_allocations are not among them.  All of the state is
\* compared here: what passes this comparison passes the code's.
Validates(l) ==
    /\ CommandsVerify(l)
    /\ EventsVerify(l)
    /\ LET rebuilt == Replay(l)
       IN  /\ Len(rebuilt.commands) = Len(l.commands)
           /\ \A i \in DOMAIN l.commands :
                  /\ rebuilt.commands[i].verdict = l.commands[i].verdict
                  /\ rebuilt.commands[i].event = l.commands[i].event
           /\ Len(rebuilt.events) = Len(l.events)
           /\ \A i \in DOMAIN l.events : EventOf(rebuilt.events[i]) = EventOf(l.events[i])
           /\ rebuilt.material = l.material
           /\ rebuilt.spent = l.spent

-----------------------------------------------------------------------------
(* The daemon.                                                             *)

NoOperation == [stage |-> "none"]

Init ==
    /\ scenario \in UNION {ScenariosOf(kind) : kind \in Kinds}
    /\ ledger = EmptyLedger
    /\ aborts = 0
    /\ mode = "Fresh"
    /\ stream = "Open"
    /\ operation = NoOperation
    /\ sealed = {}

\* The daemon that finds no command serves; one that finds commands serves
\* only what was asked before.  Every kind but the first presupposes earlier
\* commands.
Bind ==
    /\ mode = "Down"
    /\ Validates(ledger)
    /\ mode' = IF ledger.commands = <<>> /\ scenario.kind = "CreateSocietyIdentity"
               THEN "Fresh" ELSE "Fenced"
    /\ stream' = "Open"
    /\ UNCHANGED <<scenario, ledger, aborts, operation, sealed>>

Idle == mode # "Down" /\ operation = NoOperation

Commit(request) ==
    /\ Len(ledger.commands) < MaxRows
    /\ ledger' = Execute(ledger, request)
    /\ UNCHANGED <<scenario, aborts, mode, stream, operation, sealed>>

\* dispatch_supervisor and execute: nobody speaks for the kernel, and a
\* fenced daemon answers only for identities it knows.
SupervisorMaySubmit(request) ==
    /\ Idle
    /\ stream = "Open"
    /\ request.kind \in WireKinds
    /\ request.principal # Kernel
    /\ request.capability \notin KERNEL_SERVICE
    /\ mode = "Fenced" => Known(ledger, request.id)

Submit(request) ==
    /\ SupervisorMaySubmit(request)
    /\ request.kind # "InstallFoundingMission"
    /\ Commit(request)

\* Requests made inside the daemon, whose envelope can only be late: by the
\* kernel and by actors at any time, for the Root Authority only while the
\* daemon is not fenced.
ResidentMaySubmit(request) ==
    /\ Idle
    /\ request.capability = RequiredCapability(Outer(request.kind))
    /\ request.capability \in Grants(request.principal) /\ request.grant = 1
    /\ CarriesGeneration(Outer(request.kind)) <=> request.generation # NotApplicable
    /\ \/ request.principal \in {Kernel, Actor}
       \/ request.principal = Root /\ mode = "Fresh"

Resident(request) ==
    /\ ResidentMaySubmit(request)
    /\ Commit(request)

\* The store fails before the commit; the daemon answers KernelFailure and
\* goes on.
Abort(request) ==
    /\ scenario.faults
    /\ aborts < MaxAborts
    /\ SupervisorMaySubmit(request) \/ ResidentMaySubmit(request)
    /\ ~Known(ledger, request.id)
    /\ aborts' = aborts + 1
    /\ ledger' = Abandon(ledger, request)
    /\ UNCHANGED <<scenario, mode, stream, operation, sealed>>

-----------------------------------------------------------------------------
(* The founding mission: its source is sealed, its receipt and its object  *)
(* are recorded by the kernel, and only then the supervisor's own command  *)
(* runs.  The daemon does nothing else meanwhile.                          *)

ReceiptCommand(digest) ==
    Proper(<<3>> \o digest, Kernel, "RecordContentSealReceipt", <<digest>>)

ObjectCommand(l, digest) ==
    LET receipt == CHOOSE r \in Applied(l, "RecordContentSealReceipt") : r.body = <<digest>>
    IN  Proper(<<4>> \o digest, Kernel, "RegisterContentObject", <<<<receipt.subject>>>>)

\* Preflight: what is known or will be rejected goes straight to execution.
MissionIsReady(request) ==
    /\ ~Known(ledger, request.id)
    /\ EnvelopeVerdict(ledger, request) = ""
    /\ Applied(ledger, "InstallFoundingMission") = {}

SubmitMission(request) ==
    /\ SupervisorMaySubmit(request)
    /\ request.kind = "InstallFoundingMission"
    /\ IF MissionIsReady(request)
       THEN /\ operation' = [stage |-> "seal", request |-> request]
            /\ UNCHANGED <<scenario, ledger, aborts, mode, stream, sealed>>
       ELSE Commit(request)

Digest == MissionDigest(operation.request.body)

UnsealedSource ==
    /\ operation.stage = "seal"
    /\ operation' = [operation EXCEPT !.stage =
           IF ContentObjects(ledger, Digest) # {} THEN "execute"
           ELSE IF \E r \in Applied(ledger, "RecordContentSealReceipt") : r.body = <<Digest>>
                THEN "register" ELSE "record"]
    /\ UNCHANGED <<scenario, ledger, aborts, mode, stream, sealed>>

SealSource ==
    /\ operation.stage = "seal"
    /\ sealed' = sealed \cup {Digest}
    /\ operation' = [operation EXCEPT !.stage =
           IF ContentObjects(ledger, Digest) # {} THEN "execute"
           ELSE IF \E r \in Applied(ledger, "RecordContentSealReceipt") : r.body = <<Digest>>
                THEN "register" ELSE "record"]
    /\ UNCHANGED <<scenario, ledger, aborts, mode, stream>>

RecordReceipt ==
    /\ operation.stage = "record"
    /\ ledger' = Execute(ledger, ReceiptCommand(Digest))
    /\ operation' = [operation EXCEPT !.stage = "register"]
    /\ UNCHANGED <<scenario, aborts, mode, stream, sealed>>

RegisterObject ==
    /\ operation.stage = "register"
    /\ ledger' = Execute(ledger, ObjectCommand(ledger, Digest))
    /\ operation' = [operation EXCEPT !.stage = "execute"]
    /\ UNCHANGED <<scenario, aborts, mode, stream, sealed>>

FinishMission ==
    /\ operation.stage = "execute"
    /\ ledger' = Execute(ledger, operation.request)
    /\ operation' = NoOperation
    /\ UNCHANGED <<scenario, aborts, mode, stream, sealed>>

-----------------------------------------------------------------------------
(* Faults: a supervisor that hangs up or cannot be answered, a daemon that *)
(* stops between any two commits.                                          *)

CloseStream ==
    /\ scenario.faults
    /\ Idle
    /\ stream = "Open"
    /\ stream' = "Closed"
    /\ UNCHANGED <<scenario, ledger, aborts, mode, operation, sealed>>

Crash ==
    /\ mode # "Down"
    /\ mode' = "Down"
    /\ stream' = "Closed"
    /\ operation' = NoOperation
    /\ UNCHANGED <<scenario, ledger, aborts, sealed>>

Next ==
    \/ Bind
    \/ \E request \in Submissions : Submit(request) \/ Resident(request) \/ Abort(request)
    \/ \E request \in Submissions : SubmitMission(request)
    \/ SealSource
    \/ RecordReceipt
    \/ RegisterObject
    \/ FinishMission
    \/ CloseStream
    \/ Crash

Spec == Init /\ [][Next]_vars
-----------------------------------------------------------------------------
(* Properties.                                                             *)

\* The types, an event for accepted rows only, and rows numbered from the
\* sequence that draws them.
TypeOK ==
    /\ mode \in {"Down", "Fresh", "Fenced"}
    /\ stream \in {"Open", "Closed"}
    /\ aborts \in 0..MaxAborts
    /\ operation.stage \in {"none", "seal", "record", "register", "execute"}
    /\ Len(ledger.events) <= Len(ledger.commands)
    /\ \A i \in DOMAIN ledger.commands : ledger.commands[i].row < ledger.nextRow

\* A retried request is recognised and a changed one never is: whatever
\* request reuses a command identity, it is answered with the stored receipt
\* only if it is the very request that made the row (execute_in_transaction
\* compares fingerprints, so no two bodies may share theirs).
ReceiptIsForItsOwnRequest ==
    \A request \in Requests :
        Known(ledger, request.id) =>
            LET row == RowOf(ledger, request.id)
            IN  RequestBytes(request) = row.fingerprint => request = row.origin

\* Every command row and every event row decodes to the value it was written
\* from: the hand-written INSERTs, decoders and code tables agree field by
\* field (insert_command_body, decode_command_body, insert_event_body,
\* decode_event_body and their study counterparts).
LedgerReadsBack ==
    /\ \A i \in DOMAIN ledger.commands :
           RequestOf(ledger.commands[i]) = ledger.commands[i].origin
    /\ \A i \in DOMAIN ledger.events :
           EventOf(ledger.events[i]) = ledger.events[i].origin

\* As long as no transaction aborted, a daemon can restart from whatever
\* sequence of accepted, rejected and repeated requests, crashes included:
\* validate_replayed_materialized_state succeeds.
RestartIsPossible == aborts = 0 => Validates(ledger)

\* A request reads back from the row written for it, and so does its event.
ReadsBack(request) ==
    /\ RequestOf(CommandRow(EmptyLedger, request, "Accepted")) = request
    /\ EventsOf(request.kind) # {} =>
           \A row \in {EventRow(EmptyLedger, request)} : EventOf(row) = row.origin

\* The kernel's own commands for the source of a mission, the object's with
\* the first receipt there can be.
SealCommands ==
    IF scenario.kind # "InstallFoundingMission" THEN {}
    ELSE {ReceiptCommand(MissionDigest(r.body)) : r \in Requests}
         \cup {Proper(<<4>> \o MissionDigest(r.body), Kernel, "RegisterContentObject", <<<<1>>>>) :
                   r \in Requests}

\* The tables are faithful to the requests of the scenario, whatever the ledger
\* holds: requests and events read back, no two requests share a fingerprint,
\* and the kernel's own commands for a mission read back and have identities of
\* their own (insert_command_body, decode_command_body, request_fingerprint,
\* ContentSealOperationId::parse).  The object's command carries the receipt's
\* identity, any number, in its only column.
ScenarioIsFaithful ==
    /\ \A r \in Requests \cup SealCommands : ReadsBack(r)
    /\ \A r \in Requests :
          LET bytes == RequestBytes(r)
          IN  \A q \in Requests : q # r => RequestBytes(q) # bytes
    /\ \A r \in SealCommands : \A q \in Requests : q.id # r.id
    /\ scenario.kind = "InstallFoundingMission" =>
          /\ Layout("RegisterContentObject") = <<N>>
          /\ CommandInserts["RegisterContentObject"] = <<1>>
          /\ CommandReads["RegisterContentObject"] = <<1>>
          /\ ~IsStudy("RegisterContentObject")

\* Every behaviour starts from a faithful scenario: for each command kind and
\* each pair of its bodies the hand-written tables agree.  A scenario never
\* changes, so it is enough to look before the daemon has written anything.
StartsFaithful == mode = "Fresh" /\ ledger = EmptyLedger => ScenarioIsFaithful

\* An installed founding mission has its source sealed in the content store
\* and registered as an object before it, and there is only one
\* (execute_founding_mission, install_founding_mission), whatever step the
\* daemon crashed after.
MissionHasItsSource ==
    \A m \in Applied(ledger, "InstallFoundingMission") :
        /\ MissionDigest(m.body) \in sealed
        /\ \E o \in ledger.material : /\ o.kind = "RegisterContentObject"
                                      /\ o.row < m.row
        /\ \A other \in Applied(ledger, "InstallFoundingMission") : other = m

\* README.md calls replay validation a gate every ledger passes before new
\* commands: any ledger the daemon itself wrote validates.
EveryLedgerValidates == Validates(ledger)

\* What daemon.rs says of the supervisor stream: it may authorize a founding
\* or Root Authority command.
SupervisorMaySpeakForRoot ==
    \A request \in Requests :
        (/\ Idle /\ mode = "Fresh" /\ stream = "Open"
         /\ request.principal = Root
         /\ request.kind \in WireKinds
         /\ EnvelopeVerdict(ledger, request) = "")
        => SupervisorMaySubmit(request)
=============================================================================
