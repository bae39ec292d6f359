---------------------------- MODULE Coordination ----------------------------
(***************************************************************************)
(* The coordination ledger of the society kernel: projects, tickets, work  *)
(* items with their leases and attempts, graph revisions, adversarial      *)
(* reviews, causal Postmortems, episodes and outcome obligations           *)
(* (store.rs, handlers create_project to resolve_outcome_obligation).      *)
(*                                                                         *)
(* A table is a sequence of rows: a row's identity is its position, as the *)
(* identity columns of kernel.sql number them, and no row is ever deleted. *)
(* A reference to another table is a position, 0 for NULL.  Texts, names   *)
(* and digests are left out.  Every action is one committed command.       *)
(***************************************************************************)
EXTENDS Integers, Sequences, FiniteSets

CONSTANTS
    MaxOf,      \* the most rows of each table, a record with a field per table
    MaxRows,    \* the most rows of all tables together
    MaxCycles   \* the most operating cycles

ASSUME BoundsAssumption ==
    /\ MaxRows \in Nat /\ MaxCycles \in Nat \ {0}
    /\ \A t \in DOMAIN MaxOf : MaxOf[t] \in Nat

VARIABLES
    cycle,      \* the latest operating cycle: its number and whether it is Running
    projects, tickets, actors, works, leases, attempts,
    revisions, edges, reviews, challenges, episodes, postmortems, outcomes

workTables == <<tickets, actors, works, leases, attempts>>
reviewTables == <<revisions, edges, reviews, challenges>>
sideTables == <<episodes, postmortems, outcomes>>
vars == <<cycle, projects, workTables, reviewTables, sideTables>>

-----------------------------------------------------------------------------
(* The state sets of domain.rs and the rows of kernel.sql.                 *)

ProjectStates == {"Proposed", "Challenged", "Chartered", "Active", "Paused",
                  "Observing", "Closed", "Terminated", "Reopened"}

\* ChangesRequested and Expired are declared and never assigned.
TicketStates == {"Draft", "Admitted", "Ready", "Claimed", "Submitted",
                 "Verified", "Completed", "Cancelled", "Failed"}

\* Failed stands for ProtocolFailed and SupervisorFailed too, which no guard
\* or assignment tells from it.
AttemptStates == {"Running", "CancellationRequested", "Succeeded", "Failed",
                  "Cancelled", "Expired", "Validated"}

ReviewStates == {"Requested", "Assigned", "ResponsesDue", "Resolved",
                 "AcceptedRisk"}

EpisodeStates == {"Framed", "Admitted", "Investigating",
                  "PrototypeDeliberating", "Prototyping",
                  "CandidateValidating", "DeliveryDeliberating",
                  "DeliveryAuthorized", "Materializing", "Observing",
                  "Learning", "Closed", "ClosedNoAction", "ClosedNoDelivery",
                  "Abandoned", "Reverted", "Reopened"}

ProjectRows == [state : ProjectStates, milestone : {"None", "Pending", "Completed"}]
TicketRows == [project : Nat, state : TicketStates, prerequisite : Nat,
               satisfied : BOOLEAN]
WorkRows == [ticket : Nat, actor : Nat, review : Nat, retryOf : Nat,
             state : {"Ready", "Claimed", "Running", "Settled"}]
LeaseRows == [work : Nat, actor : Nat,
              state : {"Active", "Released", "Expired", "Cancelled"}]
AttemptRows == [cycle : Nat, ticket : Nat, work : Nat, lease : Nat, actor : Nat,
                state : AttemptStates, reconciled : BOOLEAN,
                child : {"None", "Admitted", "Lost"}]
ReviewRows == [project : Nat, target : Nat, state : ReviewStates,
               reviewer : Nat, attempt : Nat]
ChallengeRows == [review : Nat, author : Nat, responded : BOOLEAN,
                  disposed : BOOLEAN]

Live == {"Running", "CancellationRequested"}
Retryable == {"Failed", "Cancelled", "Expired"}

Init ==
    /\ cycle = [number |-> 1, running |-> TRUE]
    /\ projects = <<>> /\ tickets = <<>> /\ actors = <<>> /\ works = <<>>
    /\ leases = <<>> /\ attempts = <<>> /\ revisions = <<>> /\ edges = {}
    /\ reviews = <<>> /\ challenges = <<>> /\ episodes = <<>>
    /\ postmortems = <<>> /\ outcomes = <<>>

\* The bounds: a table may take one more row.  A row of a side table, which
\* only its project's closure ever reads, weighs three.
Weight(name) == IF name \in {"episodes", "postmortems", "outcomes"} THEN 3 ELSE 1

Rows == Len(projects) + Len(tickets) + Len(actors) + Len(works) + Len(leases)
        + Len(attempts) + Len(revisions) + Len(reviews) + Len(challenges)
        + 3 * (Len(episodes) + Len(postmortems) + Len(outcomes))

Room(table, name) == Len(table) < MaxOf[name] /\ Rows + Weight(name) <= MaxRows

-----------------------------------------------------------------------------
(* Guards shared by the handlers.                                          *)

\* Only a Running cycle, named with its current generation, coordinates.
Coordinates == cycle.running

ProjectIsActive(p) == projects[p].state = "Active"

PrerequisitesComplete(t) ==
    tickets[t].prerequisite # 0 => tickets[tickets[t].prerequisite].state = "Completed"

IsCommitted(r) == revisions[r].committed

\* Actor instances belong to one cycle for good.
ServesCycle(a) == actors[a] = cycle.number

\* Mutant: the blockers are the tickets alone.
CloseBlockedByTicketsOnly(p) ==
    \E t \in DOMAIN tickets : tickets[t].project = p /\ tickets[t].state # "Completed"

\* What keeps an Observing project from closing.  (A pending experiment also
\* does; experiments are Evaluation's.)
CloseBlocked(p) ==
    \/ projects[p].milestone = "Pending"
    \/ \E t \in DOMAIN tickets :
         tickets[t].project = p /\ tickets[t].state # "Completed"
    \/ \E v \in DOMAIN reviews :
         reviews[v].project = p /\ reviews[v].state \notin {"Resolved", "AcceptedRisk"}
    \/ \E m \in DOMAIN postmortems :
         postmortems[m].project = p /\ postmortems[m].state # "Closed"
    \/ \E a \in DOMAIN attempts :
         /\ tickets[attempts[a].ticket].project = p
         /\ \/ attempts[a].state \in Live
            \/ ~attempts[a].reconciled
            \/ attempts[a].child # "None"
    \/ \E l \in DOMAIN leases :
         /\ tickets[works[leases[l].work].ticket].project = p
         /\ leases[l].state = "Active"
    \/ \E o \in DOMAIN outcomes :
         outcomes[o].project = p /\ outcomes[o].state = "Scheduled"

-----------------------------------------------------------------------------
(* The cycle's lifecycle, as far as coordination sees it; OperatingCycle   *)
(* has the rest.                                                           *)

\* active_work_lease_count and live_actor_attempt_count of the latest cycle.
OwnedWorkDrained ==
    /\ \A l \in DOMAIN leases :
         actors[leases[l].actor] = cycle.number => leases[l].state # "Active"
    /\ \A a \in DOMAIN attempts :
         attempts[a].cycle = cycle.number => attempts[a].state \notin Live

\* The cycle leaves Running: it is quiesced, cancelled or frozen.
StopCycle ==
    /\ cycle.running
    /\ cycle' = [cycle EXCEPT !.running = FALSE]
    /\ UNCHANGED <<projects, workTables, reviewTables, sideTables>>

ResumeCycle ==
    /\ ~cycle.running
    /\ OwnedWorkDrained
    /\ cycle' = [cycle EXCEPT !.running = TRUE]
    /\ UNCHANGED <<projects, workTables, reviewTables, sideTables>>

\* The cycle closes and a successor is proposed, admitted and started.
SucceedCycle ==
    /\ ~cycle.running
    /\ cycle.number < MaxCycles
    /\ OwnedWorkDrained
    /\ \A a \in DOMAIN attempts :
         attempts[a].cycle = cycle.number => attempts[a].reconciled
    /\ cycle' = [number |-> cycle.number + 1, running |-> TRUE]
    /\ UNCHANGED <<projects, workTables, reviewTables, sideTables>>

-----------------------------------------------------------------------------
(* Projects.                                                               *)

\* The only coordination command that does not ask for a Running cycle.
CreateProject ==
    /\ Room(projects, "projects")
    /\ projects' = Append(projects, [state |-> "Proposed", milestone |-> "None"])
    /\ UNCHANGED <<cycle, workTables, reviewTables, sideTables>>

CharterProject(p) ==
    /\ Coordinates
    /\ projects[p].state = "Challenged"
    /\ projects' = [projects EXCEPT ![p] = [state |-> "Chartered", milestone |-> "Pending"]]
    /\ UNCHANGED <<cycle, workTables, reviewTables, sideTables>>

ProjectTransitionAllowed ==
    {<<"Proposed", "Challenged">>, <<"Chartered", "Active">>,
     <<"Active", "Paused">>, <<"Active", "Observing">>, <<"Active", "Terminated">>,
     <<"Paused", "Active">>, <<"Paused", "Terminated">>,
     <<"Observing", "Closed">>, <<"Observing", "Terminated">>,
     <<"Chartered", "Terminated">>, <<"Reopened", "Active">>}

TransitionProject(p, target) ==
    /\ Coordinates
    /\ <<projects[p].state, target>> \in ProjectTransitionAllowed
    /\ target = "Closed" => ~CloseBlocked(p)
    /\ projects' = [projects EXCEPT ![p].state = target]
    /\ UNCHANGED <<cycle, workTables, reviewTables, sideTables>>

CompleteProjectMilestone(p) ==
    /\ Coordinates
    /\ projects[p].milestone = "Pending"
    /\ projects' = [projects EXCEPT ![p].milestone = "Completed"]
    /\ UNCHANGED <<cycle, workTables, reviewTables, sideTables>>

ReopenProject(p) ==
    /\ Coordinates
    /\ projects[p].state \in {"Closed", "Terminated"}
    /\ projects' = [projects EXCEPT ![p].state = "Reopened"]
    /\ UNCHANGED <<cycle, workTables, reviewTables, sideTables>>

-----------------------------------------------------------------------------
(* Tickets, work items, leases and attempts.                               *)

CreateTicket(p, prerequisite) ==
    /\ Coordinates
    /\ ProjectIsActive(p)
    /\ prerequisite # 0 => tickets[prerequisite].project = p
    /\ Room(tickets, "tickets")
    /\ tickets' = Append(tickets, [project |-> p, state |-> "Draft",
                                   prerequisite |-> prerequisite, satisfied |-> FALSE])
    /\ UNCHANGED <<cycle, projects, actors, works, leases, attempts, reviewTables, sideTables>>

AdmitTicket(t) ==
    /\ Coordinates
    /\ ProjectIsActive(tickets[t].project)
    /\ tickets[t].state = "Draft"
    /\ tickets' = [tickets EXCEPT ![t].state = "Admitted"]
    /\ UNCHANGED <<cycle, projects, actors, works, leases, attempts, reviewTables, sideTables>>

AdmitActorInstance ==
    /\ Coordinates
    /\ Room(actors, "actors")
    /\ actors' = Append(actors, cycle.number)
    /\ UNCHANGED <<cycle, projects, tickets, works, leases, attempts, reviewTables, sideTables>>

\* review = 0 is a TicketExecution item, any other an IndependentReview of it.
RegisterWorkItem(t, a, review) ==
    /\ Coordinates
    /\ ProjectIsActive(tickets[t].project)
    /\ tickets[t].state = "Admitted" /\ PrerequisitesComplete(t)
    /\ ServesCycle(a)
    /\ review # 0 => /\ reviews[review].project = tickets[t].project
                     /\ reviews[review].state = "Requested"
                     /\ IsCommitted(reviews[review].target)
    /\ Room(works, "works")
    /\ works' = Append(works, [ticket |-> t, actor |-> a, review |-> review,
                               retryOf |-> 0, state |-> "Ready"])
    /\ tickets' = [tickets EXCEPT ![t].state = "Ready"]
    /\ UNCHANGED <<cycle, projects, actors, leases, attempts, reviewTables, sideTables>>

\* one_active_lease_per_work_item of kernel.sql.
ActiveLeases(w) == {l \in DOMAIN leases : leases[l].work = w /\ leases[l].state = "Active"}

ClaimWorkItem(w) ==
    /\ Coordinates
    /\ ProjectIsActive(tickets[works[w].ticket].project)
    /\ ServesCycle(works[w].actor)
    /\ works[w].state = "Ready" /\ tickets[works[w].ticket].state = "Ready"
    /\ ActiveLeases(w) = {}
    /\ Room(leases, "leases")
    /\ leases' = Append(leases, [work |-> w, actor |-> works[w].actor, state |-> "Active"])
    /\ works' = [works EXCEPT ![w].state = "Claimed"]
    /\ tickets' = [tickets EXCEPT ![works[w].ticket].state = "Claimed"]
    /\ UNCHANGED <<cycle, projects, actors, attempts, reviewTables, sideTables>>

\* The reservation it makes is an open account until ReconcileAttemptBudget;
\* whether it fits the envelopes is OperatingCycle's business.
StartActorAttempt(w, l) ==
    /\ Coordinates
    /\ ProjectIsActive(tickets[works[w].ticket].project)
    /\ works[w].state = "Claimed" /\ tickets[works[w].ticket].state = "Claimed"
    /\ ServesCycle(works[w].actor)
    /\ l \in ActiveLeases(w) /\ leases[l].actor = works[w].actor
    /\ \A a \in DOMAIN attempts : attempts[a].work = w => attempts[a].state \notin Live
    /\ Room(attempts, "attempts")
    /\ attempts' = Append(attempts,
         [cycle |-> cycle.number, ticket |-> works[w].ticket, work |-> w, lease |-> l,
          actor |-> works[w].actor, state |-> "Running", reconciled |-> FALSE,
          child |-> "None"])
    /\ works' = [works EXCEPT ![w].state = "Running"]
    /\ UNCHANGED <<cycle, projects, tickets, actors, leases, reviewTables, sideTables>>

TerminalAllowedFrom(state) ==
    CASE state = "Running" -> {"Succeeded", "Failed", "Expired"}
      [] state = "CancellationRequested" -> {"Cancelled"}
      [] OTHER -> {}

\* Mutant: an expired attempt leaves its ticket Expired, which nothing leaves.
TicketAfterExpired(kind) ==
    CASE kind = "Succeeded" -> "Submitted"
      [] kind = "Cancelled" -> "Cancelled"
      [] kind = "Expired" -> "Expired"
      [] OTHER -> "Failed"

TicketAfter(kind) ==
    CASE kind = "Succeeded" -> "Submitted"
      [] kind = "Cancelled" -> "Cancelled"
      [] kind = "Expired" -> "Ready"
      [] OTHER -> "Failed"

\* Carries no generation: it is recorded in any state of the cycle.
AttestActorAttemptTerminal(a, kind) ==
    /\ attempts[a].child = "None"
    /\ kind \in TerminalAllowedFrom(attempts[a].state)
    /\ attempts' = [attempts EXCEPT ![a].state = kind]
    /\ leases' = IF leases[attempts[a].lease].state = "Active"
                 THEN [leases EXCEPT ![attempts[a].lease].state =
                         IF kind = "Cancelled" THEN "Cancelled" ELSE "Released"]
                 ELSE leases
    /\ works' = [works EXCEPT ![attempts[a].work].state = "Settled"]
    /\ tickets' = [tickets EXCEPT ![attempts[a].ticket].state = TicketAfter(kind)]
    /\ UNCHANGED <<cycle, projects, actors, reviewTables, sideTables>>

ValidateTicketAttempt(a) ==
    /\ Coordinates
    /\ attempts[a].cycle = cycle.number
    /\ attempts[a].state = "Succeeded"
    /\ tickets[attempts[a].ticket].state = "Submitted"
    /\ attempts' = [attempts EXCEPT ![a].state = "Validated"]
    /\ tickets' = [tickets EXCEPT ![attempts[a].ticket].state = "Verified",
                                  ![attempts[a].ticket].satisfied = TRUE]
    /\ UNCHANGED <<cycle, projects, actors, works, leases, reviewTables, sideTables>>

RetryActorAttempt(a) ==
    /\ Coordinates
    /\ ProjectIsActive(tickets[attempts[a].ticket].project)
    /\ attempts[a].cycle = cycle.number
    /\ attempts[a].state \in Retryable
    /\ works[attempts[a].work].state = "Settled"
    /\ works' = [works EXCEPT ![attempts[a].work].state = "Ready",
                              ![attempts[a].work].retryOf = a]
    /\ tickets' = [tickets EXCEPT ![attempts[a].ticket].state = "Ready"]
    /\ UNCHANGED <<cycle, projects, actors, leases, attempts, reviewTables, sideTables>>

\* Mutant: a submitted ticket completes without validation.
CompleteSubmitted(a) ==
    /\ Coordinates
    /\ attempts[a].state = "Succeeded"
    /\ tickets' = [tickets EXCEPT ![attempts[a].ticket].state = "Completed"]
    /\ UNCHANGED <<cycle, projects, actors, works, leases, attempts, reviewTables, sideTables>>

CompleteTicket(a) ==
    /\ Coordinates
    /\ attempts[a].cycle = cycle.number
    /\ attempts[a].state = "Validated"
    /\ tickets[attempts[a].ticket].state = "Verified"
    /\ tickets[attempts[a].ticket].satisfied
    /\ tickets' = [tickets EXCEPT ![attempts[a].ticket].state = "Completed"]
    /\ UNCHANGED <<cycle, projects, actors, works, leases, attempts, reviewTables, sideTables>>

\* Mutant: a lease may expire under its running attempt.
ExpireAnyLease(l) ==
    /\ leases[l].state = "Active"
    /\ leases' = [leases EXCEPT ![l].state = "Expired"]
    /\ works' = [works EXCEPT ![leases[l].work].state = "Ready"]
    /\ tickets' = [tickets EXCEPT ![works[leases[l].work].ticket].state = "Ready"]
    /\ UNCHANGED <<cycle, projects, actors, attempts, reviewTables, sideTables>>

ExpireWorkLease(l) ==
    /\ leases[l].state = "Active"
    /\ \A a \in DOMAIN attempts : attempts[a].lease # l
    /\ leases' = [leases EXCEPT ![l].state = "Expired"]
    /\ works' = [works EXCEPT ![leases[l].work].state = "Ready"]
    /\ tickets' = [tickets EXCEPT ![works[leases[l].work].ticket].state = "Ready"]
    /\ UNCHANGED <<cycle, projects, actors, attempts, reviewTables, sideTables>>

CancelActorAttempt(a) ==
    /\ attempts[a].state = "Running"
    /\ attempts' = [attempts EXCEPT ![a].state = "CancellationRequested"]
    /\ UNCHANGED <<cycle, projects, tickets, actors, works, leases, reviewTables, sideTables>>

\* reconcile_budget settles the attempt's reservation, whatever its state.
ReconcileAttemptBudget(a) ==
    /\ ~attempts[a].reconciled
    /\ attempts' = [attempts EXCEPT ![a].reconciled = TRUE]
    /\ UNCHANGED <<cycle, projects, tickets, actors, works, leases, reviewTables, sideTables>>

\* A Pi child is admitted for the attempt, once.  Its finalization changes
\* nothing here: the attempt still has its admission, which keeps its project
\* open and its attestation refused.
AdmitAttemptChild(a) ==
    /\ Coordinates
    /\ attempts[a].cycle = cycle.number
    /\ attempts[a].state = "Running" /\ attempts[a].child = "None"
    /\ attempts' = [attempts EXCEPT ![a].child = "Admitted"]
    /\ UNCHANGED <<cycle, projects, tickets, actors, works, leases, reviewTables, sideTables>>

\* After a restart record_child_recovery finds the child's group gone.
LoseAttemptChild(a) ==
    /\ attempts[a].child = "Admitted"
    /\ attempts' = [attempts EXCEPT ![a].child = "Lost"]
    /\ UNCHANGED <<cycle, projects, tickets, actors, works, leases, reviewTables, sideTables>>

\* The only command that ends an attempt with a child, as SupervisorFailed: it
\* leaves the lease Active, the item Running and the ticket Claimed.  (That the
\* attempt is bound to an open obligation of a study, and has no terminal
\* receipt, is Study's and TaskSession's.)
SettleActorTaskAttemptAfterRecovery(a) ==
    /\ attempts[a].child = "Lost"
    /\ attempts[a].state \in Live
    /\ attempts' = [attempts EXCEPT ![a].state = "Failed"]
    /\ UNCHANGED <<cycle, projects, tickets, actors, works, leases, reviewTables, sideTables>>

-----------------------------------------------------------------------------
(* The causal graph.                                                       *)

\* object = 0 creates the object with its first revision.
AddGraphObjectRevision(p, object, kind) ==
    /\ Coordinates
    /\ ProjectIsActive(p)
    /\ object # 0 => \E r \in DOMAIN revisions :
                        /\ revisions[r].object = object
                        /\ revisions[r].project = p /\ revisions[r].kind = kind
    /\ Room(revisions, "revisions")
    /\ revisions' = Append(revisions,
         [project |-> p, kind |-> kind, committed |-> FALSE,
          object |-> IF object = 0 THEN Len(revisions) + 1 ELSE object])
    /\ UNCHANGED <<cycle, projects, workTables, edges, reviews, challenges, sideTables>>

CommitGraphRevision(r) ==
    /\ Coordinates
    /\ ProjectIsActive(revisions[r].project)
    /\ ~IsCommitted(r)
    /\ revisions' = [revisions EXCEPT ![r].committed = TRUE]
    /\ UNCHANGED <<cycle, projects, workTables, edges, reviews, challenges, sideTables>>

EdgeAllows(kind, from, to) ==
    /\ to = "Hypothesis"
    /\ kind = "Challenges" => from = "Observation"

AddGraphEdge(from, to, kind) ==
    /\ Coordinates
    /\ ProjectIsActive(revisions[from].project)
    /\ revisions[to].project = revisions[from].project
    /\ IsCommitted(from) /\ IsCommitted(to)
    /\ EdgeAllows(kind, revisions[from].kind, revisions[to].kind)
    /\ edges' = edges \cup {<<from, to, kind>>}
    /\ UNCHANGED <<cycle, projects, workTables, revisions, reviews, challenges, sideTables>>

-----------------------------------------------------------------------------
(* Adversarial reviews.                                                    *)

RequestAdversarialReview(r) ==
    /\ Coordinates
    /\ ProjectIsActive(revisions[r].project)
    /\ IsCommitted(r)
    /\ Room(reviews, "reviews")
    /\ reviews' = Append(reviews, [project |-> revisions[r].project, target |-> r,
                                   state |-> "Requested", reviewer |-> 0, attempt |-> 0])
    /\ UNCHANGED <<cycle, projects, workTables, revisions, edges, challenges, sideTables>>

\* Mutant: any succeeded attempt in the review's project is evidence.
AnyEvidence(v, a) ==
    /\ tickets[attempts[a].ticket].project = reviews[v].project
    /\ attempts[a].state \in {"Succeeded", "Validated"}

\* The evidence of independence: an attempt of this actor, on an
\* IndependentReview item bound to this very review, that succeeded.
ReviewEvidence(v, a) ==
    /\ attempts[a].cycle = cycle.number
    /\ tickets[attempts[a].ticket].project = reviews[v].project
    /\ works[attempts[a].work].review = v
    /\ attempts[a].state \in {"Succeeded", "Validated"}

AssignAdversarialReviewer(v, a) ==
    /\ Coordinates
    /\ reviews[v].state = "Requested"
    /\ ServesCycle(attempts[a].actor)
    /\ ReviewEvidence(v, a)
    /\ reviews' = [reviews EXCEPT ![v].state = "Assigned",
                                  ![v].reviewer = attempts[a].actor, ![v].attempt = a]
    /\ UNCHANGED <<cycle, projects, workTables, revisions, edges, challenges, sideTables>>

SubmitReviewChallenge(v, author) ==
    /\ Coordinates
    /\ reviews[v].reviewer = author
    /\ ServesCycle(author)
    /\ reviews[v].state \in {"Assigned", "ResponsesDue"}
    /\ IsCommitted(reviews[v].target)
    /\ Room(challenges, "challenges")
    /\ challenges' = Append(challenges, [review |-> v, author |-> author,
                                         responded |-> FALSE, disposed |-> FALSE])
    /\ reviews' = [reviews EXCEPT ![v].state = "ResponsesDue"]
    /\ UNCHANGED <<cycle, projects, workTables, revisions, edges, sideTables>>

RespondToReviewChallenge(c) ==
    /\ Coordinates
    /\ ~challenges[c].responded
    /\ challenges' = [challenges EXCEPT ![c].responded = TRUE]
    /\ UNCHANGED <<cycle, projects, workTables, revisions, edges, reviews, sideTables>>

\* One disposition a challenge, by a principal other than its author: the
\* capability is the Root Authority's, which is never an actor instance.
DispositionReviewChallenge(c) ==
    /\ Coordinates
    /\ challenges[c].responded
    /\ ~challenges[c].disposed
    /\ challenges' = [challenges EXCEPT ![c].disposed = TRUE]
    /\ UNCHANGED <<cycle, projects, workTables, revisions, edges, reviews, sideTables>>

IsAnswered(c) == challenges[c].responded /\ challenges[c].disposed

ResolveAdversarialReview(v, resolution) ==
    /\ Coordinates
    /\ reviews[v].state = "ResponsesDue"
    /\ \A c \in DOMAIN challenges : challenges[c].review = v => IsAnswered(c)
    /\ reviews' = [reviews EXCEPT ![v].state = resolution]
    /\ UNCHANGED <<cycle, projects, workTables, revisions, edges, challenges, sideTables>>

-----------------------------------------------------------------------------
(* Episodes, causal Postmortems and outcome obligations.                   *)

CreateEpisode(p) ==
    /\ Coordinates
    /\ ProjectIsActive(p)
    /\ Room(episodes, "episodes")
    /\ episodes' = Append(episodes, [project |-> p, state |-> "Framed"])
    /\ UNCHANGED <<cycle, projects, workTables, reviewTables, postmortems, outcomes>>

\* Abandoned is allowed from every state the table lists.
EpisodeSuccessors ==
    [Framed |-> {"Admitted"}, Admitted |-> {"Investigating"},
     Investigating |-> {"PrototypeDeliberating", "ClosedNoAction"},
     PrototypeDeliberating |-> {"Prototyping", "ClosedNoAction"},
     Prototyping |-> {"CandidateValidating", "Reverted"},
     CandidateValidating |-> {"DeliveryDeliberating", "Reverted"},
     DeliveryDeliberating |-> {"DeliveryAuthorized", "ClosedNoDelivery"},
     DeliveryAuthorized |-> {"Materializing"}, Materializing |-> {"Observing"},
     Observing |-> {"Learning", "Closed"}, Learning |-> {"Closed"},
     Reopened |-> {"Investigating"}]

TransitionEpisode(e, target) ==
    /\ Coordinates
    /\ episodes[e].state \in DOMAIN EpisodeSuccessors
    /\ target \in EpisodeSuccessors[episodes[e].state] \cup {"Abandoned"}
    /\ episodes' = [episodes EXCEPT ![e].state = target]
    /\ UNCHANGED <<cycle, projects, workTables, reviewTables, postmortems, outcomes>>

ReopenEpisode(e) ==
    /\ Coordinates
    /\ episodes[e].state \in {"Closed", "ClosedNoAction", "ClosedNoDelivery", "Reverted"}
    /\ episodes' = [episodes EXCEPT ![e].state = "Reopened"]
    /\ UNCHANGED <<cycle, projects, workTables, reviewTables, postmortems, outcomes>>

\* Of the claims and proposed actions only "is there one" is ever asked.
TriggerPostmortem(p) ==
    /\ Coordinates
    /\ ProjectIsActive(p)
    /\ Room(postmortems, "postmortems")
    /\ postmortems' = Append(postmortems, [project |-> p, state |-> "Triggered",
                                           claims |-> FALSE, actions |-> FALSE])
    /\ UNCHANGED <<cycle, projects, workTables, reviewTables, episodes, outcomes>>

InvestigatePostmortem(m, part) ==
    /\ Coordinates
    /\ postmortems[m].state # "Closed"
    /\ postmortems' = [postmortems EXCEPT ![m][part] = TRUE, ![m].state = "Investigating"]
    /\ UNCHANGED <<cycle, projects, workTables, reviewTables, episodes, outcomes>>

RecordPostmortemCausalClaim(m) == InvestigatePostmortem(m, "claims")

ProposePostmortemAction(m) == InvestigatePostmortem(m, "actions")

ClosePostmortem(m) ==
    /\ Coordinates
    /\ postmortems[m].state # "Closed"
    /\ postmortems[m].claims /\ postmortems[m].actions
    /\ postmortems' = [postmortems EXCEPT ![m].state = "Closed"]
    /\ UNCHANGED <<cycle, projects, workTables, reviewTables, episodes, outcomes>>

RegisterOutcomeObligation(p) ==
    /\ Coordinates
    /\ ProjectIsActive(p)
    /\ Room(outcomes, "outcomes")
    /\ outcomes' = Append(outcomes, [project |-> p, state |-> "Scheduled"])
    /\ UNCHANGED <<cycle, projects, workTables, reviewTables, episodes, postmortems>>

ResolveOutcomeObligation(o, disposition) ==
    /\ Coordinates
    /\ outcomes[o].state = "Scheduled"
    /\ outcomes' = [outcomes EXCEPT ![o].state = disposition]
    /\ UNCHANGED <<cycle, projects, workTables, reviewTables, episodes, postmortems>>

-----------------------------------------------------------------------------

ProjectStep ==
    \/ CreateProject
    \/ \E p \in DOMAIN projects :
         \/ CharterProject(p) \/ CompleteProjectMilestone(p) \/ ReopenProject(p)
         \/ \E target \in ProjectStates : TransitionProject(p, target)

WorkStep ==
    \/ AdmitActorInstance
    \/ \E p \in DOMAIN projects, t \in DOMAIN tickets \cup {0} : CreateTicket(p, t)
    \/ \E t \in DOMAIN tickets :
         \/ AdmitTicket(t)
         \/ \E a \in DOMAIN actors, v \in DOMAIN reviews \cup {0} : RegisterWorkItem(t, a, v)
    \/ \E w \in DOMAIN works :
         ClaimWorkItem(w) \/ \E l \in DOMAIN leases : StartActorAttempt(w, l)
    \/ \E l \in DOMAIN leases : ExpireWorkLease(l)
    \/ \E a \in DOMAIN attempts :
         \/ \E kind \in AttemptStates : AttestActorAttemptTerminal(a, kind)
         \/ ValidateTicketAttempt(a) \/ RetryActorAttempt(a) \/ CompleteTicket(a)
         \/ CancelActorAttempt(a) \/ ReconcileAttemptBudget(a)
         \/ AdmitAttemptChild(a) \/ LoseAttemptChild(a)
         \/ SettleActorTaskAttemptAfterRecovery(a)

ReviewStep ==
    \/ \E p \in DOMAIN projects, o \in DOMAIN revisions \cup {0},
          kind \in {"Observation", "Hypothesis"} : AddGraphObjectRevision(p, o, kind)
    \/ \E r \in DOMAIN revisions :
         \/ CommitGraphRevision(r) \/ RequestAdversarialReview(r)
         \/ \E to \in DOMAIN revisions, kind \in {"Supports", "Challenges"} :
              AddGraphEdge(r, to, kind)
    \/ \E v \in DOMAIN reviews :
         \/ \E a \in DOMAIN attempts : AssignAdversarialReviewer(v, a)
         \/ \E a \in DOMAIN actors : SubmitReviewChallenge(v, a)
         \/ \E r \in {"Resolved", "AcceptedRisk"} : ResolveAdversarialReview(v, r)
    \/ \E c \in DOMAIN challenges :
         RespondToReviewChallenge(c) \/ DispositionReviewChallenge(c)

SideStep ==
    \/ \E p \in DOMAIN projects :
         CreateEpisode(p) \/ TriggerPostmortem(p) \/ RegisterOutcomeObligation(p)
    \/ \E e \in DOMAIN episodes :
         ReopenEpisode(e) \/ \E target \in EpisodeStates : TransitionEpisode(e, target)
    \/ \E m \in DOMAIN postmortems :
         RecordPostmortemCausalClaim(m) \/ ProposePostmortemAction(m) \/ ClosePostmortem(m)
    \/ \E o \in DOMAIN outcomes, d \in {"Satisfied", "Waived"} : ResolveOutcomeObligation(o, d)

CycleStep == StopCycle \/ ResumeCycle \/ SucceedCycle

Next == CycleStep \/ ProjectStep \/ WorkStep \/ ReviewStep \/ SideStep

Spec == Init /\ [][Next]_vars

-----------------------------------------------------------------------------
(* Properties.                                                             *)

\* Every table keeps its row type: no handler writes a state domain.rs does
\* not let it write.
TypeOK ==
    /\ cycle \in [number : 1..MaxCycles, running : BOOLEAN]
    /\ projects \in Seq(ProjectRows) /\ tickets \in Seq(TicketRows)
    /\ actors \in Seq(1..MaxCycles) /\ works \in Seq(WorkRows)
    /\ leases \in Seq(LeaseRows) /\ attempts \in Seq(AttemptRows)
    /\ reviews \in Seq(ReviewRows) /\ challenges \in Seq(ChallengeRows)
    /\ \A e \in DOMAIN episodes : episodes[e].state \in EpisodeStates

\* A Closed project owns nothing unfinished, whatever was opened, retried,
\* expired or reviewed before and after it was observed: no incomplete ticket,
\* live attempt, active lease, unreconciled reservation, open review,
\* Postmortem or scheduled outcome (project_close_blocked, store.rs:8484).
ClosedProjectIsSettled ==
    \A p \in DOMAIN projects : projects[p].state = "Closed" =>
      /\ projects[p].milestone = "Completed"
      /\ \A t \in DOMAIN tickets : tickets[t].project = p => tickets[t].state = "Completed"
      /\ \A w \in DOMAIN works : tickets[works[w].ticket].project = p =>
           works[w].state = "Settled" /\ ActiveLeases(w) = {}
      /\ \A a \in DOMAIN attempts : tickets[attempts[a].ticket].project = p =>
           attempts[a].reconciled /\ attempts[a].state \notin Live
      /\ \A v \in DOMAIN reviews : reviews[v].project = p =>
           reviews[v].state \in {"Resolved", "AcceptedRisk"}
      /\ \A m \in DOMAIN postmortems : postmortems[m].project = p => postmortems[m].state = "Closed"
      /\ \A o \in DOMAIN outcomes : outcomes[o].project = p => outcomes[o].state # "Scheduled"

\* The recovery settlement ended the attempt and nothing ends its lease: expiry
\* asks for a lease without attempt, a retry for a settled item.
Stranded(a) == attempts[a].state = "Failed" /\ attempts[a].child = "Lost"

\* The attempts that have their work item: the live and the stranded ones.
HoldsItem(a) == attempts[a].state \in Live \/ Stranded(a)

\* A claimed or running item has exactly one active lease and a ready or settled
\* one none; an item runs exactly while one attempt has it, which is live or was
\* settled after recovery, and that attempt's lease is active, its ticket
\* claimed, and no other attempt has its item.  Claim, start, expiry,
\* cancellation, attestation and retry never leave a lease without its claim or
\* a claim without its lease (store.rs:9979-10896), and the settlement after
\* recovery (study.rs:3749) never frees the item for a second attempt: it is
\* stranded, with a lease that keeps its cycle from being closed (store.rs:7750).
LeaseBacksExecution ==
    /\ \A w \in DOMAIN works :
         /\ works[w].state \in {"Claimed", "Running"} <=> Cardinality(ActiveLeases(w)) = 1
         /\ works[w].state \in {"Ready", "Settled"} <=> ActiveLeases(w) = {}
         /\ works[w].state = "Running" <=>
              \E a \in DOMAIN attempts : attempts[a].work = w /\ HoldsItem(a)
    /\ \A a \in DOMAIN attempts : HoldsItem(a) =>
         /\ leases[attempts[a].lease].state = "Active"
         /\ leases[attempts[a].lease].work = attempts[a].work
         /\ tickets[attempts[a].ticket].state = "Claimed"
         /\ \A b \in DOMAIN attempts \ {a} :
              attempts[b].work = attempts[a].work => ~HoldsItem(b)

\* Reviews are independent and answered: past Requested a review names a
\* reviewer whose own succeeded attempt worked on this review, every challenge
\* was written by that reviewer, and a resolved review has no challenge without
\* response and disposition (assign, submit and resolve, store.rs:9190-9507).
ReviewIsIndependent ==
    \A v \in DOMAIN reviews :
      /\ reviews[v].state # "Requested" =>
           LET a == attempts[reviews[v].attempt] IN
             /\ a.actor = reviews[v].reviewer
             /\ works[a.work].review = v
             /\ a.state \in {"Succeeded", "Validated"}
      /\ \A c \in DOMAIN challenges : challenges[c].review = v =>
           /\ challenges[c].author = reviews[v].reviewer
           /\ reviews[v].state \in {"Resolved", "AcceptedRisk"} => IsAnswered(c)

\* A ticket is Verified or Completed only on the strength of a validated
\* attempt of its own (validate_ticket_attempt and complete_ticket).
AcceptanceIsEarned ==
    \A t \in DOMAIN tickets : tickets[t].state \in {"Verified", "Completed"} =>
      /\ tickets[t].satisfied
      /\ \E a \in DOMAIN attempts : attempts[a].ticket = t /\ attempts[a].state = "Validated"

\* Completion is the end of a ticket: "a leased, budgeted, dependent, expiring
\* obligation with explicit completion or failure" (GLOSSARY.md:163).
CompletionIsFinal ==
    [][\A t \in DOMAIN tickets :
         tickets[t].state = "Completed" => tickets'[t].state = "Completed"]_vars

=============================================================================
