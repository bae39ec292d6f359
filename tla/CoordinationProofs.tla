-------------------------- MODULE CoordinationProofs --------------------------
(***************************************************************************)
(* What Coordination checks on small tables, for every bound on them.      *)
(*                                                                         *)
(* First what each command writes, that every row keeps its type and that  *)
(* every reference names a row (Sound). On top of it, one at a time: a     *)
(* lease behind every execution, earned acceptance, independent reviews    *)
(* and settled closed projects.                                            *)
(***************************************************************************)
EXTENDS Coordination, SequenceTheorems, FiniteSetTheorems, TLAPS

-----------------------------------------------------------------------------
(* The types of the tables that TypeOK leaves out.                         *)

RevisionRows == [project : Nat, kind : {"Observation", "Hypothesis"},
                 committed : BOOLEAN, object : Nat]
EpisodeRows == [project : Nat, state : EpisodeStates]
PostmortemRows == [project : Nat, state : {"Triggered", "Investigating", "Closed"},
                   claims : BOOLEAN, actions : BOOLEAN]
OutcomeRows == [project : Nat, state : {"Scheduled", "Satisfied", "Waived"}]

TablesTyped ==
    /\ TypeOK
    /\ revisions \in Seq(RevisionRows)
    /\ episodes \in Seq(EpisodeRows)
    /\ postmortems \in Seq(PostmortemRows)
    /\ outcomes \in Seq(OutcomeRows)

\* The foreign keys of kernel.sql, and the columns an attempt copies from the
\* work item and the lease it runs under.
ForeignKeys ==
    /\ \A w \in DOMAIN works : works[w].ticket \in DOMAIN tickets
    /\ \A l \in DOMAIN leases : leases[l].work \in DOMAIN works
    /\ \A a \in DOMAIN attempts :
         /\ attempts[a].work \in DOMAIN works
         /\ attempts[a].lease \in DOMAIN leases
         /\ leases[attempts[a].lease].work = attempts[a].work
         /\ attempts[a].ticket = works[attempts[a].work].ticket
         /\ attempts[a].actor = works[attempts[a].work].actor
    /\ \A v \in DOMAIN reviews :
         reviews[v].state # "Requested" => reviews[v].attempt \in DOMAIN attempts
    /\ \A c \in DOMAIN challenges : challenges[c].review \in DOMAIN reviews

Sound == TablesTyped /\ ForeignKeys

-----------------------------------------------------------------------------
(* Rows.                                                                   *)

\* Two versions of a table: the second has one more row, at its end.
Appended(old, new, row) ==
    /\ DOMAIN new = DOMAIN old \cup {Len(old) + 1}
    /\ Len(old) + 1 \notin DOMAIN old
    /\ \A i \in DOMAIN old : new[i] = old[i]
    /\ new[Len(old) + 1] = row

\* Two versions of a table that differ in one row.
Rewritten(old, new, i, row) ==
    /\ DOMAIN new = DOMAIN old
    /\ new[i] = row
    /\ \A j \in DOMAIN old : j # i => new[j] = old[j]

\* An insert takes the next number and leaves the other rows alone.
LEMMA AppendRow ==
  ASSUME NEW S, NEW s \in Seq(S), NEW x \in S
  PROVE  Append(s, x) \in Seq(S) /\ Appended(s, Append(s, x), x)
BY DEF Appended

\* An update rewrites one row.
LEMMA UpdateRow ==
  ASSUME NEW S, NEW s \in Seq(S), NEW i \in DOMAIN s, NEW x \in S
  PROVE  /\ [s EXCEPT ![i] = x] \in Seq(S)
         /\ Rewritten(s, [s EXCEPT ![i] = x], i, x)
BY ExceptSeq DEF Rewritten

\* A row that exists has a positive number and its table's type.
LEMMA RowAt ==
  ASSUME NEW S, NEW s \in Seq(S), NEW i \in DOMAIN s
  PROVE  i \in Nat /\ i # 0 /\ s[i] \in S
BY LenProperties

-----------------------------------------------------------------------------
(* The updates of the four tables of execution, column by column.          *)

TicketBecomes(t, state) ==
    /\ tickets' \in Seq(TicketRows) /\ DOMAIN tickets' = DOMAIN tickets
    /\ tickets'[t].state = state
    /\ \A i \in DOMAIN tickets :
         /\ tickets'[i].project = tickets[i].project
         /\ tickets[i].satisfied => tickets'[i].satisfied
         /\ i # t => tickets'[i] = tickets[i]

WorkBecomes(w, state) ==
    /\ works' \in Seq(WorkRows) /\ DOMAIN works' = DOMAIN works
    /\ works'[w].state = state
    /\ \A i \in DOMAIN works :
         /\ works'[i].ticket = works[i].ticket /\ works'[i].actor = works[i].actor
         /\ works'[i].review = works[i].review
         /\ i # w => works'[i] = works[i]

LeaseBecomes(l, state) ==
    /\ leases' \in Seq(LeaseRows) /\ DOMAIN leases' = DOMAIN leases
    /\ leases'[l].state = state
    /\ \A i \in DOMAIN leases :
         /\ leases'[i].work = leases[i].work
         /\ i # l => leases'[i] = leases[i]

AttemptBecomes(a, state) ==
    /\ attempts' \in Seq(AttemptRows) /\ DOMAIN attempts' = DOMAIN attempts
    /\ attempts'[a].state = state
    /\ \A i \in DOMAIN attempts :
         /\ attempts'[i].work = attempts[i].work /\ attempts'[i].lease = attempts[i].lease
         /\ attempts'[i].ticket = attempts[i].ticket
         /\ attempts'[i].actor = attempts[i].actor
         /\ attempts[i].reconciled => attempts'[i].reconciled
         /\ i # a => attempts'[i] = attempts[i]

\* A ticket takes another state.
LEMMA TicketUpdate ==
  ASSUME Sound, NEW t \in DOMAIN tickets, NEW state \in TicketStates,
         tickets' = [tickets EXCEPT ![t].state = state]
  PROVE  TicketBecomes(t, state)
<1> DEFINE row == [tickets[t] EXCEPT !.state = state]
<1>1. tickets \in Seq(TicketRows)
  BY DEF Sound, TablesTyped, TypeOK
<1>2. tickets[t] \in TicketRows
  BY <1>1, RowAt
<1>3. row \in TicketRows /\ tickets' = [tickets EXCEPT ![t] = row]
  BY <1>2 DEF TicketRows
<1>4. /\ row.state = state /\ row.project = tickets[t].project
      /\ row.satisfied = tickets[t].satisfied
  BY <1>2 DEF TicketRows
<1> HIDE DEF row
<1>5. /\ [tickets EXCEPT ![t] = row] \in Seq(TicketRows)
      /\ Rewritten(tickets, [tickets EXCEPT ![t] = row], t, row)
  BY <1>1, <1>3, UpdateRow
<1> QED BY <1>3, <1>4, <1>5 DEF Rewritten, TicketBecomes

\* A ticket's acceptance is satisfied.
LEMMA TicketVerified ==
  ASSUME Sound, NEW t \in DOMAIN tickets,
         tickets' = [tickets EXCEPT ![t].state = "Verified", ![t].satisfied = TRUE]
  PROVE  TicketBecomes(t, "Verified") /\ tickets'[t].satisfied
<1> DEFINE row == [tickets[t] EXCEPT !.state = "Verified", !.satisfied = TRUE]
<1>1. tickets \in Seq(TicketRows)
  BY DEF Sound, TablesTyped, TypeOK
<1>2. tickets[t] \in TicketRows
  BY <1>1, RowAt
<1>3. row \in TicketRows /\ tickets' = [tickets EXCEPT ![t] = row]
  BY <1>2 DEF TicketRows, TicketStates
<1>4. row.state = "Verified" /\ row.project = tickets[t].project /\ row.satisfied = TRUE
  BY <1>2 DEF TicketRows
<1> HIDE DEF row
<1>5. /\ [tickets EXCEPT ![t] = row] \in Seq(TicketRows)
      /\ Rewritten(tickets, [tickets EXCEPT ![t] = row], t, row)
  BY <1>1, <1>3, UpdateRow
<1> QED BY <1>3, <1>4, <1>5 DEF Rewritten, TicketBecomes

\* A work item takes another state.
LEMMA WorkUpdate ==
  ASSUME Sound, NEW w \in DOMAIN works,
         NEW state \in {"Ready", "Claimed", "Running", "Settled"},
         works' = [works EXCEPT ![w].state = state]
  PROVE  WorkBecomes(w, state)
<1> DEFINE row == [works[w] EXCEPT !.state = state]
<1>1. works \in Seq(WorkRows)
  BY DEF Sound, TablesTyped, TypeOK
<1>2. works[w] \in WorkRows
  BY <1>1, RowAt
<1>3. row \in WorkRows /\ works' = [works EXCEPT ![w] = row]
  BY <1>2 DEF WorkRows
<1>4. /\ row.state = state /\ row.ticket = works[w].ticket
      /\ row.actor = works[w].actor /\ row.review = works[w].review
  BY <1>2 DEF WorkRows
<1> HIDE DEF row
<1>5. /\ [works EXCEPT ![w] = row] \in Seq(WorkRows)
      /\ Rewritten(works, [works EXCEPT ![w] = row], w, row)
  BY <1>1, <1>3, UpdateRow
<1> QED BY <1>3, <1>4, <1>5 DEF Rewritten, WorkBecomes

\* A settled work item is readied for a retry and remembers the attempt.
LEMMA WorkRetried ==
  ASSUME Sound, NEW w \in DOMAIN works, NEW a \in DOMAIN attempts,
         works' = [works EXCEPT ![w].state = "Ready", ![w].retryOf = a]
  PROVE  WorkBecomes(w, "Ready")
<1> DEFINE row == [works[w] EXCEPT !.state = "Ready", !.retryOf = a]
<1>1. works \in Seq(WorkRows) /\ attempts \in Seq(AttemptRows)
  BY DEF Sound, TablesTyped, TypeOK
<1>2. works[w] \in WorkRows /\ a \in Nat
  BY <1>1, RowAt
<1>3. row \in WorkRows /\ works' = [works EXCEPT ![w] = row]
  BY <1>2 DEF WorkRows
<1>4. /\ row.state = "Ready" /\ row.ticket = works[w].ticket
      /\ row.actor = works[w].actor /\ row.review = works[w].review
  BY <1>2 DEF WorkRows
<1> HIDE DEF row
<1>5. /\ [works EXCEPT ![w] = row] \in Seq(WorkRows)
      /\ Rewritten(works, [works EXCEPT ![w] = row], w, row)
  BY <1>1, <1>3, UpdateRow
<1> QED BY <1>3, <1>4, <1>5 DEF Rewritten, WorkBecomes

\* A lease takes another state.
LEMMA LeaseUpdate ==
  ASSUME Sound, NEW l \in DOMAIN leases,
         NEW state \in {"Active", "Released", "Expired", "Cancelled"},
         leases' = [leases EXCEPT ![l].state = state]
  PROVE  LeaseBecomes(l, state)
<1> DEFINE row == [leases[l] EXCEPT !.state = state]
<1>1. leases \in Seq(LeaseRows)
  BY DEF Sound, TablesTyped, TypeOK
<1>2. leases[l] \in LeaseRows
  BY <1>1, RowAt
<1>3. row \in LeaseRows /\ leases' = [leases EXCEPT ![l] = row]
  BY <1>2 DEF LeaseRows
<1>4. row.state = state /\ row.work = leases[l].work
  BY <1>2 DEF LeaseRows
<1> HIDE DEF row
<1>5. /\ [leases EXCEPT ![l] = row] \in Seq(LeaseRows)
      /\ Rewritten(leases, [leases EXCEPT ![l] = row], l, row)
  BY <1>1, <1>3, UpdateRow
<1> QED BY <1>3, <1>4, <1>5 DEF Rewritten, LeaseBecomes

\* Any one row of the attempts that keeps what it was started with.
LEMMA AttemptUpdate ==
  ASSUME Sound, NEW a \in DOMAIN attempts, NEW row \in AttemptRows,
         attempts' = [attempts EXCEPT ![a] = row],
         row.work = attempts[a].work, row.lease = attempts[a].lease,
         row.ticket = attempts[a].ticket, row.actor = attempts[a].actor,
         attempts[a].reconciled => row.reconciled
  PROVE  AttemptBecomes(a, row.state) /\ attempts'[a].child = row.child
<1>1. attempts \in Seq(AttemptRows)
  BY DEF Sound, TablesTyped, TypeOK
<1>2. attempts' \in Seq(AttemptRows) /\ Rewritten(attempts, attempts', a, row)
  BY <1>1, UpdateRow
<1> QED BY <1>2 DEF Rewritten, AttemptBecomes

-----------------------------------------------------------------------------
(* What each command of execution writes.                                  *)

\* register_work_item inserts the item and readies its ticket.
LEMMA RegisterWrites ==
  ASSUME Sound, NEW t \in DOMAIN tickets, NEW a \in DOMAIN actors,
         NEW v \in DOMAIN reviews \cup {0}, RegisterWorkItem(t, a, v)
  PROVE  /\ works' \in Seq(WorkRows)
         /\ Appended(works, works', [ticket |-> t, actor |-> a, review |-> v,
                                     retryOf |-> 0, state |-> "Ready"])
         /\ TicketBecomes(t, "Ready")
<1>1. t \in Nat /\ a \in Nat /\ v \in Nat
  BY RowAt DEF Sound, TablesTyped, TypeOK
<1>2. [ticket |-> t, actor |-> a, review |-> v, retryOf |-> 0, state |-> "Ready"]
         \in WorkRows
  BY <1>1 DEF WorkRows
<1>3. TicketBecomes(t, "Ready")
  BY TicketUpdate DEF RegisterWorkItem, TicketStates
<1> QED BY <1>2, <1>3, AppendRow DEF RegisterWorkItem, Sound, TablesTyped, TypeOK

\* claim_work_item inserts the lease and claims the item and the ticket.
LEMMA ClaimWrites ==
  ASSUME Sound, NEW w \in DOMAIN works, ClaimWorkItem(w)
  PROVE  /\ leases' \in Seq(LeaseRows)
         /\ Appended(leases, leases',
                     [work |-> w, actor |-> works[w].actor, state |-> "Active"])
         /\ WorkBecomes(w, "Claimed") /\ TicketBecomes(works[w].ticket, "Claimed")
<1>1. w \in Nat /\ works[w] \in WorkRows
  BY RowAt DEF Sound, TablesTyped, TypeOK
<1>2. [work |-> w, actor |-> works[w].actor, state |-> "Active"] \in LeaseRows
  BY <1>1 DEF WorkRows, LeaseRows
<1>3. WorkBecomes(w, "Claimed")
  BY WorkUpdate DEF ClaimWorkItem
<1>4. TicketBecomes(works[w].ticket, "Claimed")
  BY TicketUpdate DEF ClaimWorkItem, TicketStates, Sound, ForeignKeys
<1> QED BY <1>2, <1>3, <1>4, AppendRow DEF ClaimWorkItem, Sound, TablesTyped, TypeOK

\* start_actor_attempt inserts the attempt and runs the item.
LEMMA StartWrites ==
  ASSUME Sound, NEW w \in DOMAIN works, NEW l \in DOMAIN leases, StartActorAttempt(w, l)
  PROVE  /\ attempts' \in Seq(AttemptRows)
         /\ Appended(attempts, attempts',
              [cycle |-> cycle.number, ticket |-> works[w].ticket, work |-> w,
               lease |-> l, actor |-> works[w].actor, state |-> "Running",
               reconciled |-> FALSE, child |-> "None"])
         /\ WorkBecomes(w, "Running")
<1>1. w \in Nat /\ works[w] \in WorkRows /\ l \in Nat /\ cycle.number \in Nat
  BY RowAt DEF Sound, TablesTyped, TypeOK
<1>2. [cycle |-> cycle.number, ticket |-> works[w].ticket, work |-> w,
       lease |-> l, actor |-> works[w].actor, state |-> "Running",
       reconciled |-> FALSE, child |-> "None"] \in AttemptRows
  BY <1>1 DEF WorkRows, AttemptRows, AttemptStates
<1>3. WorkBecomes(w, "Running")
  BY WorkUpdate DEF StartActorAttempt
<1> QED BY <1>2, <1>3, AppendRow DEF StartActorAttempt, Sound, TablesTyped, TypeOK

\* expire_work_lease ends the lease and readies its item and ticket.
LEMMA ExpireWrites ==
  ASSUME Sound, NEW l \in DOMAIN leases, ExpireWorkLease(l)
  PROVE  /\ LeaseBecomes(l, "Expired")
         /\ WorkBecomes(leases[l].work, "Ready")
         /\ TicketBecomes(works[leases[l].work].ticket, "Ready")
<1>1. LeaseBecomes(l, "Expired")
  BY LeaseUpdate DEF ExpireWorkLease
<1>2. WorkBecomes(leases[l].work, "Ready")
  BY WorkUpdate DEF ExpireWorkLease, Sound, ForeignKeys
<1>3. TicketBecomes(works[leases[l].work].ticket, "Ready")
  BY TicketUpdate DEF ExpireWorkLease, TicketStates, Sound, ForeignKeys
<1> QED BY <1>1, <1>2, <1>3

\* attest_actor_attempt_terminal ends the attempt, releases its lease if that
\* is still active, settles the item and moves the ticket.
LEMMA AttestWrites ==
  ASSUME Sound, NEW a \in DOMAIN attempts, NEW kind \in AttemptStates,
         AttestActorAttemptTerminal(a, kind)
  PROVE  /\ attempts[a].state \in Live
         /\ kind \in {"Succeeded", "Failed", "Expired", "Cancelled"}
         /\ AttemptBecomes(a, kind) /\ attempts'[a].child = "None"
         /\ \/ leases[attempts[a].lease].state # "Active" /\ UNCHANGED leases
            \/ \E ended \in {"Released", "Cancelled"} :
                 LeaseBecomes(attempts[a].lease, ended)
         /\ WorkBecomes(attempts[a].work, "Settled")
         /\ TicketBecomes(attempts[a].ticket, TicketAfter(kind))
         /\ TicketAfter(kind) \in {"Submitted", "Cancelled", "Ready", "Failed"}
<1>1. attempts[a].state \in Live /\ kind \in {"Succeeded", "Failed", "Expired", "Cancelled"}
  BY DEF AttestActorAttemptTerminal, TerminalAllowedFrom, Live
<1>2. attempts[a] \in AttemptRows
  BY RowAt DEF Sound, TablesTyped, TypeOK
<1>3. AttemptBecomes(a, kind) /\ attempts'[a].child = "None"
  <2> DEFINE row == [attempts[a] EXCEPT !.state = kind]
  <2>1. /\ row \in AttemptRows /\ attempts' = [attempts EXCEPT ![a] = row]
        /\ row.work = attempts[a].work /\ row.lease = attempts[a].lease
        /\ row.ticket = attempts[a].ticket /\ row.actor = attempts[a].actor
        /\ row.reconciled = attempts[a].reconciled /\ row.state = kind
        /\ row.child = "None"
    BY <1>2 DEF AttemptRows, AttestActorAttemptTerminal
  <2> HIDE DEF row
  <2> QED BY <2>1, AttemptUpdate
<1>4. attempts[a].lease \in DOMAIN leases
  BY DEF Sound, ForeignKeys
<1>5. \/ leases[attempts[a].lease].state # "Active" /\ UNCHANGED leases
      \/ \E ended \in {"Released", "Cancelled"} : LeaseBecomes(attempts[a].lease, ended)
  <2>1. CASE leases[attempts[a].lease].state = "Active"
    <3> DEFINE ended == IF kind = "Cancelled" THEN "Cancelled" ELSE "Released"
    <3>1. leases' = [leases EXCEPT ![attempts[a].lease].state = ended]
      BY <2>1 DEF AttestActorAttemptTerminal
    <3>2. ended \in {"Released", "Cancelled"}
      OBVIOUS
    <3> HIDE DEF ended
    <3>3. LeaseBecomes(attempts[a].lease, ended)
      BY <1>4, <3>1, <3>2, LeaseUpdate
    <3> QED BY <3>2, <3>3
  <2>2. CASE leases[attempts[a].lease].state # "Active"
    BY <2>2 DEF AttestActorAttemptTerminal
  <2> QED BY <2>1, <2>2
<1>6. WorkBecomes(attempts[a].work, "Settled")
  BY WorkUpdate DEF AttestActorAttemptTerminal, Sound, ForeignKeys
<1>7. TicketAfter(kind) \in {"Submitted", "Cancelled", "Ready", "Failed"}
  BY <1>1 DEF TicketAfter
<1>8. TicketBecomes(attempts[a].ticket, TicketAfter(kind))
  BY <1>7, TicketUpdate DEF AttestActorAttemptTerminal, TicketStates, Sound, ForeignKeys
<1> QED BY <1>1, <1>3, <1>5, <1>6, <1>7, <1>8

\* validate_ticket_attempt validates the attempt and verifies its ticket.
LEMMA ValidateWrites ==
  ASSUME Sound, NEW a \in DOMAIN attempts, ValidateTicketAttempt(a)
  PROVE  /\ AttemptBecomes(a, "Validated") /\ attempts'[a].child = attempts[a].child
         /\ TicketBecomes(attempts[a].ticket, "Verified")
         /\ tickets'[attempts[a].ticket].satisfied
<1>1. attempts[a] \in AttemptRows
  BY RowAt DEF Sound, TablesTyped, TypeOK
<1>2. AttemptBecomes(a, "Validated") /\ attempts'[a].child = attempts[a].child
  <2> DEFINE row == [attempts[a] EXCEPT !.state = "Validated"]
  <2>1. /\ row \in AttemptRows /\ attempts' = [attempts EXCEPT ![a] = row]
        /\ row.work = attempts[a].work /\ row.lease = attempts[a].lease
        /\ row.ticket = attempts[a].ticket /\ row.actor = attempts[a].actor
        /\ row.reconciled = attempts[a].reconciled /\ row.state = "Validated"
        /\ row.child = attempts[a].child
    BY <1>1 DEF AttemptRows, AttemptStates, ValidateTicketAttempt
  <2> HIDE DEF row
  <2> QED BY <2>1, AttemptUpdate
<1>3. attempts[a].ticket \in DOMAIN tickets
  BY DEF Sound, ForeignKeys
<1> QED BY <1>2, <1>3, TicketVerified DEF ValidateTicketAttempt

\* retry_actor_attempt readies the settled item and its ticket.
LEMMA RetryWrites ==
  ASSUME Sound, NEW a \in DOMAIN attempts, RetryActorAttempt(a)
  PROVE  /\ WorkBecomes(attempts[a].work, "Ready")
         /\ TicketBecomes(attempts[a].ticket, "Ready")
<1>1. attempts[a].work \in DOMAIN works /\ attempts[a].ticket \in DOMAIN tickets
  BY DEF Sound, ForeignKeys
<1>2. WorkBecomes(attempts[a].work, "Ready")
  BY <1>1, WorkRetried DEF RetryActorAttempt
<1>3. TicketBecomes(attempts[a].ticket, "Ready")
  BY <1>1, TicketUpdate DEF RetryActorAttempt, TicketStates
<1> QED BY <1>2, <1>3

\* complete_ticket completes the ticket of the validated attempt.
LEMMA CompleteWrites ==
  ASSUME Sound, NEW a \in DOMAIN attempts, CompleteTicket(a)
  PROVE  TicketBecomes(attempts[a].ticket, "Completed")
BY TicketUpdate DEF CompleteTicket, TicketStates, Sound, ForeignKeys

\* cancel_actor_attempt marks the attempt.
LEMMA CancelWrites ==
  ASSUME Sound, NEW a \in DOMAIN attempts, CancelActorAttempt(a)
  PROVE  AttemptBecomes(a, "CancellationRequested")
<1> DEFINE row == [attempts[a] EXCEPT !.state = "CancellationRequested"]
<1>1. attempts[a] \in AttemptRows
  BY RowAt DEF Sound, TablesTyped, TypeOK
<1>2. /\ row \in AttemptRows /\ attempts' = [attempts EXCEPT ![a] = row]
      /\ row.work = attempts[a].work /\ row.lease = attempts[a].lease
      /\ row.ticket = attempts[a].ticket /\ row.actor = attempts[a].actor
      /\ row.reconciled = attempts[a].reconciled /\ row.state = "CancellationRequested"
  BY <1>1 DEF AttemptRows, AttemptStates, CancelActorAttempt
<1> HIDE DEF row
<1> QED BY <1>2, AttemptUpdate

\* Reconciling the attempt's budget and recording its child leave its state.
LEMMA BookkeepingWrites ==
  ASSUME Sound, NEW a \in DOMAIN attempts,
         \/ ReconcileAttemptBudget(a) \/ AdmitAttemptChild(a) \/ LoseAttemptChild(a)
  PROVE  /\ AttemptBecomes(a, attempts[a].state)
         /\ \/ attempts'[a].child = attempts[a].child
            \/ AdmitAttemptChild(a) /\ attempts'[a].child = "Admitted"
            \/ LoseAttemptChild(a) /\ attempts'[a].child = "Lost"
<1>1. attempts[a] \in AttemptRows
  BY RowAt DEF Sound, TablesTyped, TypeOK
<1>2. CASE ReconcileAttemptBudget(a)
  <2> DEFINE row == [attempts[a] EXCEPT !.reconciled = TRUE]
  <2>1. /\ row \in AttemptRows /\ attempts' = [attempts EXCEPT ![a] = row]
        /\ row.work = attempts[a].work /\ row.lease = attempts[a].lease
        /\ row.ticket = attempts[a].ticket /\ row.actor = attempts[a].actor
        /\ row.reconciled = TRUE /\ row.state = attempts[a].state
        /\ row.child = attempts[a].child
    BY <1>1, <1>2 DEF AttemptRows, ReconcileAttemptBudget
  <2> HIDE DEF row
  <2> QED BY <2>1, AttemptUpdate
<1>3. CASE AdmitAttemptChild(a) \/ LoseAttemptChild(a)
  <2>1. PICK child \in {"Admitted", "Lost"} :
          /\ attempts' = [attempts EXCEPT ![a].child = child]
          /\ \/ AdmitAttemptChild(a) /\ child = "Admitted"
             \/ LoseAttemptChild(a) /\ child = "Lost"
    BY <1>3 DEF AdmitAttemptChild, LoseAttemptChild
  <2> DEFINE row == [attempts[a] EXCEPT !.child = child]
  <2>2. /\ row \in AttemptRows /\ attempts' = [attempts EXCEPT ![a] = row]
        /\ row.work = attempts[a].work /\ row.lease = attempts[a].lease
        /\ row.ticket = attempts[a].ticket /\ row.actor = attempts[a].actor
        /\ row.reconciled = attempts[a].reconciled /\ row.state = attempts[a].state
        /\ row.child = child
    BY <1>1, <2>1 DEF AttemptRows
  <2> HIDE DEF row
  <2> QED BY <2>1, <2>2, AttemptUpdate
<1> QED BY <1>2, <1>3

\* The settlement after recovery ends the live attempt of a lost child.
LEMMA SettleWrites ==
  ASSUME Sound, NEW a \in DOMAIN attempts, SettleActorTaskAttemptAfterRecovery(a)
  PROVE  /\ AttemptBecomes(a, "Failed")
         /\ attempts[a].state \in Live
         /\ attempts[a].child = "Lost" /\ attempts'[a].child = "Lost"
<1> DEFINE row == [attempts[a] EXCEPT !.state = "Failed"]
<1>1. attempts[a] \in AttemptRows
  BY RowAt DEF Sound, TablesTyped, TypeOK
<1>2. attempts[a].state \in Live /\ attempts[a].child = "Lost"
  BY DEF SettleActorTaskAttemptAfterRecovery
<1>3. /\ row \in AttemptRows /\ attempts' = [attempts EXCEPT ![a] = row]
      /\ row.work = attempts[a].work /\ row.lease = attempts[a].lease
      /\ row.ticket = attempts[a].ticket /\ row.actor = attempts[a].actor
      /\ row.reconciled = attempts[a].reconciled /\ row.state = "Failed"
      /\ row.child = attempts[a].child
  BY <1>1 DEF AttemptRows, AttemptStates, SettleActorTaskAttemptAfterRecovery
<1> HIDE DEF row
<1> QED BY <1>2, <1>3, AttemptUpdate

-----------------------------------------------------------------------------
(* Types and references are kept by every command.                         *)

\* The empty tables are sound.
LEMMA InitSound == Init => Sound
BY BoundsAssumption DEF Init, Sound, TablesTyped, TypeOK, ForeignKeys

\* The cycle's own steps leave the tables alone.
LEMMA CycleSound ==
  ASSUME Sound, CycleStep
  PROVE  Sound'
<1>1. cycle' \in [number : 1..MaxCycles, running : BOOLEAN]
  <2>1. cycle \in [number : 1..MaxCycles, running : BOOLEAN] /\ MaxCycles \in Nat
    BY BoundsAssumption DEF Sound, TablesTyped, TypeOK
  <2>2. CASE StopCycle \/ ResumeCycle
    BY <2>1, <2>2 DEF StopCycle, ResumeCycle
  <2>3. CASE SucceedCycle
    <3>1. cycle.number + 1 \in 1..MaxCycles
      BY <2>1, <2>3 DEF SucceedCycle
    <3> QED BY <2>3, <3>1 DEF SucceedCycle
  <2> QED BY <2>2, <2>3 DEF CycleStep
<1>2. UNCHANGED <<projects, workTables, reviewTables, sideTables>>
  BY DEF CycleStep, StopCycle, ResumeCycle, SucceedCycle
<1> QED BY <1>1, <1>2 DEF Sound, TablesTyped, TypeOK, ForeignKeys, workTables,
           reviewTables, sideTables

\* A project's row keeps its type.
LEMMA ProjectSound ==
  ASSUME Sound, ProjectStep
  PROVE  Sound'
<1>1. projects' \in Seq(ProjectRows) /\ UNCHANGED <<cycle, workTables, reviewTables, sideTables>>
  <2>1. projects \in Seq(ProjectRows) /\ \A p \in DOMAIN projects : projects[p] \in ProjectRows
    BY RowAt DEF Sound, TablesTyped, TypeOK
  <2>2. ASSUME NEW p \in DOMAIN projects, NEW row \in ProjectRows,
               projects' = [projects EXCEPT ![p] = row]
        PROVE  projects' \in Seq(ProjectRows)
    BY <2>1, <2>2, UpdateRow
  <2>3. CASE CreateProject
    <3>1. [state |-> "Proposed", milestone |-> "None"] \in ProjectRows
      BY DEF ProjectRows, ProjectStates
    <3> QED BY <2>1, <2>3, <3>1, AppendRow DEF CreateProject
  <2>4. ASSUME NEW p \in DOMAIN projects, CharterProject(p)
        PROVE  projects' \in Seq(ProjectRows)
    BY <2>2, <2>4 DEF CharterProject, ProjectRows, ProjectStates
  <2>5. ASSUME NEW p \in DOMAIN projects, CompleteProjectMilestone(p)
        PROVE  projects' \in Seq(ProjectRows)
    <3>1. [projects[p] EXCEPT !.milestone = "Completed"] \in ProjectRows
      BY <2>1 DEF ProjectRows
    <3> QED BY <2>2, <2>5, <3>1 DEF CompleteProjectMilestone
  <2>6. ASSUME NEW p \in DOMAIN projects, NEW target \in ProjectStates,
               TransitionProject(p, target) \/ (target = "Reopened" /\ ReopenProject(p))
        PROVE  projects' \in Seq(ProjectRows)
    <3>1. [projects[p] EXCEPT !.state = target] \in ProjectRows
      BY <2>1 DEF ProjectRows
    <3>2. projects' = [projects EXCEPT ![p].state = target]
      BY <2>6 DEF TransitionProject, ReopenProject
    <3> QED BY <2>2, <3>1, <3>2
  <2>7. "Reopened" \in ProjectStates
    BY DEF ProjectStates
  <2>8. projects' \in Seq(ProjectRows)
    BY <2>3, <2>4, <2>5, <2>6, <2>7 DEF ProjectStep
  <2>9. UNCHANGED <<cycle, workTables, reviewTables, sideTables>>
    BY DEF ProjectStep, CreateProject, CharterProject, CompleteProjectMilestone,
           TransitionProject, ReopenProject
  <2> QED BY <2>8, <2>9
<1> QED BY <1>1 DEF Sound, TablesTyped, TypeOK, ForeignKeys, workTables, reviewTables, sideTables

\* A new ticket is a draft of its project, at the end of the table.
LEMMA CreateWrites ==
  ASSUME Sound, NEW p \in DOMAIN projects, NEW t \in DOMAIN tickets \cup {0}, CreateTicket(p, t)
  PROVE  /\ tickets' \in Seq(TicketRows)
         /\ DOMAIN tickets' = DOMAIN tickets \cup {Len(tickets) + 1}
         /\ Len(tickets) + 1 \notin DOMAIN tickets
         /\ \A i \in DOMAIN tickets : tickets'[i] = tickets[i]
         /\ tickets'[Len(tickets) + 1].project = p
         /\ tickets'[Len(tickets) + 1].state = "Draft"
<1> DEFINE row == [project |-> p, state |-> "Draft", prerequisite |-> t, satisfied |-> FALSE]
<1>1. row \in TicketRows /\ row.project = p /\ row.state = "Draft"
  BY RowAt DEF Sound, TablesTyped, TypeOK, TicketRows, TicketStates
<1>2. tickets' = Append(tickets, row) /\ tickets \in Seq(TicketRows)
  BY DEF CreateTicket, Sound, TablesTyped, TypeOK
<1> HIDE DEF row
<1>3. tickets' \in Seq(TicketRows) /\ Appended(tickets, tickets', row)
  BY <1>1, <1>2, AppendRow
<1> QED BY <1>1, <1>3 DEF Appended

\* The columns that refer to other rows are never rewritten.
SameKeys ==
    /\ DOMAIN tickets' = DOMAIN tickets /\ DOMAIN works' = DOMAIN works
    /\ DOMAIN leases' = DOMAIN leases /\ DOMAIN attempts' = DOMAIN attempts
    /\ \A w \in DOMAIN works :
         works'[w].ticket = works[w].ticket /\ works'[w].actor = works[w].actor
    /\ \A l \in DOMAIN leases : leases'[l].work = leases[l].work
    /\ \A a \in DOMAIN attempts :
         /\ attempts'[a].work = attempts[a].work /\ attempts'[a].lease = attempts[a].lease
         /\ attempts'[a].ticket = attempts[a].ticket /\ attempts'[a].actor = attempts[a].actor
    /\ UNCHANGED <<reviews, challenges>>

LEMMA KeysStay ==
  ASSUME ForeignKeys, SameKeys
  PROVE  ForeignKeys'
<1>1. \A w \in DOMAIN works' : works'[w].ticket \in DOMAIN tickets'
  BY DEF ForeignKeys, SameKeys
<1>2. \A l \in DOMAIN leases' : leases'[l].work \in DOMAIN works'
  BY DEF ForeignKeys, SameKeys
<1>3. \A a \in DOMAIN attempts' :
         /\ attempts'[a].work \in DOMAIN works'
         /\ attempts'[a].lease \in DOMAIN leases'
         /\ leases'[attempts'[a].lease].work = attempts'[a].work
         /\ attempts'[a].ticket = works'[attempts'[a].work].ticket
         /\ attempts'[a].actor = works'[attempts'[a].work].actor
  BY DEF ForeignKeys, SameKeys
<1>4. /\ \A v \in DOMAIN reviews' :
           reviews'[v].state # "Requested" => reviews'[v].attempt \in DOMAIN attempts'
      /\ \A c \in DOMAIN challenges' : challenges'[c].review \in DOMAIN reviews'
  BY DEF ForeignKeys, SameKeys
<1> QED BY <1>1, <1>2, <1>3, <1>4 DEF ForeignKeys

\* Whatever a command of execution writes: types and references are kept.
LEMMA WorkSound ==
  ASSUME Sound, WorkStep
  PROVE  Sound'
<1>1. CASE AdmitActorInstance
  BY <1>1, AppendRow DEF AdmitActorInstance, Sound, TablesTyped, TypeOK, ForeignKeys,
     reviewTables, sideTables
<1>2. ASSUME NEW p \in DOMAIN projects, NEW t \in DOMAIN tickets \cup {0}, CreateTicket(p, t)
      PROVE  Sound'
  <2> QED BY <1>2, CreateWrites DEF CreateTicket, Sound, TablesTyped, TypeOK, ForeignKeys,
             reviewTables, sideTables
<1>3. ASSUME NEW t \in DOMAIN tickets, AdmitTicket(t)
      PROVE  Sound'
  <2>1. TicketBecomes(t, "Admitted")
    BY <1>3, TicketUpdate DEF AdmitTicket, TicketStates
  <2> QED BY <1>3, <2>1 DEF AdmitTicket, TicketBecomes, Sound, TablesTyped, TypeOK, ForeignKeys,
             reviewTables, sideTables
<1>4. ASSUME NEW t \in DOMAIN tickets, NEW a \in DOMAIN actors,
             NEW v \in DOMAIN reviews \cup {0}, RegisterWorkItem(t, a, v)
      PROVE  Sound'
  <2>1. /\ works' \in Seq(WorkRows)
        /\ Appended(works, works', [ticket |-> t, actor |-> a, review |-> v,
                                    retryOf |-> 0, state |-> "Ready"])
        /\ TicketBecomes(t, "Ready")
    BY <1>4, RegisterWrites
  <2>2. TablesTyped'
    BY <1>4, <2>1 DEF RegisterWorkItem, Appended, TicketBecomes, Sound, TablesTyped,
       TypeOK, reviewTables, sideTables
  <2>3. ForeignKeys'
    BY <1>4, <2>1 DEF RegisterWorkItem, Appended, TicketBecomes, Sound, ForeignKeys,
       reviewTables, sideTables
  <2> QED BY <2>2, <2>3 DEF Sound
<1>5. ASSUME NEW w \in DOMAIN works, ClaimWorkItem(w)
      PROVE  Sound'
  <2>1. /\ leases' \in Seq(LeaseRows)
        /\ Appended(leases, leases',
                    [work |-> w, actor |-> works[w].actor, state |-> "Active"])
        /\ WorkBecomes(w, "Claimed") /\ TicketBecomes(works[w].ticket, "Claimed")
    BY <1>5, ClaimWrites
  <2>2. TablesTyped'
    BY <1>5, <2>1 DEF ClaimWorkItem, Appended, WorkBecomes, TicketBecomes, Sound, TablesTyped,
       TypeOK, reviewTables, sideTables
  <2>3. ForeignKeys'
    BY <1>5, <2>1 DEF ClaimWorkItem, Appended, WorkBecomes, TicketBecomes, Sound, ForeignKeys,
       reviewTables, sideTables
  <2> QED BY <2>2, <2>3 DEF Sound
<1>6. ASSUME NEW w \in DOMAIN works, NEW l \in DOMAIN leases, StartActorAttempt(w, l)
      PROVE  Sound'
  <2>1. /\ attempts' \in Seq(AttemptRows)
        /\ Appended(attempts, attempts',
             [cycle |-> cycle.number, ticket |-> works[w].ticket, work |-> w,
              lease |-> l, actor |-> works[w].actor, state |-> "Running",
              reconciled |-> FALSE, child |-> "None"])
        /\ WorkBecomes(w, "Running")
    BY <1>6, StartWrites
  <2>2. TablesTyped'
    BY <1>6, <2>1 DEF StartActorAttempt, ActiveLeases, Appended, WorkBecomes, Sound, TablesTyped,
       TypeOK, reviewTables, sideTables
  <2>3. ForeignKeys'
    BY <1>6, <2>1 DEF StartActorAttempt, ActiveLeases, Appended, WorkBecomes, Sound, ForeignKeys,
       reviewTables, sideTables
  <2> QED BY <2>2, <2>3 DEF Sound
<1>7. ASSUME NEW l \in DOMAIN leases, ExpireWorkLease(l)
      PROVE  Sound'
  <2>1. /\ LeaseBecomes(l, "Expired")
        /\ WorkBecomes(leases[l].work, "Ready")
        /\ TicketBecomes(works[leases[l].work].ticket, "Ready")
    BY <1>7, ExpireWrites
  <2>2. TablesTyped'
    BY <1>7, <2>1 DEF ExpireWorkLease, LeaseBecomes, WorkBecomes, TicketBecomes, Sound, TablesTyped,
       TypeOK, reviewTables, sideTables
  <2>3. ForeignKeys'
    <3>1. SameKeys
      BY <1>7, <2>1 DEF ExpireWorkLease, LeaseBecomes, WorkBecomes, TicketBecomes, SameKeys,
         reviewTables, sideTables
    <3> QED BY <3>1, KeysStay DEF Sound
  <2> QED BY <2>2, <2>3 DEF Sound
<1>8. ASSUME NEW a \in DOMAIN attempts, NEW kind \in AttemptStates,
             AttestActorAttemptTerminal(a, kind)
      PROVE  Sound'
  <2>1. /\ AttemptBecomes(a, kind)
        /\ \/ UNCHANGED leases
           \/ \E ended \in {"Released", "Cancelled"} :
                LeaseBecomes(attempts[a].lease, ended)
        /\ WorkBecomes(attempts[a].work, "Settled")
        /\ TicketBecomes(attempts[a].ticket, TicketAfter(kind))
    BY <1>8, AttestWrites
  <2>2. TablesTyped'
    BY <1>8, <2>1 DEF AttestActorAttemptTerminal, AttemptBecomes, LeaseBecomes, WorkBecomes, TicketBecomes, Sound, TablesTyped,
       TypeOK, reviewTables, sideTables
  <2>3. ForeignKeys'
    <3>1. SameKeys
      BY <1>8, <2>1 DEF AttestActorAttemptTerminal, AttemptBecomes, LeaseBecomes, WorkBecomes, TicketBecomes, SameKeys,
         reviewTables, sideTables
    <3> QED BY <3>1, KeysStay DEF Sound
  <2> QED BY <2>2, <2>3 DEF Sound
<1>9. ASSUME NEW a \in DOMAIN attempts, ValidateTicketAttempt(a)
      PROVE  Sound'
  <2>1. AttemptBecomes(a, "Validated") /\ TicketBecomes(attempts[a].ticket, "Verified")
    BY <1>9, ValidateWrites
  <2>2. TablesTyped'
    BY <1>9, <2>1 DEF ValidateTicketAttempt, AttemptBecomes, TicketBecomes, Sound, TablesTyped,
       TypeOK, reviewTables, sideTables
  <2>3. ForeignKeys'
    BY <1>9, <2>1 DEF ValidateTicketAttempt, AttemptBecomes, TicketBecomes, Sound, ForeignKeys,
       reviewTables, sideTables
  <2> QED BY <2>2, <2>3 DEF Sound
<1>10. ASSUME NEW a \in DOMAIN attempts, RetryActorAttempt(a)
       PROVE  Sound'
  <2>1. /\ WorkBecomes(attempts[a].work, "Ready")
        /\ TicketBecomes(attempts[a].ticket, "Ready")
    BY <1>10, RetryWrites
  <2>2. TablesTyped'
    BY <1>10, <2>1 DEF RetryActorAttempt, WorkBecomes, TicketBecomes, Sound, TablesTyped,
       TypeOK, reviewTables, sideTables
  <2>3. ForeignKeys'
    <3>1. SameKeys
      BY <1>10, <2>1 DEF RetryActorAttempt, WorkBecomes, TicketBecomes, SameKeys,
         reviewTables, sideTables
    <3> QED BY <3>1, KeysStay DEF Sound
  <2> QED BY <2>2, <2>3 DEF Sound
<1>11. ASSUME NEW a \in DOMAIN attempts, CompleteTicket(a)
       PROVE  Sound'
  <2>1. TicketBecomes(attempts[a].ticket, "Completed")
    BY <1>11, CompleteWrites
  <2>2. TablesTyped'
    BY <1>11, <2>1 DEF CompleteTicket, TicketBecomes, Sound, TablesTyped,
       TypeOK, reviewTables, sideTables
  <2>3. ForeignKeys'
    BY <1>11, <2>1 DEF CompleteTicket, TicketBecomes, Sound, ForeignKeys,
       reviewTables, sideTables
  <2> QED BY <2>2, <2>3 DEF Sound
<1>12. ASSUME NEW a \in DOMAIN attempts, CancelActorAttempt(a)
       PROVE  Sound'
  <2>1. AttemptBecomes(a, "CancellationRequested")
    BY <1>12, CancelWrites
  <2>2. TablesTyped'
    BY <1>12, <2>1 DEF CancelActorAttempt, AttemptBecomes, Sound, TablesTyped,
       TypeOK, reviewTables, sideTables
  <2>3. ForeignKeys'
    BY <1>12, <2>1 DEF CancelActorAttempt, AttemptBecomes, Sound, ForeignKeys,
       reviewTables, sideTables
  <2> QED BY <2>2, <2>3 DEF Sound
<1>13. ASSUME NEW a \in DOMAIN attempts,
              ReconcileAttemptBudget(a) \/ AdmitAttemptChild(a) \/ LoseAttemptChild(a)
       PROVE  Sound'
  <2>1. AttemptBecomes(a, attempts[a].state)
    BY <1>13, BookkeepingWrites
  <2>2. TablesTyped'
    BY <1>13, <2>1 DEF ReconcileAttemptBudget, AdmitAttemptChild, LoseAttemptChild, AttemptBecomes, Sound, TablesTyped,
       TypeOK, reviewTables, sideTables
  <2>3. ForeignKeys'
    BY <1>13, <2>1 DEF ReconcileAttemptBudget, AdmitAttemptChild, LoseAttemptChild, AttemptBecomes, Sound, ForeignKeys,
       reviewTables, sideTables
  <2> QED BY <2>2, <2>3 DEF Sound
<1>14. ASSUME NEW a \in DOMAIN attempts, SettleActorTaskAttemptAfterRecovery(a)
       PROVE  Sound'
  <2>1. AttemptBecomes(a, "Failed")
    BY <1>14, SettleWrites
  <2>2. TablesTyped'
    BY <1>14, <2>1 DEF SettleActorTaskAttemptAfterRecovery, AttemptBecomes, Sound, TablesTyped,
       TypeOK, reviewTables, sideTables
  <2>3. ForeignKeys'
    BY <1>14, <2>1 DEF SettleActorTaskAttemptAfterRecovery, AttemptBecomes, Sound, ForeignKeys,
       reviewTables, sideTables
  <2> QED BY <2>2, <2>3 DEF Sound
<1> QED
  BY <1>1, <1>2, <1>3, <1>4, <1>5, <1>6, <1>7, <1>8, <1>9, <1>10, <1>11, <1>12, <1>13,
     <1>14 DEF WorkStep

\* The graph, the reviews and the challenges keep types and references.
LEMMA ReviewSound ==
  ASSUME Sound, ReviewStep
  PROVE  Sound'
<1>0. /\ revisions \in Seq(RevisionRows) /\ reviews \in Seq(ReviewRows)
      /\ challenges \in Seq(ChallengeRows)
      /\ \A r \in DOMAIN revisions : r \in Nat /\ revisions[r] \in RevisionRows
      /\ \A v \in DOMAIN reviews : v \in Nat /\ reviews[v] \in ReviewRows
      /\ \A c \in DOMAIN challenges : challenges[c] \in ChallengeRows
  BY RowAt DEF Sound, TablesTyped, TypeOK
<1>1. ASSUME NEW p \in DOMAIN projects, NEW o \in DOMAIN revisions \cup {0},
             NEW kind \in {"Observation", "Hypothesis"}, AddGraphObjectRevision(p, o, kind)
      PROVE  Sound'
  <2> DEFINE row == [project |-> p, kind |-> kind, committed |-> FALSE,
                     object |-> IF o = 0 THEN Len(revisions) + 1 ELSE o]
  <2>1. p \in Nat /\ o \in Nat /\ Len(revisions) \in Nat
    BY <1>0, RowAt DEF Sound, TablesTyped, TypeOK
  <2>2. row \in RevisionRows
    BY <2>1 DEF RevisionRows
  <2>3. revisions' = Append(revisions, row)
    BY <1>1 DEF AddGraphObjectRevision
  <2> HIDE DEF row
  <2>4. revisions' \in Seq(RevisionRows)
    BY <1>0, <2>2, <2>3, AppendRow
  <2> QED BY <1>1, <2>4 DEF AddGraphObjectRevision, Sound, TablesTyped, TypeOK, ForeignKeys,
             workTables, sideTables
<1>2. ASSUME NEW r \in DOMAIN revisions, CommitGraphRevision(r)
      PROVE  Sound'
  <2> DEFINE row == [revisions[r] EXCEPT !.committed = TRUE]
  <2>1. row \in RevisionRows /\ revisions' = [revisions EXCEPT ![r] = row]
    BY <1>0, <1>2 DEF CommitGraphRevision, RevisionRows
  <2> HIDE DEF row
  <2>2. revisions' \in Seq(RevisionRows)
    BY <1>0, <2>1, UpdateRow
  <2> QED BY <1>2, <2>2 DEF CommitGraphRevision, Sound, TablesTyped, TypeOK, ForeignKeys,
             workTables, sideTables
<1>3. ASSUME NEW r \in DOMAIN revisions, RequestAdversarialReview(r)
      PROVE  Sound'
  <2> DEFINE row == [project |-> revisions[r].project, target |-> r,
                     state |-> "Requested", reviewer |-> 0, attempt |-> 0]
  <2>1. row \in ReviewRows /\ row.state = "Requested"
    BY <1>0 DEF RevisionRows, ReviewRows, ReviewStates
  <2>2. reviews' = Append(reviews, row)
    BY <1>3 DEF RequestAdversarialReview
  <2> HIDE DEF row
  <2>3. reviews' \in Seq(ReviewRows) /\ Appended(reviews, reviews', row)
    BY <1>0, <2>1, <2>2, AppendRow
  <2> QED BY <1>3, <2>1, <2>3 DEF RequestAdversarialReview, Appended, Sound, TablesTyped,
             TypeOK, ForeignKeys, workTables, sideTables
<1>4. ASSUME NEW r \in DOMAIN revisions, NEW to \in DOMAIN revisions,
             NEW kind \in {"Supports", "Challenges"}, AddGraphEdge(r, to, kind)
      PROVE  Sound'
  BY <1>4 DEF AddGraphEdge, Sound, TablesTyped, TypeOK, ForeignKeys, workTables, sideTables
<1>5. ASSUME NEW v \in DOMAIN reviews, NEW a \in DOMAIN attempts,
             AssignAdversarialReviewer(v, a)
      PROVE  Sound'
  <2> DEFINE row == [reviews[v] EXCEPT !.state = "Assigned",
                                       !.reviewer = attempts[a].actor, !.attempt = a]
  <2>0. a \in Nat /\ attempts[a] \in AttemptRows
    BY RowAt DEF Sound, TablesTyped, TypeOK
  <2>1. a \in Nat /\ attempts[a].actor \in Nat
    BY <2>0 DEF AttemptRows
  <2>2. row \in ReviewRows /\ reviews' = [reviews EXCEPT ![v] = row] /\ row.attempt = a
    BY <1>0, <1>5, <2>1 DEF AssignAdversarialReviewer, ReviewRows, ReviewStates
  <2> HIDE DEF row
  <2>3. /\ [reviews EXCEPT ![v] = row] \in Seq(ReviewRows)
        /\ Rewritten(reviews, [reviews EXCEPT ![v] = row], v, row)
    BY <1>0, <2>2, UpdateRow
  <2> QED BY <1>5, <2>2, <2>3 DEF AssignAdversarialReviewer, Rewritten, Sound, TablesTyped,
             TypeOK, ForeignKeys, workTables, sideTables
<1>6. ASSUME NEW v \in DOMAIN reviews, NEW state \in ReviewStates \ {"Requested"},
             reviews[v].state # "Requested",
             reviews' = [reviews EXCEPT ![v].state = state]
      PROVE  /\ reviews' \in Seq(ReviewRows) /\ DOMAIN reviews' = DOMAIN reviews
             /\ \A i \in DOMAIN reviews :
                  /\ reviews'[i].attempt = reviews[i].attempt
                  /\ reviews'[i].state # "Requested" => reviews[i].state # "Requested"
  <2> DEFINE row == [reviews[v] EXCEPT !.state = state]
  <2>1. /\ row \in ReviewRows /\ reviews' = [reviews EXCEPT ![v] = row]
        /\ row.attempt = reviews[v].attempt
    BY <1>0, <1>6 DEF ReviewRows
  <2> HIDE DEF row
  <2>2. /\ [reviews EXCEPT ![v] = row] \in Seq(ReviewRows)
        /\ Rewritten(reviews, [reviews EXCEPT ![v] = row], v, row)
    BY <1>0, <2>1, UpdateRow
  <2> QED BY <1>6, <2>1, <2>2 DEF Rewritten
<1>7. ASSUME NEW v \in DOMAIN reviews, NEW a \in DOMAIN actors, SubmitReviewChallenge(v, a)
      PROVE  Sound'
  <2> DEFINE row == [review |-> v, author |-> a, responded |-> FALSE, disposed |-> FALSE]
  <2>1. row \in ChallengeRows /\ row.review = v
    BY <1>0, RowAt DEF ChallengeRows, Sound, TablesTyped, TypeOK
  <2>2. challenges' = Append(challenges, row)
    BY <1>7 DEF SubmitReviewChallenge
  <2> HIDE DEF row
  <2>3. challenges' \in Seq(ChallengeRows) /\ Appended(challenges, challenges', row)
    BY <1>0, <2>1, <2>2, AppendRow
  <2>4. /\ reviews' \in Seq(ReviewRows) /\ DOMAIN reviews' = DOMAIN reviews
        /\ \A i \in DOMAIN reviews :
             /\ reviews'[i].attempt = reviews[i].attempt
             /\ reviews'[i].state # "Requested" => reviews[i].state # "Requested"
    BY <1>6, <1>7 DEF SubmitReviewChallenge, ReviewStates
  <2> QED BY <1>7, <2>1, <2>3, <2>4 DEF SubmitReviewChallenge, Appended, Sound, TablesTyped,
             TypeOK, ForeignKeys, workTables, sideTables
<1>8. ASSUME NEW v \in DOMAIN reviews, NEW r \in {"Resolved", "AcceptedRisk"},
             ResolveAdversarialReview(v, r)
      PROVE  Sound'
  <2>1. /\ reviews' \in Seq(ReviewRows) /\ DOMAIN reviews' = DOMAIN reviews
        /\ \A i \in DOMAIN reviews :
             /\ reviews'[i].attempt = reviews[i].attempt
             /\ reviews'[i].state # "Requested" => reviews[i].state # "Requested"
    BY <1>6, <1>8 DEF ResolveAdversarialReview, ReviewStates
  <2> QED BY <1>8, <2>1 DEF ResolveAdversarialReview, Sound, TablesTyped, TypeOK,
             ForeignKeys, workTables, sideTables
<1>9. ASSUME NEW c \in DOMAIN challenges,
             RespondToReviewChallenge(c) \/ DispositionReviewChallenge(c)
      PROVE  Sound'
  <2>1. PICK row \in ChallengeRows : /\ challenges' = [challenges EXCEPT ![c] = row]
                                     /\ row.review = challenges[c].review
    <3>1. CASE RespondToReviewChallenge(c)
      <4> DEFINE new == [challenges[c] EXCEPT !.responded = TRUE]
      <4>1. /\ new \in ChallengeRows /\ challenges' = [challenges EXCEPT ![c] = new]
            /\ new.review = challenges[c].review
        BY <1>0, <3>1 DEF RespondToReviewChallenge, ChallengeRows
      <4> HIDE DEF new
      <4> QED BY <4>1
    <3>2. CASE DispositionReviewChallenge(c)
      <4> DEFINE new == [challenges[c] EXCEPT !.disposed = TRUE]
      <4>1. /\ new \in ChallengeRows /\ challenges' = [challenges EXCEPT ![c] = new]
            /\ new.review = challenges[c].review
        BY <1>0, <3>2 DEF DispositionReviewChallenge, ChallengeRows
      <4> HIDE DEF new
      <4> QED BY <4>1
    <3> QED BY <1>9, <3>1, <3>2
  <2>2. /\ [challenges EXCEPT ![c] = row] \in Seq(ChallengeRows)
        /\ Rewritten(challenges, [challenges EXCEPT ![c] = row], c, row)
    BY <1>0, UpdateRow
  <2> QED BY <1>9, <2>1, <2>2 DEF RespondToReviewChallenge, DispositionReviewChallenge,
             Rewritten, Sound, TablesTyped, TypeOK, ForeignKeys, workTables, sideTables
<1> QED BY <1>1, <1>2, <1>3, <1>4, <1>5, <1>7, <1>8, <1>9 DEF ReviewStep

\* Episodes, Postmortems and outcomes keep their types.
LEMMA SideSound ==
  ASSUME Sound, SideStep
  PROVE  Sound'
<1>0. /\ episodes \in Seq(EpisodeRows) /\ postmortems \in Seq(PostmortemRows)
      /\ outcomes \in Seq(OutcomeRows)
      /\ \A p \in DOMAIN projects : p \in Nat
      /\ \A e \in DOMAIN episodes : episodes[e] \in EpisodeRows
      /\ \A m \in DOMAIN postmortems : postmortems[m] \in PostmortemRows
      /\ \A o \in DOMAIN outcomes : outcomes[o] \in OutcomeRows
  BY RowAt DEF Sound, TablesTyped, TypeOK
<1>1. ASSUME UNCHANGED <<cycle, projects, workTables, reviewTables>>,
             episodes' \in Seq(EpisodeRows), postmortems' \in Seq(PostmortemRows),
             outcomes' \in Seq(OutcomeRows)
      PROVE  Sound'
  <2>1. \A e \in DOMAIN episodes' : episodes'[e].state \in EpisodeStates
    <3>1. \A e \in DOMAIN episodes' : episodes'[e] \in EpisodeRows
      BY <1>1, RowAt
    <3> QED BY <3>1 DEF EpisodeRows
  <2> QED BY <1>1, <2>1 DEF Sound, TablesTyped, TypeOK, ForeignKeys, workTables, reviewTables
<1>2. ASSUME NEW p \in DOMAIN projects, CreateEpisode(p)
      PROVE  Sound'
  <2>1. [project |-> p, state |-> "Framed"] \in EpisodeRows
    BY <1>0 DEF EpisodeRows, EpisodeStates
  <2>2. episodes' \in Seq(EpisodeRows)
    BY <1>0, <1>2, <2>1, AppendRow DEF CreateEpisode
  <2> QED BY <1>0, <1>1, <1>2, <2>2 DEF CreateEpisode
<1>3. ASSUME NEW p \in DOMAIN projects, TriggerPostmortem(p)
      PROVE  Sound'
  <2>1. [project |-> p, state |-> "Triggered", claims |-> FALSE, actions |-> FALSE]
          \in PostmortemRows
    BY <1>0 DEF PostmortemRows
  <2>2. postmortems' \in Seq(PostmortemRows)
    BY <1>0, <1>3, <2>1, AppendRow DEF TriggerPostmortem
  <2> QED BY <1>0, <1>1, <1>3, <2>2 DEF TriggerPostmortem
<1>4. ASSUME NEW p \in DOMAIN projects, RegisterOutcomeObligation(p)
      PROVE  Sound'
  <2>1. [project |-> p, state |-> "Scheduled"] \in OutcomeRows
    BY <1>0 DEF OutcomeRows
  <2>2. outcomes' \in Seq(OutcomeRows)
    BY <1>0, <1>4, <2>1, AppendRow DEF RegisterOutcomeObligation
  <2> QED BY <1>0, <1>1, <1>4, <2>2 DEF RegisterOutcomeObligation
<1>5. ASSUME NEW e \in DOMAIN episodes, NEW target \in EpisodeStates,
             TransitionEpisode(e, target) \/ (target = "Reopened" /\ ReopenEpisode(e))
      PROVE  Sound'
  <2> DEFINE row == [episodes[e] EXCEPT !.state = target]
  <2>1. row \in EpisodeRows /\ episodes' = [episodes EXCEPT ![e] = row]
    BY <1>0, <1>5 DEF EpisodeRows, TransitionEpisode, ReopenEpisode
  <2> HIDE DEF row
  <2>2. episodes' \in Seq(EpisodeRows)
    BY <1>0, <2>1, UpdateRow
  <2> QED BY <1>0, <1>1, <1>5, <2>2 DEF TransitionEpisode, ReopenEpisode
<1>6. "Reopened" \in EpisodeStates
  BY DEF EpisodeStates
<1>7. ASSUME NEW m \in DOMAIN postmortems, RecordPostmortemCausalClaim(m)
      PROVE  Sound'
  <2> DEFINE row == [postmortems[m] EXCEPT !.claims = TRUE, !.state = "Investigating"]
  <2>1. row \in PostmortemRows /\ postmortems' = [postmortems EXCEPT ![m] = row]
    BY <1>0, <1>7 DEF PostmortemRows, RecordPostmortemCausalClaim, InvestigatePostmortem
  <2> HIDE DEF row
  <2>2. postmortems' \in Seq(PostmortemRows)
    BY <1>0, <2>1, UpdateRow
  <2> QED BY <1>0, <1>1, <1>7, <2>2 DEF RecordPostmortemCausalClaim, InvestigatePostmortem
<1>8. ASSUME NEW m \in DOMAIN postmortems, ProposePostmortemAction(m)
      PROVE  Sound'
  <2> DEFINE row == [postmortems[m] EXCEPT !.actions = TRUE, !.state = "Investigating"]
  <2>1. row \in PostmortemRows /\ postmortems' = [postmortems EXCEPT ![m] = row]
    BY <1>0, <1>8 DEF PostmortemRows, ProposePostmortemAction, InvestigatePostmortem
  <2> HIDE DEF row
  <2>2. postmortems' \in Seq(PostmortemRows)
    BY <1>0, <2>1, UpdateRow
  <2> QED BY <1>0, <1>1, <1>8, <2>2 DEF ProposePostmortemAction, InvestigatePostmortem
<1>9. ASSUME NEW m \in DOMAIN postmortems, ClosePostmortem(m)
      PROVE  Sound'
  <2> DEFINE row == [postmortems[m] EXCEPT !.state = "Closed"]
  <2>1. row \in PostmortemRows /\ postmortems' = [postmortems EXCEPT ![m] = row]
    BY <1>0, <1>9 DEF PostmortemRows, ClosePostmortem
  <2> HIDE DEF row
  <2>2. postmortems' \in Seq(PostmortemRows)
    BY <1>0, <2>1, UpdateRow
  <2> QED BY <1>0, <1>1, <1>9, <2>2 DEF ClosePostmortem
<1>10. ASSUME NEW o \in DOMAIN outcomes, NEW d \in {"Satisfied", "Waived"},
              ResolveOutcomeObligation(o, d)
       PROVE  Sound'
  <2> DEFINE row == [outcomes[o] EXCEPT !.state = d]
  <2>1. row \in OutcomeRows /\ outcomes' = [outcomes EXCEPT ![o] = row]
    BY <1>0, <1>10 DEF OutcomeRows, ResolveOutcomeObligation
  <2> HIDE DEF row
  <2>2. outcomes' \in Seq(OutcomeRows)
    BY <1>0, <2>1, UpdateRow
  <2> QED BY <1>0, <1>1, <1>10, <2>2 DEF ResolveOutcomeObligation
<1> QED BY <1>2, <1>3, <1>4, <1>5, <1>6, <1>7, <1>8, <1>9, <1>10 DEF SideStep

\* Every command keeps types and references.
LEMMA StepSound ==
  ASSUME Sound, [Next]_vars
  PROVE  Sound'
<1>1. CASE UNCHANGED vars
  BY <1>1 DEF vars, Sound, TablesTyped, TypeOK, ForeignKeys, workTables, reviewTables,
     sideTables
<1> QED BY <1>1, CycleSound, ProjectSound, WorkSound, ReviewSound, SideSound DEF Next

\* Types and references hold in every reachable state.
THEOREM TablesAreSound == Spec => []Sound
<1>1. Init => Sound
  BY InitSound
<1>2. Sound /\ [Next]_vars => Sound'
  BY StepSound
<1> QED BY <1>1, <1>2, PTL DEF Spec

\* Every table keeps its row type in every reachable state, for any bounds.
THEOREM TypesHold == Spec => []TypeOK
<1>1. Sound => TypeOK
  BY DEF Sound, TablesTyped
<1> QED BY <1>1, TablesAreSound, PTL

-----------------------------------------------------------------------------
(* Execution: the item's state decides its ticket, its leases and its      *)
(* attempts.                                                               *)

\* Only an Admitted ticket gets an item, and no ticket is Admitted again.
OneWorkPerTicket ==
    \A v, w \in DOMAIN works : works[v].ticket = works[w].ticket => v = w

TicketFollowsWork ==
    \A w \in DOMAIN works :
      /\ tickets[works[w].ticket].state \notin {"Draft", "Admitted"}
      /\ works[w].state = "Ready" => tickets[works[w].ticket].state = "Ready"
      /\ works[w].state \in {"Claimed", "Running"} =>
           tickets[works[w].ticket].state = "Claimed"

LeaseFollowsWork ==
    /\ \A l \in DOMAIN leases : leases[l].state = "Active" =>
         works[leases[l].work].state \in {"Claimed", "Running"}
    /\ \A k, l \in DOMAIN leases :
         leases[k].state = "Active" /\ leases[l].state = "Active"
         /\ leases[k].work = leases[l].work => k = l
    /\ \A w \in DOMAIN works : works[w].state \in {"Claimed", "Running"} =>
         \E l \in DOMAIN leases : leases[l].work = w /\ leases[l].state = "Active"

\* The item runs exactly while an attempt holds it, and one at most does.
AttemptFollowsWork ==
    /\ \A a \in DOMAIN attempts : HoldsItem(a) =>
         /\ works[attempts[a].work].state = "Running"
         /\ leases[attempts[a].lease].state = "Active"
    /\ \A a, b \in DOMAIN attempts :
         HoldsItem(a) /\ HoldsItem(b) /\ attempts[a].work = attempts[b].work => a = b
    /\ \A w \in DOMAIN works : works[w].state = "Running" =>
         \E a \in DOMAIN attempts : attempts[a].work = w /\ HoldsItem(a)

\* While its child is neither absent nor lost, nothing ends an attempt.
ChildFollowsAttempt ==
    \A a \in DOMAIN attempts : attempts[a].child = "Admitted" => attempts[a].state \in Live

ExecutionInv ==
    /\ OneWorkPerTicket /\ TicketFollowsWork /\ LeaseFollowsWork
    /\ AttemptFollowsWork /\ ChildFollowsAttempt

\* No command outside WorkStep writes a table of execution.
LEMMA OtherStepsLeaveWork ==
  ASSUME CycleStep \/ ProjectStep \/ ReviewStep \/ SideStep \/ UNCHANGED vars
  PROVE  UNCHANGED <<tickets, works, leases, attempts>>
<1>1. CASE CycleStep
  BY <1>1 DEF CycleStep, StopCycle, ResumeCycle, SucceedCycle, workTables
<1>2. CASE ProjectStep
  BY <1>2 DEF ProjectStep, CreateProject, CharterProject, CompleteProjectMilestone,
     TransitionProject, ReopenProject, workTables
<1>3. CASE ReviewStep
  BY <1>3 DEF ReviewStep, AddGraphObjectRevision, CommitGraphRevision, AddGraphEdge,
     RequestAdversarialReview, AssignAdversarialReviewer, SubmitReviewChallenge,
     RespondToReviewChallenge, DispositionReviewChallenge, ResolveAdversarialReview,
     workTables
<1>4. CASE SideStep
  BY <1>4 DEF SideStep, CreateEpisode, TransitionEpisode, ReopenEpisode, TriggerPostmortem,
     RecordPostmortemCausalClaim, ProposePostmortemAction, InvestigatePostmortem,
     ClosePostmortem, RegisterOutcomeObligation, ResolveOutcomeObligation, workTables
<1>5. CASE UNCHANGED vars
  BY <1>5 DEF vars, workTables
<1> QED BY <1>1, <1>2, <1>3, <1>4, <1>5

\* An item and its ticket that move together stay together, and no other
\* item shares the ticket.
LEMMA ItemAndTicketMove ==
  ASSUME ForeignKeys, OneWorkPerTicket, TicketFollowsWork, NEW w \in DOMAIN works,
         NEW t \in DOMAIN tickets, works[w].ticket = t, NEW itemState, NEW ticketState,
         WorkBecomes(w, itemState), TicketBecomes(t, ticketState),
         ticketState \notin {"Draft", "Admitted"},
         itemState = "Ready" => ticketState = "Ready",
         itemState \in {"Claimed", "Running"} => ticketState = "Claimed"
  PROVE  OneWorkPerTicket' /\ TicketFollowsWork'
<1>1. OneWorkPerTicket'
  BY DEF WorkBecomes, OneWorkPerTicket
<1>2. TicketFollowsWork'
  <2>1. \A v \in DOMAIN works : v # w =>
            works'[v] = works[v] /\ tickets'[works[v].ticket] = tickets[works[v].ticket]
    BY DEF WorkBecomes, TicketBecomes, ForeignKeys, OneWorkPerTicket
  <2> QED BY <2>1 DEF WorkBecomes, TicketBecomes, TicketFollowsWork
<1> QED BY <1>1, <1>2

\* A ticket of no waiting or executing item may move alone.
LEMMA TicketMovesAlone ==
  ASSUME ForeignKeys, OneWorkPerTicket, TicketFollowsWork, NEW t \in DOMAIN tickets,
         NEW ticketState, UNCHANGED works, TicketBecomes(t, ticketState),
         tickets[t].state \notin {"Ready", "Claimed"},
         ticketState \in {"Draft", "Admitted"} => tickets[t].state \in {"Draft", "Admitted"}
  PROVE  OneWorkPerTicket' /\ TicketFollowsWork'
BY DEF TicketBecomes, ForeignKeys, OneWorkPerTicket, TicketFollowsWork

\* When the active lease of an item ends with its execution, none is left.
LEMMA LeaseEnds ==
  ASSUME ForeignKeys, LeaseFollowsWork, NEW l \in DOMAIN leases, NEW ended,
         NEW w \in DOMAIN works, NEW itemState, leases[l].work = w,
         leases[l].state = "Active", ended # "Active",
         itemState \notin {"Claimed", "Running"},
         LeaseBecomes(l, ended), WorkBecomes(w, itemState)
  PROVE  LeaseFollowsWork'
<1>1. DOMAIN leases' = DOMAIN leases /\ DOMAIN works' = DOMAIN works
  BY DEF LeaseBecomes, WorkBecomes
<1>2. ASSUME NEW k \in DOMAIN leases, leases'[k].state = "Active"
      PROVE  /\ k # l /\ leases'[k] = leases[k] /\ leases[k].work # w
             /\ works'[leases[k].work] = works[leases[k].work]
  BY <1>2 DEF LeaseBecomes, WorkBecomes, ForeignKeys, LeaseFollowsWork
<1>3. ASSUME NEW v \in DOMAIN works, works'[v].state \in {"Claimed", "Running"}
      PROVE  \E k \in DOMAIN leases : leases'[k].work = v /\ leases'[k].state = "Active"
  <2>1. v # w /\ works[v].state \in {"Claimed", "Running"}
    BY <1>3 DEF WorkBecomes
  <2>2. PICK k \in DOMAIN leases : leases[k].work = v /\ leases[k].state = "Active"
    BY <2>1 DEF LeaseFollowsWork
  <2> QED BY <2>1, <2>2 DEF LeaseBecomes
<1> QED BY <1>1, <1>2, <1>3 DEF LeaseFollowsWork

\* An item may move without its leases while it stays claimed or unclaimed.
LEMMA LeasesStay ==
  ASSUME ForeignKeys, LeaseFollowsWork, NEW w \in DOMAIN works, NEW itemState,
         UNCHANGED leases, WorkBecomes(w, itemState),
         itemState \in {"Claimed", "Running"} <=> works[w].state \in {"Claimed", "Running"}
  PROVE  LeaseFollowsWork'
<1>1. \A v \in DOMAIN works : works'[v].state \in {"Claimed", "Running"} <=>
                                works[v].state \in {"Claimed", "Running"}
  BY DEF WorkBecomes
<1> QED BY <1>1 DEF WorkBecomes, ForeignKeys, LeaseFollowsWork

\* An item that no attempt holds may be readied, with its lease or without.
LEMMA IdleItemMoves ==
  ASSUME ForeignKeys, AttemptFollowsWork, NEW w \in DOMAIN works, NEW itemState,
         itemState # "Running", WorkBecomes(w, itemState), UNCHANGED attempts,
         \A a \in DOMAIN attempts : HoldsItem(a) => attempts[a].work # w,
         DOMAIN leases \subseteq DOMAIN leases',
         \A k \in DOMAIN leases : leases[k].work # w => leases'[k] = leases[k]
  PROVE  AttemptFollowsWork'
<1>1. \A a \in DOMAIN attempts : HoldsItem(a)' <=> HoldsItem(a)
  BY DEF HoldsItem, Stranded
<1> QED BY <1>1 DEF WorkBecomes, ForeignKeys, AttemptFollowsWork

\* When the attempt that holds an item ends with its lease, none is left.
LEMMA AttemptEnds ==
  ASSUME ForeignKeys, AttemptFollowsWork, NEW a \in DOMAIN attempts, NEW kind, NEW ended,
         NEW itemState, HoldsItem(a), ~HoldsItem(a)', itemState # "Running",
         AttemptBecomes(a, kind), WorkBecomes(attempts[a].work, itemState),
         LeaseBecomes(attempts[a].lease, ended)
  PROVE  AttemptFollowsWork'
<1>0. \A b \in DOMAIN attempts : b # a =>
          attempts'[b] = attempts[b] /\ (HoldsItem(b)' <=> HoldsItem(b))
  BY DEF AttemptBecomes, HoldsItem, Stranded
<1>1. \A b \in DOMAIN attempts : b # a /\ HoldsItem(b) =>
          attempts[b].work # attempts[a].work /\ attempts[b].lease # attempts[a].lease
  BY DEF ForeignKeys, AttemptFollowsWork
<1>2. ASSUME NEW b \in DOMAIN attempts', HoldsItem(b)'
      PROVE  /\ b # a /\ attempts'[b] = attempts[b] /\ HoldsItem(b)
             /\ works'[attempts[b].work] = works[attempts[b].work]
             /\ leases'[attempts[b].lease] = leases[attempts[b].lease]
  BY <1>0, <1>1, <1>2 DEF AttemptBecomes, WorkBecomes, LeaseBecomes, ForeignKeys
<1>3. ASSUME NEW w \in DOMAIN works', works'[w].state = "Running"
      PROVE  \E b \in DOMAIN attempts' : attempts'[b].work = w /\ HoldsItem(b)'
  <2>1. w # attempts[a].work /\ works[w].state = "Running"
    BY <1>3 DEF WorkBecomes
  <2>2. PICK b \in DOMAIN attempts : attempts[b].work = w /\ HoldsItem(b)
    BY <1>3, <2>1 DEF WorkBecomes, AttemptFollowsWork
  <2> QED BY <1>0, <2>1, <2>2 DEF AttemptBecomes
<1>4. DOMAIN attempts' = DOMAIN attempts
  BY DEF AttemptBecomes
<1> QED BY <1>2, <1>3, <1>4 DEF AttemptFollowsWork

\* An attempt that goes on holding its item, or goes on not holding it, moves
\* alone.
LEMMA HolderStays ==
  ASSUME AttemptFollowsWork, NEW a \in DOMAIN attempts, NEW state,
         AttemptBecomes(a, state), HoldsItem(a)' <=> HoldsItem(a), UNCHANGED <<works, leases>>
  PROVE  AttemptFollowsWork'
<1>1. \A b \in DOMAIN attempts : HoldsItem(b)' <=> HoldsItem(b)
  BY DEF AttemptBecomes, HoldsItem, Stranded
<1> QED BY <1>1 DEF AttemptBecomes, AttemptFollowsWork

\* No command ends an attempt whose child is admitted and not lost.
LEMMA WorkKeepsChildren ==
  ASSUME Sound, ChildFollowsAttempt, WorkStep
  PROVE  ChildFollowsAttempt'
<1>1. CASE UNCHANGED attempts
  BY <1>1 DEF ChildFollowsAttempt
<1>2. ASSUME NEW a \in DOMAIN attempts, NEW state, AttemptBecomes(a, state),
             attempts'[a].child = "Admitted" => state \in Live
      PROVE  ChildFollowsAttempt'
  BY <1>2 DEF AttemptBecomes, ChildFollowsAttempt
<1>3. ASSUME NEW w \in DOMAIN works, NEW l \in DOMAIN leases, StartActorAttempt(w, l)
      PROVE  ChildFollowsAttempt'
  <2>1. Appended(attempts, attempts',
          [cycle |-> cycle.number, ticket |-> works[w].ticket, work |-> w,
           lease |-> l, actor |-> works[w].actor, state |-> "Running",
           reconciled |-> FALSE, child |-> "None"])
    BY <1>3, StartWrites
  <2> QED BY <2>1 DEF Appended, ChildFollowsAttempt
<1>4. ASSUME NEW a \in DOMAIN attempts, NEW kind \in AttemptStates,
             AttestActorAttemptTerminal(a, kind)
      PROVE  ChildFollowsAttempt'
  <2>1. AttemptBecomes(a, kind) /\ attempts'[a].child = "None"
    BY <1>4, AttestWrites
  <2> QED BY <1>2, <2>1
<1>5. ASSUME NEW a \in DOMAIN attempts, ValidateTicketAttempt(a)
      PROVE  ChildFollowsAttempt'
  <2>1. AttemptBecomes(a, "Validated") /\ attempts'[a].child = attempts[a].child
    BY <1>5, ValidateWrites
  <2>2. attempts[a].child # "Admitted"
    BY <1>5 DEF ValidateTicketAttempt, ChildFollowsAttempt, Live
  <2> QED BY <1>2, <2>1, <2>2
<1>6. ASSUME NEW a \in DOMAIN attempts, CancelActorAttempt(a)
      PROVE  ChildFollowsAttempt'
  <2>1. AttemptBecomes(a, "CancellationRequested") /\ "CancellationRequested" \in Live
    BY <1>6, CancelWrites DEF Live
  <2> QED BY <1>2, <2>1
<1>7. ASSUME NEW a \in DOMAIN attempts,
             ReconcileAttemptBudget(a) \/ AdmitAttemptChild(a) \/ LoseAttemptChild(a)
      PROVE  ChildFollowsAttempt'
  <2>1. /\ AttemptBecomes(a, attempts[a].state)
        /\ \/ attempts'[a].child = attempts[a].child
           \/ AdmitAttemptChild(a) /\ attempts'[a].child = "Admitted"
           \/ LoseAttemptChild(a) /\ attempts'[a].child = "Lost"
    BY <1>7, BookkeepingWrites
  <2>2. attempts'[a].child = "Admitted" => attempts[a].state \in Live
    BY <2>1 DEF AdmitAttemptChild, ChildFollowsAttempt, Live
  <2> QED BY <1>2, <2>1, <2>2
<1>8. ASSUME NEW a \in DOMAIN attempts, SettleActorTaskAttemptAfterRecovery(a)
      PROVE  ChildFollowsAttempt'
  <2>1. AttemptBecomes(a, "Failed") /\ attempts'[a].child = "Lost"
    BY <1>8, SettleWrites
  <2> QED BY <1>2, <2>1
<1> QED
  BY <1>1, <1>3, <1>4, <1>5, <1>6, <1>7, <1>8
     DEF WorkStep, AdmitActorInstance, CreateTicket, AdmitTicket, RegisterWorkItem,
         ClaimWorkItem, ExpireWorkLease, RetryActorAttempt, CompleteTicket

\* The commands of execution keep the invariant.
LEMMA WorkKeepsExecution ==
  ASSUME Sound, ExecutionInv, WorkStep
  PROVE  ExecutionInv'
<1>0. ForeignKeys /\ OneWorkPerTicket /\ TicketFollowsWork /\ LeaseFollowsWork
      /\ AttemptFollowsWork /\ ChildFollowsAttempt
  BY DEF Sound, ExecutionInv
<1>c. ChildFollowsAttempt'
  BY <1>0, WorkKeepsChildren
<1>1. CASE AdmitActorInstance
  BY <1>0, <1>1, <1>c DEF AdmitActorInstance, ExecutionInv, OneWorkPerTicket,
     TicketFollowsWork, LeaseFollowsWork, AttemptFollowsWork, HoldsItem, Stranded
<1>2. ASSUME NEW p \in DOMAIN projects, NEW t \in DOMAIN tickets \cup {0}, CreateTicket(p, t)
      PROVE  ExecutionInv'
  <2>1. \A i \in DOMAIN tickets : tickets'[i] = tickets[i]
    BY <1>2, CreateWrites
  <2>2. OneWorkPerTicket' /\ TicketFollowsWork'
    BY <1>0, <1>2, <2>1 DEF CreateTicket, ForeignKeys, OneWorkPerTicket, TicketFollowsWork
  <2>3. LeaseFollowsWork' /\ AttemptFollowsWork'
    BY <1>0, <1>2 DEF CreateTicket, LeaseFollowsWork, AttemptFollowsWork, HoldsItem,
       Stranded
  <2> QED BY <1>c, <2>2, <2>3 DEF ExecutionInv
<1>3. ASSUME NEW t \in DOMAIN tickets, AdmitTicket(t)
      PROVE  ExecutionInv'
  <2>1. TicketBecomes(t, "Admitted") /\ tickets[t].state = "Draft"
    BY <1>3, TicketUpdate DEF AdmitTicket, TicketStates
  <2>2. UNCHANGED <<works, leases, attempts>>
    BY <1>3 DEF AdmitTicket
  <2>3. OneWorkPerTicket' /\ TicketFollowsWork'
    BY <1>0, <2>1, <2>2, TicketMovesAlone
  <2>4. LeaseFollowsWork' /\ AttemptFollowsWork'
    BY <1>0, <2>2 DEF LeaseFollowsWork, AttemptFollowsWork, HoldsItem, Stranded
  <2> QED BY <1>c, <2>3, <2>4 DEF ExecutionInv
<1>4. ASSUME NEW t \in DOMAIN tickets, NEW a \in DOMAIN actors,
             NEW v \in DOMAIN reviews \cup {0}, RegisterWorkItem(t, a, v)
      PROVE  ExecutionInv'
  <2>1. /\ Appended(works, works', [ticket |-> t, actor |-> a, review |-> v,
                                    retryOf |-> 0, state |-> "Ready"])
        /\ TicketBecomes(t, "Ready")
    BY <1>4, RegisterWrites
  <2>2. UNCHANGED <<leases, attempts>> /\ \A w \in DOMAIN works : works[w].ticket # t
    BY <1>0, <1>4 DEF RegisterWorkItem, TicketFollowsWork
  <2> DEFINE new == Len(works) + 1
  <2>3. /\ DOMAIN works' = DOMAIN works \cup {new} /\ new \notin DOMAIN works
        /\ \A i \in DOMAIN works : works'[i] = works[i]
        /\ works'[new].ticket = t /\ works'[new].state = "Ready"
    BY <2>1 DEF Appended
  <2> HIDE DEF new
  <2>4. OneWorkPerTicket' /\ TicketFollowsWork'
    BY <1>0, <2>1, <2>2, <2>3 DEF TicketBecomes, ForeignKeys, OneWorkPerTicket,
       TicketFollowsWork
  <2>5. LeaseFollowsWork'
    BY <1>0, <2>2, <2>3 DEF ForeignKeys, LeaseFollowsWork
  <2>6. AttemptFollowsWork'
    BY <1>0, <2>2, <2>3 DEF ForeignKeys, AttemptFollowsWork, HoldsItem, Stranded
  <2> QED BY <1>c, <2>4, <2>5, <2>6 DEF ExecutionInv
<1>5. ASSUME NEW w \in DOMAIN works, ClaimWorkItem(w)
      PROVE  ExecutionInv'
  <2>1. /\ Appended(leases, leases',
                    [work |-> w, actor |-> works[w].actor, state |-> "Active"])
        /\ WorkBecomes(w, "Claimed") /\ TicketBecomes(works[w].ticket, "Claimed")
    BY <1>5, ClaimWrites
  <2>2. OneWorkPerTicket' /\ TicketFollowsWork'
    BY <1>0, <2>1, ItemAndTicketMove DEF ForeignKeys
  <2>3. LeaseFollowsWork'
    BY <1>0, <1>5, <2>1 DEF ClaimWorkItem, ActiveLeases, Appended, WorkBecomes, ForeignKeys,
       LeaseFollowsWork
  <2>4. UNCHANGED attempts /\ works[w].state = "Ready"
    BY <1>5 DEF ClaimWorkItem
  <2>5. \A a \in DOMAIN attempts : HoldsItem(a) => attempts[a].work # w
    BY <1>0, <2>4 DEF AttemptFollowsWork
  <2>6. /\ DOMAIN leases \subseteq DOMAIN leases'
        /\ \A k \in DOMAIN leases : leases[k].work # w => leases'[k] = leases[k]
    BY <2>1 DEF Appended
  <2>7. AttemptFollowsWork'
    BY <1>0, <2>1, <2>4, <2>5, <2>6, IdleItemMoves
  <2> QED BY <1>c, <2>2, <2>3, <2>7 DEF ExecutionInv
<1>6. ASSUME NEW w \in DOMAIN works, NEW l \in DOMAIN leases, StartActorAttempt(w, l)
      PROVE  ExecutionInv'
  <2>1. /\ Appended(attempts, attempts',
             [cycle |-> cycle.number, ticket |-> works[w].ticket, work |-> w,
              lease |-> l, actor |-> works[w].actor, state |-> "Running",
              reconciled |-> FALSE, child |-> "None"])
        /\ WorkBecomes(w, "Running")
    BY <1>6, StartWrites
  <2>2. /\ UNCHANGED <<tickets, leases>> /\ works[w].state = "Claimed"
        /\ leases[l].work = w /\ leases[l].state = "Active"
    BY <1>6 DEF StartActorAttempt, ActiveLeases
  <2>3. OneWorkPerTicket' /\ TicketFollowsWork'
    BY <1>0, <2>1, <2>2 DEF WorkBecomes, OneWorkPerTicket, TicketFollowsWork
  <2>4. LeaseFollowsWork'
    BY <1>0, <2>1, <2>2, LeasesStay
  <2>5. PICK new :
          /\ DOMAIN attempts' = DOMAIN attempts \cup {new} /\ new \notin DOMAIN attempts
          /\ \A i \in DOMAIN attempts : attempts'[i] = attempts[i]
          /\ attempts'[new].work = w /\ attempts'[new].lease = l
          /\ attempts'[new].state = "Running"
    BY <2>1 DEF Appended
  <2>6. \A a \in DOMAIN attempts : HoldsItem(a) =>
            /\ attempts[a].work # w
            /\ works'[attempts[a].work] = works[attempts[a].work]
    BY <1>0, <2>1, <2>2 DEF WorkBecomes, ForeignKeys, AttemptFollowsWork
  <2>7. /\ \A a \in DOMAIN attempts : HoldsItem(a)' <=> HoldsItem(a)
        /\ HoldsItem(new)'
    <3>1. \A a \in DOMAIN attempts : HoldsItem(a)' <=> HoldsItem(a)
      BY <2>5 DEF HoldsItem, Stranded
    <3>2. HoldsItem(new)'
      BY <2>5 DEF HoldsItem, Live
    <3> QED BY <3>1, <3>2
  <2>8. AttemptFollowsWork'
    <3>1. ASSUME NEW a \in DOMAIN attempts', HoldsItem(a)'
          PROVE  /\ works'[attempts'[a].work].state = "Running"
                 /\ leases'[attempts'[a].lease].state = "Active"
      <4>1. CASE a = new
        BY <2>1, <2>2, <2>5, <4>1 DEF WorkBecomes
      <4>2. CASE a # new
        BY <1>0, <2>2, <2>5, <2>6, <2>7, <3>1, <4>2 DEF AttemptFollowsWork
      <4> QED BY <4>1, <4>2
    <3>2. ASSUME NEW a \in DOMAIN attempts', NEW b \in DOMAIN attempts',
                 HoldsItem(a)', HoldsItem(b)', attempts'[a].work = attempts'[b].work
          PROVE  a = b
      BY <1>0, <2>5, <2>6, <2>7, <3>2 DEF AttemptFollowsWork
    <3>3. ASSUME NEW v \in DOMAIN works', works'[v].state = "Running"
          PROVE  \E a \in DOMAIN attempts' : attempts'[a].work = v /\ HoldsItem(a)'
      <4>1. CASE v = w
        BY <2>5, <2>7, <4>1
      <4>2. CASE v # w
        <5>1. v \in DOMAIN works /\ works[v].state = "Running"
          BY <2>1, <3>3, <4>2 DEF WorkBecomes
        <5>2. PICK a \in DOMAIN attempts : attempts[a].work = v /\ HoldsItem(a)
          BY <1>0, <5>1 DEF AttemptFollowsWork
        <5> QED BY <2>5, <2>7, <5>2
      <4> QED BY <4>1, <4>2
    <3> QED BY <3>1, <3>2, <3>3 DEF AttemptFollowsWork
  <2> QED BY <1>c, <2>3, <2>4, <2>8 DEF ExecutionInv
<1>7. ASSUME NEW l \in DOMAIN leases, ExpireWorkLease(l)
      PROVE  ExecutionInv'
  <2>1. /\ LeaseBecomes(l, "Expired")
        /\ WorkBecomes(leases[l].work, "Ready")
        /\ TicketBecomes(works[leases[l].work].ticket, "Ready")
    BY <1>7, ExpireWrites
  <2>2. /\ UNCHANGED attempts /\ leases[l].state = "Active" /\ leases[l].work \in DOMAIN works
        /\ works[leases[l].work].ticket \in DOMAIN tickets
        /\ \A a \in DOMAIN attempts : attempts[a].lease # l
    BY <1>0, <1>7 DEF ExpireWorkLease, ForeignKeys
  <2>3. OneWorkPerTicket' /\ TicketFollowsWork'
    BY <1>0, <2>1, <2>2, ItemAndTicketMove
  <2>4. LeaseFollowsWork'
    BY <1>0, <2>1, <2>2, LeaseEnds
  <2>5. \A a \in DOMAIN attempts : HoldsItem(a) => attempts[a].work # leases[l].work
    BY <1>0, <2>2 DEF ForeignKeys, LeaseFollowsWork, AttemptFollowsWork
  <2>6. AttemptFollowsWork'
    BY <1>0, <2>1, <2>2, <2>5, IdleItemMoves DEF LeaseBecomes
  <2> QED BY <1>c, <2>3, <2>4, <2>6 DEF ExecutionInv
<1>8. ASSUME NEW a \in DOMAIN attempts, NEW kind \in AttemptStates,
             AttestActorAttemptTerminal(a, kind)
      PROVE  ExecutionInv'
  <2>1. /\ attempts[a].state \in Live
        /\ kind \in {"Succeeded", "Failed", "Expired", "Cancelled"}
        /\ AttemptBecomes(a, kind) /\ attempts'[a].child = "None"
        /\ \/ leases[attempts[a].lease].state # "Active" /\ UNCHANGED leases
           \/ \E ended \in {"Released", "Cancelled"} :
                LeaseBecomes(attempts[a].lease, ended)
        /\ WorkBecomes(attempts[a].work, "Settled")
        /\ TicketBecomes(attempts[a].ticket, TicketAfter(kind))
        /\ TicketAfter(kind) \in {"Submitted", "Cancelled", "Ready", "Failed"}
    BY <1>8, AttestWrites
  <2>2. /\ attempts[a].work \in DOMAIN works /\ attempts[a].lease \in DOMAIN leases
        /\ works[attempts[a].work].ticket = attempts[a].ticket
        /\ attempts[a].ticket \in DOMAIN tickets
        /\ leases[attempts[a].lease].work = attempts[a].work
        /\ leases[attempts[a].lease].state = "Active"
    BY <1>0, <2>1 DEF ForeignKeys, AttemptFollowsWork, HoldsItem
  <2>3. PICK ended \in {"Released", "Cancelled"} : LeaseBecomes(attempts[a].lease, ended)
    BY <2>1, <2>2
  <2>4. HoldsItem(a) /\ ~HoldsItem(a)'
    BY <2>1 DEF AttemptBecomes, HoldsItem, Stranded, Live
  <2>5. OneWorkPerTicket' /\ TicketFollowsWork'
    BY <1>0, <2>1, <2>2, ItemAndTicketMove
  <2>6. LeaseFollowsWork'
    BY <1>0, <2>1, <2>2, <2>3, LeaseEnds
  <2>7. AttemptFollowsWork'
    BY <1>0, <2>1, <2>3, <2>4, AttemptEnds
  <2> QED BY <1>c, <2>5, <2>6, <2>7 DEF ExecutionInv
<1>9. ASSUME NEW a \in DOMAIN attempts, ValidateTicketAttempt(a)
      PROVE  ExecutionInv'
  <2>1. AttemptBecomes(a, "Validated") /\ TicketBecomes(attempts[a].ticket, "Verified")
    BY <1>9, ValidateWrites
  <2>2. /\ UNCHANGED <<works, leases>> /\ attempts[a].state = "Succeeded"
        /\ tickets[attempts[a].ticket].state = "Submitted"
        /\ attempts[a].ticket \in DOMAIN tickets
    BY <1>0, <1>9 DEF ValidateTicketAttempt, ForeignKeys
  <2>3. OneWorkPerTicket' /\ TicketFollowsWork'
    BY <1>0, <2>1, <2>2, TicketMovesAlone
  <2>4. LeaseFollowsWork'
    BY <1>0, <2>2 DEF LeaseFollowsWork
  <2>5. HoldsItem(a)' <=> HoldsItem(a)
    BY <2>1, <2>2 DEF AttemptBecomes, HoldsItem, Stranded, Live
  <2>6. AttemptFollowsWork'
    BY <1>0, <2>1, <2>2, <2>5, HolderStays
  <2> QED BY <1>c, <2>3, <2>4, <2>6 DEF ExecutionInv
<1>10. ASSUME NEW a \in DOMAIN attempts, RetryActorAttempt(a)
       PROVE  ExecutionInv'
  <2>1. WorkBecomes(attempts[a].work, "Ready") /\ TicketBecomes(attempts[a].ticket, "Ready")
    BY <1>10, RetryWrites
  <2>2. /\ UNCHANGED <<attempts, leases>> /\ works[attempts[a].work].state = "Settled"
        /\ attempts[a].work \in DOMAIN works
        /\ works[attempts[a].work].ticket = attempts[a].ticket
        /\ attempts[a].ticket \in DOMAIN tickets
    BY <1>0, <1>10 DEF RetryActorAttempt, ForeignKeys
  <2>3. OneWorkPerTicket' /\ TicketFollowsWork'
    BY <1>0, <2>1, <2>2, ItemAndTicketMove
  <2>4. LeaseFollowsWork'
    BY <1>0, <2>1, <2>2, LeasesStay
  <2>5. \A b \in DOMAIN attempts : HoldsItem(b) => attempts[b].work # attempts[a].work
    BY <1>0, <2>2 DEF AttemptFollowsWork
  <2>6. AttemptFollowsWork'
    BY <1>0, <2>1, <2>2, <2>5, IdleItemMoves
  <2> QED BY <1>c, <2>3, <2>4, <2>6 DEF ExecutionInv
<1>11. ASSUME NEW a \in DOMAIN attempts, CompleteTicket(a)
       PROVE  ExecutionInv'
  <2>1. TicketBecomes(attempts[a].ticket, "Completed")
    BY <1>11, CompleteWrites
  <2>2. /\ UNCHANGED <<works, leases, attempts>>
        /\ tickets[attempts[a].ticket].state = "Verified"
        /\ attempts[a].ticket \in DOMAIN tickets
    BY <1>0, <1>11 DEF CompleteTicket, ForeignKeys
  <2>3. OneWorkPerTicket' /\ TicketFollowsWork'
    BY <1>0, <2>1, <2>2, TicketMovesAlone
  <2>4. LeaseFollowsWork' /\ AttemptFollowsWork'
    BY <1>0, <2>2 DEF LeaseFollowsWork, AttemptFollowsWork, HoldsItem, Stranded
  <2> QED BY <1>c, <2>3, <2>4 DEF ExecutionInv
<1>12. ASSUME NEW a \in DOMAIN attempts,
              \/ CancelActorAttempt(a) \/ ReconcileAttemptBudget(a)
              \/ AdmitAttemptChild(a) \/ LoseAttemptChild(a)
              \/ SettleActorTaskAttemptAfterRecovery(a)
       PROVE  ExecutionInv'
  <2>1. PICK state : AttemptBecomes(a, state) /\ (HoldsItem(a)' <=> HoldsItem(a))
    <3>1. CASE CancelActorAttempt(a)
      <4>1. AttemptBecomes(a, "CancellationRequested") /\ attempts[a].state = "Running"
        BY <3>1, CancelWrites DEF CancelActorAttempt
      <4> QED BY <4>1 DEF AttemptBecomes, HoldsItem, Live
    <3>2. CASE ReconcileAttemptBudget(a) \/ AdmitAttemptChild(a) \/ LoseAttemptChild(a)
      <4>1. /\ AttemptBecomes(a, attempts[a].state)
            /\ \/ attempts'[a].child = attempts[a].child
               \/ AdmitAttemptChild(a) /\ attempts'[a].child = "Admitted"
               \/ LoseAttemptChild(a) /\ attempts'[a].child = "Lost"
        BY <3>2, BookkeepingWrites
      <4>2. attempts'[a].child = attempts[a].child \/ attempts[a].state \in Live
        BY <1>0, <4>1 DEF AdmitAttemptChild, LoseAttemptChild, ChildFollowsAttempt, Live
      <4>3. attempts'[a].state = attempts[a].state
        BY <4>1 DEF AttemptBecomes
      <4>4. HoldsItem(a)' <=> HoldsItem(a)
        BY <4>2, <4>3 DEF HoldsItem, Stranded
      <4> QED BY <4>1, <4>4
    <3>3. CASE SettleActorTaskAttemptAfterRecovery(a)
      <4>1. /\ AttemptBecomes(a, "Failed") /\ attempts[a].state \in Live
            /\ attempts'[a].child = "Lost"
        BY <3>3, SettleWrites
      <4> QED BY <4>1 DEF AttemptBecomes, HoldsItem, Stranded
    <3> QED BY <1>12, <3>1, <3>2, <3>3
  <2>2. UNCHANGED <<tickets, works, leases>>
    BY <1>12 DEF CancelActorAttempt, ReconcileAttemptBudget, AdmitAttemptChild,
       LoseAttemptChild, SettleActorTaskAttemptAfterRecovery
  <2>3. OneWorkPerTicket' /\ TicketFollowsWork' /\ LeaseFollowsWork'
    BY <1>0, <2>2 DEF OneWorkPerTicket, TicketFollowsWork, LeaseFollowsWork
  <2>5. AttemptFollowsWork'
    BY <1>0, <2>1, <2>2, HolderStays
  <2> QED BY <1>c, <2>3, <2>5 DEF ExecutionInv
<1> QED
  BY <1>1, <1>2, <1>3, <1>4, <1>5, <1>6, <1>7, <1>8, <1>9, <1>10, <1>11, <1>12
     DEF WorkStep

\* Execution's tables hang together in every reachable state.
THEOREM ExecutionHolds == Spec => [](Sound /\ ExecutionInv)
<1>1. Init => Sound /\ ExecutionInv
  BY InitSound DEF Init, ExecutionInv, OneWorkPerTicket, TicketFollowsWork,
     LeaseFollowsWork, AttemptFollowsWork, ChildFollowsAttempt
<1>2. Sound /\ ExecutionInv /\ [Next]_vars => (Sound /\ ExecutionInv)'
  <2> SUFFICES ASSUME Sound, ExecutionInv, [Next]_vars
               PROVE  Sound' /\ ExecutionInv'
    OBVIOUS
  <2>1. CASE WorkStep
    BY <2>1, StepSound, WorkKeepsExecution
  <2>2. CASE CycleStep \/ ProjectStep \/ ReviewStep \/ SideStep \/ UNCHANGED vars
    <3>1. UNCHANGED <<tickets, works, leases, attempts>>
      BY <2>2, OtherStepsLeaveWork
    <3>2. ExecutionInv'
      BY <3>1 DEF ExecutionInv, OneWorkPerTicket, TicketFollowsWork, LeaseFollowsWork,
         AttemptFollowsWork, ChildFollowsAttempt, HoldsItem, Stranded
    <3> QED BY <3>2, StepSound
  <2> QED BY <2>1, <2>2 DEF Next
<1> QED BY <1>1, <1>2, PTL DEF Spec

\* At most one active lease makes their number one or zero.
LEMMA ActiveLeaseCount ==
  ASSUME Sound, LeaseFollowsWork, NEW w \in DOMAIN works
  PROVE  /\ Cardinality(ActiveLeases(w)) = 1 <=> ActiveLeases(w) # {}
         /\ works[w].state \in {"Claimed", "Running"} <=> ActiveLeases(w) # {}
<1>1. works[w].state \in {"Claimed", "Running"} <=> ActiveLeases(w) # {}
  BY DEF LeaseFollowsWork, ActiveLeases
<1>2. CASE ActiveLeases(w) = {}
  BY <1>1, <1>2, FS_EmptySet
<1>3. CASE ActiveLeases(w) # {}
  <2>1. PICK l \in DOMAIN leases : leases[l].work = w /\ leases[l].state = "Active"
    BY <1>3 DEF ActiveLeases
  <2>2. ActiveLeases(w) = {l}
    BY <2>1 DEF LeaseFollowsWork, ActiveLeases
  <2> QED BY <1>1, <2>2, FS_Singleton
<1> QED BY <1>2, <1>3

\* An item has an active lease exactly while it is claimed or running, and runs
\* exactly while one attempt, live or settled after recovery, holds it under
\* that lease, whatever the order of claim, start, expiry, cancellation,
\* attestation, retry, loss of the child and settlement.
THEOREM LeaseBacksExecutionHolds == Spec => []LeaseBacksExecution
<1>1. Sound /\ ExecutionInv => LeaseBacksExecution
  <2> SUFFICES ASSUME Sound, ExecutionInv
               PROVE  LeaseBacksExecution
    OBVIOUS
  <2>0. ForeignKeys /\ TicketFollowsWork /\ LeaseFollowsWork /\ AttemptFollowsWork
    BY DEF Sound, ExecutionInv
  <2>1. \A w \in DOMAIN works : works[w].state \in {"Ready", "Claimed", "Running", "Settled"}
    <3>1. \A w \in DOMAIN works : works[w] \in WorkRows
      BY RowAt DEF Sound, TablesTyped, TypeOK
    <3> QED BY <3>1 DEF WorkRows
  <2>2. ASSUME NEW w \in DOMAIN works
        PROVE  /\ works[w].state \in {"Claimed", "Running"} <=> Cardinality(ActiveLeases(w)) = 1
               /\ works[w].state \in {"Ready", "Settled"} <=> ActiveLeases(w) = {}
    BY <2>0, <2>1, ActiveLeaseCount
  <2>3. ASSUME NEW w \in DOMAIN works
        PROVE  works[w].state = "Running" <=>
                 \E a \in DOMAIN attempts : attempts[a].work = w /\ HoldsItem(a)
    BY <2>0 DEF AttemptFollowsWork
  <2>4. ASSUME NEW a \in DOMAIN attempts, HoldsItem(a)
        PROVE  /\ leases[attempts[a].lease].state = "Active"
               /\ leases[attempts[a].lease].work = attempts[a].work
               /\ tickets[attempts[a].ticket].state = "Claimed"
               /\ \A b \in DOMAIN attempts \ {a} :
                    attempts[b].work = attempts[a].work => ~HoldsItem(b)
    BY <2>0, <2>4 DEF ForeignKeys, TicketFollowsWork, AttemptFollowsWork
  <2> QED BY <2>2, <2>3, <2>4 DEF LeaseBacksExecution
<1> QED BY <1>1, ExecutionHolds, PTL

\* An attempt that was settled after recovery, with its item running and its
\* lease active.
StrandsItem(a) ==
    /\ Stranded(a)
    /\ works[attempts[a].work].state = "Running"
    /\ leases[attempts[a].lease].state = "Active"

\* No command takes a settled attempt out of its state or its child out of Lost.
LEMMA StrandedStays ==
  ASSUME Sound, [Next]_vars, NEW a \in DOMAIN attempts, Stranded(a)
  PROVE  a \in DOMAIN attempts' /\ Stranded(a)'
<1> DEFINE Stays == a \in DOMAIN attempts' /\ Stranded(a)'
<1> SUFFICES Stays
  OBVIOUS
<1>0. attempts[a].state = "Failed" /\ attempts[a].child = "Lost"
  BY DEF Stranded
<1>1. CASE UNCHANGED attempts
  BY <1>0, <1>1 DEF Stranded
<1>2. ASSUME NEW b \in DOMAIN attempts, NEW state, AttemptBecomes(b, state),
             b = a => state = "Failed" /\ attempts'[b].child = "Lost"
      PROVE  Stays
  BY <1>0, <1>2 DEF AttemptBecomes, Stranded
<1>3. ASSUME NEW w \in DOMAIN works, NEW l \in DOMAIN leases, StartActorAttempt(w, l)
      PROVE  Stays
  <2>1. \A i \in DOMAIN attempts : i \in DOMAIN attempts' /\ attempts'[i] = attempts[i]
    BY <1>3, StartWrites DEF Appended
  <2> QED BY <1>0, <2>1 DEF Stranded
<1> HIDE DEF Stays
<1>4. CASE CycleStep \/ ProjectStep \/ ReviewStep \/ SideStep \/ UNCHANGED vars
  BY <1>1, <1>4, OtherStepsLeaveWork
<1>5. CASE WorkStep
  <2>1. ASSUME NEW b \in DOMAIN attempts, NEW kind \in AttemptStates,
               AttestActorAttemptTerminal(b, kind)
        PROVE  Stays
    <3>1. AttemptBecomes(b, kind) /\ attempts[b].child = "None"
      BY <2>1, AttestWrites DEF AttestActorAttemptTerminal
    <3> QED BY <1>0, <1>2, <3>1
  <2>2. ASSUME NEW b \in DOMAIN attempts, ValidateTicketAttempt(b)
        PROVE  Stays
    <3>1. AttemptBecomes(b, "Validated") /\ attempts[b].state = "Succeeded"
      BY <2>2, ValidateWrites DEF ValidateTicketAttempt
    <3> QED BY <1>0, <1>2, <3>1
  <2>3. ASSUME NEW b \in DOMAIN attempts, CancelActorAttempt(b)
        PROVE  Stays
    <3>1. AttemptBecomes(b, "CancellationRequested") /\ attempts[b].state = "Running"
      BY <2>3, CancelWrites DEF CancelActorAttempt
    <3> QED BY <1>0, <1>2, <3>1
  <2>4. ASSUME NEW b \in DOMAIN attempts,
               ReconcileAttemptBudget(b) \/ AdmitAttemptChild(b) \/ LoseAttemptChild(b)
        PROVE  Stays
    <3>1. /\ AttemptBecomes(b, attempts[b].state)
          /\ \/ attempts'[b].child = attempts[b].child
             \/ attempts[b].child = "None"
             \/ attempts[b].child = "Admitted"
      BY <2>4, BookkeepingWrites DEF AdmitAttemptChild, LoseAttemptChild
    <3>2. b = a => attempts[b].state = "Failed" /\ attempts'[b].child = "Lost"
      BY <1>0, <3>1
    <3> QED BY <1>2, <3>1, <3>2
  <2>5. ASSUME NEW b \in DOMAIN attempts, SettleActorTaskAttemptAfterRecovery(b)
        PROVE  Stays
    <3>1. AttemptBecomes(b, "Failed") /\ attempts'[b].child = "Lost"
      BY <2>5, SettleWrites
    <3> QED BY <1>2, <3>1
  <2> QED
    BY <1>1, <1>3, <1>5, <2>1, <2>2, <2>3, <2>4, <2>5
       DEF WorkStep, AdmitActorInstance, CreateTicket, AdmitTicket, RegisterWorkItem,
           ClaimWorkItem, ExpireWorkLease, RetryActorAttempt, CompleteTicket
<1> QED BY <1>4, <1>5 DEF Next

\* What the settlement after recovery leaves is left for ever: no expiry, retry,
\* cancellation or attestation, in this cycle or in another state of it, ends
\* the lease or frees the item of an attempt settled after recovery.  The lease
\* is one that record_cycle_drained, resume_cycle and close_cycle count
\* (store.rs:7640, 7685, 7750), so the cycle that owns it drains only by a
\* cancellation, is never resumed or closed, and has no successor.
THEOREM RecoveryStrandsForGood ==
  Spec => [][\A a \in DOMAIN attempts : Stranded(a) => StrandsItem(a)']_vars
<1>1. (Sound /\ ExecutionInv) /\ (Sound /\ ExecutionInv)' /\ [Next]_vars
        => [\A a \in DOMAIN attempts : Stranded(a) => StrandsItem(a)']_vars
  <2> SUFFICES ASSUME Sound, (Sound /\ ExecutionInv)', [Next]_vars,
                      NEW a \in DOMAIN attempts, Stranded(a)
               PROVE  StrandsItem(a)'
    OBVIOUS
  <2>1. a \in DOMAIN attempts' /\ Stranded(a)'
    BY StrandedStays
  <2> QED BY <2>1 DEF ExecutionInv, AttemptFollowsWork, HoldsItem, StrandsItem
<1> QED BY <1>1, ExecutionHolds, PTL DEF Spec

-----------------------------------------------------------------------------
(* Acceptance.                                                             *)

\* An attempt keeps its work, a success stays one, a settled account stays
\* settled, and a new attempt works for an active project.
LEMMA AttemptsKeepSuccess ==
  ASSUME Sound, [Next]_vars
  PROVE  /\ DOMAIN attempts \subseteq DOMAIN attempts'
         /\ \A a \in DOMAIN attempts :
              /\ attempts'[a].ticket = attempts[a].ticket
              /\ attempts'[a].work = attempts[a].work
              /\ attempts'[a].actor = attempts[a].actor
              /\ attempts[a].state = "Validated" => attempts'[a].state = "Validated"
              /\ attempts[a].state = "Succeeded" =>
                   attempts'[a].state \in {"Succeeded", "Validated"}
              /\ attempts[a].reconciled => attempts'[a].reconciled
         /\ \A a \in DOMAIN attempts' \ DOMAIN attempts :
              /\ attempts'[a].ticket \in DOMAIN tickets
              /\ ProjectIsActive(tickets[attempts'[a].ticket].project)
<1> DEFINE Kept == /\ DOMAIN attempts \subseteq DOMAIN attempts'
                   /\ \A a \in DOMAIN attempts :
                        /\ attempts'[a].ticket = attempts[a].ticket
                        /\ attempts'[a].work = attempts[a].work
                        /\ attempts'[a].actor = attempts[a].actor
                        /\ attempts[a].state = "Validated" => attempts'[a].state = "Validated"
                        /\ attempts[a].state = "Succeeded" =>
                             attempts'[a].state \in {"Succeeded", "Validated"}
                        /\ attempts[a].reconciled => attempts'[a].reconciled
                   /\ \A a \in DOMAIN attempts' \ DOMAIN attempts :
                        /\ attempts'[a].ticket \in DOMAIN tickets
                        /\ ProjectIsActive(tickets[attempts'[a].ticket].project)
<1> SUFFICES Kept
  OBVIOUS
<1>1. CASE CycleStep \/ ProjectStep \/ ReviewStep \/ SideStep \/ UNCHANGED vars
  <2>1. UNCHANGED attempts
    BY <1>1, OtherStepsLeaveWork
  <2> QED BY <2>1
<1>2. CASE WorkStep
  <2>1. ASSUME NEW w \in DOMAIN works, NEW l \in DOMAIN leases, StartActorAttempt(w, l)
        PROVE  Kept
    <3>1. Appended(attempts, attempts',
            [cycle |-> cycle.number, ticket |-> works[w].ticket, work |-> w,
             lease |-> l, actor |-> works[w].actor, state |-> "Running",
             reconciled |-> FALSE, child |-> "None"])
      BY <2>1, StartWrites
    <3>2. /\ works[w].ticket \in DOMAIN tickets
          /\ ProjectIsActive(tickets[works[w].ticket].project)
      BY <2>1 DEF StartActorAttempt, Sound, ForeignKeys
    <3> QED BY <3>1, <3>2 DEF Appended
  <2>2. ASSUME NEW a \in DOMAIN attempts, NEW kind \in AttemptStates,
               AttestActorAttemptTerminal(a, kind)
        PROVE  Kept
    <3>1. AttemptBecomes(a, kind) /\ attempts[a].state \notin {"Succeeded", "Validated"}
      BY <2>2, AttestWrites DEF Live
    <3> QED BY <3>1 DEF AttemptBecomes
  <2>3. ASSUME NEW a \in DOMAIN attempts, ValidateTicketAttempt(a)
        PROVE  Kept
    <3>1. AttemptBecomes(a, "Validated")
      BY <2>3, ValidateWrites
    <3> QED BY <3>1 DEF AttemptBecomes
  <2>4. ASSUME NEW a \in DOMAIN attempts, CancelActorAttempt(a)
        PROVE  Kept
    <3>1. AttemptBecomes(a, "CancellationRequested") /\ attempts[a].state = "Running"
      BY <2>4, CancelWrites DEF CancelActorAttempt
    <3> QED BY <3>1 DEF AttemptBecomes
  <2>5. ASSUME NEW a \in DOMAIN attempts,
               ReconcileAttemptBudget(a) \/ AdmitAttemptChild(a) \/ LoseAttemptChild(a)
        PROVE  Kept
    <3>1. AttemptBecomes(a, attempts[a].state)
      BY <2>5, BookkeepingWrites
    <3> QED BY <3>1 DEF AttemptBecomes
  <2>6. ASSUME NEW a \in DOMAIN attempts, SettleActorTaskAttemptAfterRecovery(a)
        PROVE  Kept
    <3>1. AttemptBecomes(a, "Failed") /\ attempts[a].state \notin {"Succeeded", "Validated"}
      BY <2>6, SettleWrites DEF Live
    <3> QED BY <3>1 DEF AttemptBecomes
  <2>7. CASE UNCHANGED attempts
    BY <2>7
  <2> HIDE DEF Kept
  <2> QED
    BY <1>2, <2>1, <2>2, <2>3, <2>4, <2>5, <2>6, <2>7
       DEF WorkStep, AdmitActorInstance, CreateTicket, AdmitTicket, RegisterWorkItem,
           ClaimWorkItem, ExpireWorkLease, RetryActorAttempt, CompleteTicket
<1> QED BY <1>1, <1>2 DEF Next

\* A ticket becomes Verified or Completed by validation and completion only.
LEMMA AcceptanceStep ==
  ASSUME Sound, ExecutionInv, AcceptanceIsEarned, WorkStep
  PROVE  AcceptanceIsEarned'
<1> DEFINE Earned(t) == /\ tickets'[t].satisfied
                        /\ \E a \in DOMAIN attempts' :
                             attempts'[a].ticket = t /\ attempts'[a].state = "Validated"
<1>0. Sound' /\ [Next]_vars
  BY StepSound DEF Next
<1>1. ASSUME NEW t \in DOMAIN tickets, tickets[t].state \in {"Verified", "Completed"},
             tickets[t].satisfied => tickets'[t].satisfied
      PROVE  Earned(t)
  <2>1. PICK a \in DOMAIN attempts : attempts[a].ticket = t /\ attempts[a].state = "Validated"
    BY <1>1 DEF AcceptanceIsEarned
  <2>2. a \in DOMAIN attempts' /\ attempts'[a].ticket = t /\ attempts'[a].state = "Validated"
    BY <1>0, <2>1, AttemptsKeepSuccess
  <2> QED BY <1>1, <2>2 DEF AcceptanceIsEarned
<1> HIDE DEF Earned
<1>2. ASSUME NEW u, NEW state, TicketBecomes(u, state), state \notin {"Verified", "Completed"}
      PROVE  AcceptanceIsEarned'
  <2>1. ASSUME NEW t \in DOMAIN tickets', tickets'[t].state \in {"Verified", "Completed"}
        PROVE  Earned(t)
    BY <1>1, <1>2, <2>1 DEF TicketBecomes
  <2> QED BY <2>1 DEF AcceptanceIsEarned, Earned
<1>3. ASSUME NEW a \in DOMAIN attempts', NEW state,
             TicketBecomes(attempts'[a].ticket, state), attempts'[a].state = "Validated",
             tickets'[attempts'[a].ticket].satisfied
      PROVE  AcceptanceIsEarned'
  <2>1. ASSUME NEW t \in DOMAIN tickets', tickets'[t].state \in {"Verified", "Completed"}
        PROVE  Earned(t)
    <3>1. CASE t = attempts'[a].ticket
      BY <1>3, <3>1 DEF Earned
    <3>2. CASE t # attempts'[a].ticket
      BY <1>1, <1>3, <2>1, <3>2 DEF TicketBecomes
    <3> QED BY <3>1, <3>2
  <2> QED BY <2>1 DEF AcceptanceIsEarned, Earned
<1>4. CASE UNCHANGED tickets
  <2>1. ASSUME NEW t \in DOMAIN tickets', tickets'[t].state \in {"Verified", "Completed"}
        PROVE  Earned(t)
    BY <1>1, <1>4, <2>1
  <2> QED BY <2>1 DEF AcceptanceIsEarned, Earned
<1>5. ASSUME NEW p \in DOMAIN projects, NEW t \in DOMAIN tickets \cup {0}, CreateTicket(p, t)
      PROVE  AcceptanceIsEarned'
  <2>1. /\ DOMAIN tickets' = DOMAIN tickets \cup {Len(tickets) + 1}
        /\ tickets'[Len(tickets) + 1].state = "Draft"
        /\ \A i \in DOMAIN tickets : tickets'[i] = tickets[i]
    BY <1>5, CreateWrites
  <2>2. ASSUME NEW i \in DOMAIN tickets', tickets'[i].state \in {"Verified", "Completed"}
        PROVE  Earned(i)
    <3>1. i \in DOMAIN tickets
      BY <2>1, <2>2
    <3> QED BY <1>1, <2>1, <2>2, <3>1
  <2> QED BY <2>2 DEF AcceptanceIsEarned, Earned
<1>6. ASSUME NEW t \in DOMAIN tickets, AdmitTicket(t)
      PROVE  AcceptanceIsEarned'
  <2>1. TicketBecomes(t, "Admitted")
    BY <1>6, TicketUpdate DEF AdmitTicket, TicketStates
  <2> QED BY <1>2, <2>1
<1>7. ASSUME NEW t \in DOMAIN tickets, NEW a \in DOMAIN actors,
             NEW v \in DOMAIN reviews \cup {0}, RegisterWorkItem(t, a, v)
      PROVE  AcceptanceIsEarned'
  BY <1>2, <1>7, RegisterWrites
<1>8. ASSUME NEW w \in DOMAIN works, ClaimWorkItem(w)
      PROVE  AcceptanceIsEarned'
  <2>1. TicketBecomes(works[w].ticket, "Claimed")
    BY <1>8, ClaimWrites
  <2> QED BY <1>2, <2>1
<1>9. ASSUME NEW l \in DOMAIN leases, ExpireWorkLease(l)
      PROVE  AcceptanceIsEarned'
  BY <1>2, <1>9, ExpireWrites
<1>10. ASSUME NEW a \in DOMAIN attempts, NEW kind \in AttemptStates,
              AttestActorAttemptTerminal(a, kind)
       PROVE  AcceptanceIsEarned'
  <2>1. /\ TicketBecomes(attempts[a].ticket, TicketAfter(kind))
        /\ TicketAfter(kind) \notin {"Verified", "Completed"}
    BY <1>10, AttestWrites
  <2> QED BY <1>2, <2>1
<1>11. ASSUME NEW a \in DOMAIN attempts, ValidateTicketAttempt(a)
       PROVE  AcceptanceIsEarned'
  <2>1. /\ AttemptBecomes(a, "Validated") /\ TicketBecomes(attempts[a].ticket, "Verified")
        /\ tickets'[attempts[a].ticket].satisfied
    BY <1>11, ValidateWrites
  <2>2. /\ a \in DOMAIN attempts' /\ attempts'[a].ticket = attempts[a].ticket
        /\ attempts'[a].state = "Validated"
    BY <2>1 DEF AttemptBecomes
  <2> QED BY <1>3, <2>1, <2>2
<1>12. ASSUME NEW a \in DOMAIN attempts, RetryActorAttempt(a)
       PROVE  AcceptanceIsEarned'
  BY <1>2, <1>12, RetryWrites
<1>13. ASSUME NEW a \in DOMAIN attempts, CompleteTicket(a)
       PROVE  AcceptanceIsEarned'
  <2>1. /\ TicketBecomes(attempts[a].ticket, "Completed") /\ UNCHANGED attempts
        /\ attempts[a].state = "Validated" /\ tickets[attempts[a].ticket].satisfied
        /\ attempts[a].ticket \in DOMAIN tickets
    BY <1>13, CompleteWrites DEF CompleteTicket, Sound, ForeignKeys
  <2>2. tickets'[attempts[a].ticket].satisfied
    BY <2>1 DEF TicketBecomes
  <2> QED BY <1>3, <2>1, <2>2
<1>14. ASSUME NEW a \in DOMAIN attempts,
              \/ CancelActorAttempt(a) \/ ReconcileAttemptBudget(a)
              \/ AdmitAttemptChild(a) \/ LoseAttemptChild(a)
              \/ SettleActorTaskAttemptAfterRecovery(a)
       PROVE  AcceptanceIsEarned'
  BY <1>4, <1>14 DEF CancelActorAttempt, ReconcileAttemptBudget, AdmitAttemptChild,
     LoseAttemptChild, SettleActorTaskAttemptAfterRecovery
<1>15. ASSUME NEW w \in DOMAIN works, NEW l \in DOMAIN leases, StartActorAttempt(w, l)
       PROVE  AcceptanceIsEarned'
  BY <1>4, <1>15 DEF StartActorAttempt
<1>16. CASE AdmitActorInstance
  BY <1>4, <1>16 DEF AdmitActorInstance
<1> QED
  BY <1>5, <1>6, <1>7, <1>8, <1>9, <1>10, <1>11, <1>12, <1>13, <1>14, <1>15, <1>16
     DEF WorkStep

\* A ticket is Verified or Completed only on the strength of a validated
\* attempt of its own, in every reachable state.
THEOREM AcceptanceHolds == Spec => []AcceptanceIsEarned
<1>1. Init => AcceptanceIsEarned
  BY DEF Init, AcceptanceIsEarned
<1>2. Sound /\ ExecutionInv /\ AcceptanceIsEarned /\ [Next]_vars => AcceptanceIsEarned'
  <2>1. CASE CycleStep \/ ProjectStep \/ ReviewStep \/ SideStep \/ UNCHANGED vars
    BY <2>1, OtherStepsLeaveWork DEF AcceptanceIsEarned
  <2> QED BY <2>1, AcceptanceStep DEF Next
<1> QED BY <1>1, <1>2, ExecutionHolds, PTL DEF Spec

-----------------------------------------------------------------------------
(* Reviews.                                                                *)

\* Nobody writes a challenge before the reviewer is assigned.
ChallengeFollowsReview ==
    \A c \in DOMAIN challenges :
      reviews[challenges[c].review].state \notin {"Requested", "Assigned"}

\* An item keeps its ticket, its actor and the review it was made for.
LEMMA ItemsKeepPurpose ==
  ASSUME Sound, [Next]_vars
  PROVE  /\ DOMAIN works \subseteq DOMAIN works'
         /\ \A w \in DOMAIN works : /\ works'[w].ticket = works[w].ticket
                                    /\ works'[w].review = works[w].review
<1> DEFINE Kept == /\ DOMAIN works \subseteq DOMAIN works'
                   /\ \A w \in DOMAIN works : /\ works'[w].ticket = works[w].ticket
                                              /\ works'[w].review = works[w].review
<1> SUFFICES Kept
  OBVIOUS
<1>1. CASE CycleStep \/ ProjectStep \/ ReviewStep \/ SideStep \/ UNCHANGED vars
  BY <1>1, OtherStepsLeaveWork
<1>2. ASSUME NEW v, NEW state, WorkBecomes(v, state)
      PROVE  Kept
  BY <1>2 DEF WorkBecomes
<1>3. ASSUME NEW t \in DOMAIN tickets, NEW a \in DOMAIN actors,
             NEW v \in DOMAIN reviews \cup {0}, RegisterWorkItem(t, a, v)
      PROVE  Kept
  BY <1>3, RegisterWrites DEF Appended
<1>4. CASE UNCHANGED works
  BY <1>4
<1> HIDE DEF Kept
<1>5. CASE WorkStep
  <2>1. ASSUME NEW w \in DOMAIN works, ClaimWorkItem(w)
        PROVE  Kept
    <3>1. WorkBecomes(w, "Claimed")
      BY <2>1, ClaimWrites
    <3> QED BY <1>2, <3>1
  <2>2. ASSUME NEW w \in DOMAIN works, NEW l \in DOMAIN leases, StartActorAttempt(w, l)
        PROVE  Kept
    <3>1. WorkBecomes(w, "Running")
      BY <2>2, StartWrites
    <3> QED BY <1>2, <3>1
  <2>3. ASSUME NEW l \in DOMAIN leases, ExpireWorkLease(l)
        PROVE  Kept
    <3>1. WorkBecomes(leases[l].work, "Ready")
      BY <2>3, ExpireWrites
    <3> QED BY <1>2, <3>1
  <2>4. ASSUME NEW a \in DOMAIN attempts, NEW kind \in AttemptStates,
               AttestActorAttemptTerminal(a, kind)
        PROVE  Kept
    <3>1. WorkBecomes(attempts[a].work, "Settled")
      BY <2>4, AttestWrites
    <3> QED BY <1>2, <3>1
  <2>5. ASSUME NEW a \in DOMAIN attempts, RetryActorAttempt(a)
        PROVE  Kept
    <3>1. WorkBecomes(attempts[a].work, "Ready")
      BY <2>5, RetryWrites
    <3> QED BY <1>2, <3>1
  <2> QED
    BY <1>3, <1>4, <1>5, <2>1, <2>2, <2>3, <2>4, <2>5
       DEF WorkStep, AdmitActorInstance, CreateTicket, AdmitTicket, ValidateTicketAttempt,
           CompleteTicket, CancelActorAttempt, ReconcileAttemptBudget, AdmitAttemptChild,
           LoseAttemptChild, SettleActorTaskAttemptAfterRecovery
<1> QED BY <1>1, <1>5 DEF Next

\* The evidence behind an assigned review outlives every step.
LEMMA EvidenceStays ==
  ASSUME Sound, ReviewIsIndependent, [Next]_vars, NEW v \in DOMAIN reviews,
         reviews[v].state # "Requested"
  PROVE  LET a == reviews[v].attempt IN
           /\ attempts'[a].actor = reviews[v].reviewer
           /\ works'[attempts'[a].work].review = v
           /\ attempts'[a].state \in {"Succeeded", "Validated"}
<1> DEFINE a == reviews[v].attempt
<1>1. a \in DOMAIN attempts /\ attempts[a].work \in DOMAIN works
  BY DEF Sound, ForeignKeys
<1>2. /\ attempts[a].actor = reviews[v].reviewer /\ works[attempts[a].work].review = v
      /\ attempts[a].state \in {"Succeeded", "Validated"}
  BY DEF ReviewIsIndependent
<1> HIDE DEF a
<1>3. /\ attempts'[a].actor = reviews[v].reviewer
      /\ attempts'[a].work = attempts[a].work
      /\ attempts'[a].state \in {"Succeeded", "Validated"}
  BY <1>1, <1>2, AttemptsKeepSuccess
<1>4. works'[attempts[a].work].review = v
  BY <1>1, <1>2, ItemsKeepPurpose
<1> QED BY <1>3, <1>4 DEF a

\* No command outside ReviewStep writes a review or a challenge.
LEMMA OtherStepsLeaveReviews ==
  ASSUME CycleStep \/ ProjectStep \/ WorkStep \/ SideStep \/ UNCHANGED vars
  PROVE  UNCHANGED <<reviews, challenges>>
<1>1. CASE CycleStep
  BY <1>1 DEF CycleStep, StopCycle, ResumeCycle, SucceedCycle, reviewTables
<1>2. CASE ProjectStep
  BY <1>2 DEF ProjectStep, CreateProject, CharterProject, CompleteProjectMilestone,
     TransitionProject, ReopenProject, reviewTables
<1>3. CASE WorkStep
  BY <1>3 DEF WorkStep, AdmitActorInstance, CreateTicket, AdmitTicket, RegisterWorkItem,
     ClaimWorkItem, StartActorAttempt, ExpireWorkLease, AttestActorAttemptTerminal,
     ValidateTicketAttempt, RetryActorAttempt, CompleteTicket, CancelActorAttempt,
     ReconcileAttemptBudget, AdmitAttemptChild, LoseAttemptChild,
     SettleActorTaskAttemptAfterRecovery, reviewTables
<1>4. CASE SideStep
  BY <1>4 DEF SideStep, CreateEpisode, TransitionEpisode, ReopenEpisode, TriggerPostmortem,
     RecordPostmortemCausalClaim, ProposePostmortemAction, InvestigatePostmortem,
     ClosePostmortem, RegisterOutcomeObligation, ResolveOutcomeObligation, reviewTables
<1>5. CASE UNCHANGED vars
  BY <1>5 DEF vars, reviewTables
<1> QED BY <1>1, <1>2, <1>3, <1>4, <1>5

\* Where reviews and challenges are untouched the invariant stays.
LEMMA OtherStepsKeepReviews ==
  ASSUME Sound, ReviewIsIndependent, ChallengeFollowsReview, [Next]_vars,
         UNCHANGED <<reviews, challenges>>
  PROVE  ReviewIsIndependent' /\ ChallengeFollowsReview'
<1>1. ChallengeFollowsReview'
  BY DEF ChallengeFollowsReview
<1>2. ReviewIsIndependent'
  BY EvidenceStays DEF ReviewIsIndependent, IsAnswered
<1> QED BY <1>1, <1>2

\* One review row rewritten with another state keeps the other columns.
LEMMA ReviewStateUpdate ==
  ASSUME Sound, NEW v \in DOMAIN reviews, NEW state \in ReviewStates,
         reviews' = [reviews EXCEPT ![v].state = state]
  PROVE  /\ DOMAIN reviews' = DOMAIN reviews /\ reviews'[v].state = state
         /\ \A i \in DOMAIN reviews :
              /\ reviews'[i].reviewer = reviews[i].reviewer
              /\ reviews'[i].attempt = reviews[i].attempt
              /\ reviews'[i].project = reviews[i].project
              /\ i # v => reviews'[i] = reviews[i]
<1> DEFINE row == [reviews[v] EXCEPT !.state = state]
<1>1. reviews \in Seq(ReviewRows) /\ reviews[v] \in ReviewRows
  BY RowAt DEF Sound, TablesTyped, TypeOK
<1>2. /\ row \in ReviewRows /\ reviews' = [reviews EXCEPT ![v] = row]
      /\ row.state = state /\ row.reviewer = reviews[v].reviewer
      /\ row.attempt = reviews[v].attempt /\ row.project = reviews[v].project
  BY <1>1 DEF ReviewRows
<1> HIDE DEF row
<1>3. Rewritten(reviews, [reviews EXCEPT ![v] = row], v, row)
  BY <1>1, <1>2, UpdateRow
<1> QED BY <1>2, <1>3 DEF Rewritten

\* The commands of the review keep it independent and answered.
LEMMA ReviewKeepsReviews ==
  ASSUME Sound, ReviewIsIndependent, ChallengeFollowsReview, ReviewStep
  PROVE  ReviewIsIndependent' /\ ChallengeFollowsReview'
<1>0. /\ UNCHANGED <<works, attempts>> /\ [Next]_vars
      /\ reviews \in Seq(ReviewRows) /\ challenges \in Seq(ChallengeRows)
      /\ \A v \in DOMAIN reviews : reviews[v] \in ReviewRows
      /\ \A c \in DOMAIN challenges : challenges[c] \in ChallengeRows
  BY OtherStepsLeaveWork, RowAt DEF Next, Sound, TablesTyped, TypeOK
<1>1. CASE UNCHANGED <<reviews, challenges>>
  BY <1>0, <1>1, OtherStepsKeepReviews
<1>2. ASSUME NEW r \in DOMAIN revisions, RequestAdversarialReview(r)
      PROVE  ReviewIsIndependent' /\ ChallengeFollowsReview'
  <2> DEFINE new == Len(reviews) + 1
  <2>1. /\ DOMAIN reviews' = DOMAIN reviews \cup {new} /\ new \notin DOMAIN reviews
        /\ \A v \in DOMAIN reviews : reviews'[v] = reviews[v]
        /\ reviews'[new].state = "Requested" /\ UNCHANGED challenges
    BY <1>0, <1>2 DEF RequestAdversarialReview
  <2> HIDE DEF new
  <2>2. \A c \in DOMAIN challenges : challenges[c].review \in DOMAIN reviews
    BY DEF Sound, ForeignKeys
  <2>3. ChallengeFollowsReview'
    BY <2>1, <2>2 DEF ChallengeFollowsReview
  <2>4. ReviewIsIndependent'
    BY <1>0, <2>1, <2>2 DEF ReviewIsIndependent, IsAnswered
  <2> QED BY <2>3, <2>4
<1>3. ASSUME NEW v \in DOMAIN reviews, NEW a \in DOMAIN attempts,
             AssignAdversarialReviewer(v, a)
      PROVE  ReviewIsIndependent' /\ ChallengeFollowsReview'
  <2> DEFINE row == [reviews[v] EXCEPT !.state = "Assigned",
                                       !.reviewer = attempts[a].actor, !.attempt = a]
  <2>1. /\ attempts[a] \in AttemptRows /\ a \in Nat
    BY RowAt DEF Sound, TablesTyped, TypeOK
  <2>2. /\ row \in ReviewRows /\ reviews' = [reviews EXCEPT ![v] = row]
        /\ row.attempt = a /\ row.reviewer = attempts[a].actor /\ row.state = "Assigned"
    BY <1>0, <1>3, <2>1 DEF AssignAdversarialReviewer, ReviewRows, ReviewStates, AttemptRows
  <2> HIDE DEF row
  <2>3. Rewritten(reviews, [reviews EXCEPT ![v] = row], v, row)
    BY <1>0, <2>2, UpdateRow
  <2>4. /\ DOMAIN reviews' = DOMAIN reviews /\ reviews'[v] = row
        /\ \A i \in DOMAIN reviews : i # v => reviews'[i] = reviews[i]
    BY <2>2, <2>3 DEF Rewritten
  <2>5. /\ UNCHANGED challenges /\ reviews[v].state = "Requested"
        /\ works[attempts[a].work].review = v
        /\ attempts[a].state \in {"Succeeded", "Validated"}
    BY <1>3 DEF AssignAdversarialReviewer, ReviewEvidence
  <2>6. \A c \in DOMAIN challenges : challenges[c].review \in DOMAIN reviews
                                     /\ challenges[c].review # v
    BY <2>5 DEF Sound, ForeignKeys, ChallengeFollowsReview
  <2>7. ChallengeFollowsReview'
    BY <2>4, <2>5, <2>6 DEF ChallengeFollowsReview
  <2>8. ReviewIsIndependent'
    BY <1>0, <2>2, <2>4, <2>5, <2>6 DEF ReviewIsIndependent, IsAnswered
  <2> QED BY <2>7, <2>8
<1>4. ASSUME NEW v \in DOMAIN reviews, NEW author \in DOMAIN actors,
             SubmitReviewChallenge(v, author)
      PROVE  ReviewIsIndependent' /\ ChallengeFollowsReview'
  <2>1. /\ DOMAIN reviews' = DOMAIN reviews /\ reviews'[v].state = "ResponsesDue"
        /\ \A i \in DOMAIN reviews :
             /\ reviews'[i].reviewer = reviews[i].reviewer
             /\ reviews'[i].attempt = reviews[i].attempt
             /\ i # v => reviews'[i] = reviews[i]
    BY <1>4, ReviewStateUpdate DEF SubmitReviewChallenge, ReviewStates
  <2> DEFINE new == Len(challenges) + 1
  <2>2. /\ DOMAIN challenges' = DOMAIN challenges \cup {new}
        /\ \A c \in DOMAIN challenges : challenges'[c] = challenges[c]
        /\ challenges'[new].review = v /\ challenges'[new].author = author
    BY <1>0, <1>4 DEF SubmitReviewChallenge
  <2> HIDE DEF new
  <2>3. reviews[v].reviewer = author /\ reviews[v].state \in {"Assigned", "ResponsesDue"}
    BY <1>4 DEF SubmitReviewChallenge
  <2>4. \A c \in DOMAIN challenges : challenges[c].review \in DOMAIN reviews
    BY DEF Sound, ForeignKeys
  <2>5. ChallengeFollowsReview'
    BY <2>1, <2>2, <2>4 DEF ChallengeFollowsReview
  <2>6. ReviewIsIndependent'
    BY <1>0, <2>1, <2>2, <2>3, <2>4 DEF ReviewIsIndependent, IsAnswered
  <2> QED BY <2>5, <2>6
<1>5. ASSUME NEW c \in DOMAIN challenges,
             RespondToReviewChallenge(c) \/ DispositionReviewChallenge(c)
      PROVE  ReviewIsIndependent' /\ ChallengeFollowsReview'
  <2>1. /\ DOMAIN challenges' = DOMAIN challenges /\ UNCHANGED reviews
        /\ \A d \in DOMAIN challenges :
             /\ challenges'[d].review = challenges[d].review
             /\ challenges'[d].author = challenges[d].author
             /\ challenges[d].responded => challenges'[d].responded
             /\ challenges[d].disposed => challenges'[d].disposed
    <3>1. PICK row \in ChallengeRows :
            /\ challenges' = [challenges EXCEPT ![c] = row]
            /\ row.review = challenges[c].review /\ row.author = challenges[c].author
            /\ challenges[c].responded => row.responded
            /\ challenges[c].disposed => row.disposed
      <4>1. CASE RespondToReviewChallenge(c)
        <5> DEFINE new == [challenges[c] EXCEPT !.responded = TRUE]
        <5>1. /\ new \in ChallengeRows /\ challenges' = [challenges EXCEPT ![c] = new]
              /\ new.review = challenges[c].review /\ new.author = challenges[c].author
              /\ new.responded = TRUE /\ new.disposed = challenges[c].disposed
          BY <1>0, <4>1 DEF RespondToReviewChallenge, ChallengeRows
        <5> HIDE DEF new
        <5> QED BY <5>1
      <4>2. CASE DispositionReviewChallenge(c)
        <5> DEFINE new == [challenges[c] EXCEPT !.disposed = TRUE]
        <5>1. /\ new \in ChallengeRows /\ challenges' = [challenges EXCEPT ![c] = new]
              /\ new.review = challenges[c].review /\ new.author = challenges[c].author
              /\ new.responded = challenges[c].responded /\ new.disposed = TRUE
          BY <1>0, <4>2 DEF DispositionReviewChallenge, ChallengeRows
        <5> HIDE DEF new
        <5> QED BY <5>1
      <4> QED BY <1>5, <4>1, <4>2
    <3>2. Rewritten(challenges, [challenges EXCEPT ![c] = row], c, row)
      BY <1>0, UpdateRow
    <3>3. UNCHANGED reviews
      BY <1>5 DEF RespondToReviewChallenge, DispositionReviewChallenge
    <3> QED BY <3>1, <3>2, <3>3 DEF Rewritten
  <2>2. ChallengeFollowsReview'
    BY <2>1 DEF ChallengeFollowsReview
  <2>3. ReviewIsIndependent'
    BY <1>0, <2>1 DEF ReviewIsIndependent, IsAnswered
  <2> QED BY <2>2, <2>3
<1>6. ASSUME NEW v \in DOMAIN reviews, NEW r \in {"Resolved", "AcceptedRisk"},
             ResolveAdversarialReview(v, r)
      PROVE  ReviewIsIndependent' /\ ChallengeFollowsReview'
  <2>1. /\ DOMAIN reviews' = DOMAIN reviews /\ reviews'[v].state = r
        /\ \A i \in DOMAIN reviews :
             /\ reviews'[i].reviewer = reviews[i].reviewer
             /\ reviews'[i].attempt = reviews[i].attempt
             /\ i # v => reviews'[i] = reviews[i]
    BY <1>6, ReviewStateUpdate DEF ResolveAdversarialReview, ReviewStates
  <2>2. /\ UNCHANGED challenges /\ reviews[v].state = "ResponsesDue"
        /\ \A c \in DOMAIN challenges : challenges[c].review = v => IsAnswered(c)
    BY <1>6 DEF ResolveAdversarialReview
  <2>3. ChallengeFollowsReview'
    BY <2>1, <2>2 DEF ChallengeFollowsReview, Sound, ForeignKeys
  <2>4. ReviewIsIndependent'
    BY <1>0, <2>1, <2>2 DEF ReviewIsIndependent, IsAnswered
  <2> QED BY <2>3, <2>4
<1> QED
  BY <1>1, <1>2, <1>3, <1>4, <1>5, <1>6
     DEF ReviewStep, AddGraphObjectRevision, CommitGraphRevision, AddGraphEdge

\* Past Requested, a review names a reviewer whose own succeeded attempt
\* worked on it, its challenges are that reviewer's, and a resolved review has
\* every challenge answered, in every reachable state.
THEOREM ReviewsAreIndependent == Spec => [](ReviewIsIndependent /\ ChallengeFollowsReview)
<1>1. Init => ReviewIsIndependent /\ ChallengeFollowsReview
  BY DEF Init, ReviewIsIndependent, ChallengeFollowsReview
<1>2. Sound /\ (ReviewIsIndependent /\ ChallengeFollowsReview) /\ [Next]_vars
        => (ReviewIsIndependent /\ ChallengeFollowsReview)'
  <2> SUFFICES ASSUME Sound, ReviewIsIndependent, ChallengeFollowsReview, [Next]_vars
               PROVE  ReviewIsIndependent' /\ ChallengeFollowsReview'
    OBVIOUS
  <2>1. CASE ReviewStep
    BY <2>1, ReviewKeepsReviews
  <2>2. CASE CycleStep \/ ProjectStep \/ WorkStep \/ SideStep \/ UNCHANGED vars
    <3>1. UNCHANGED <<reviews, challenges>>
      BY <2>2, OtherStepsLeaveReviews
    <3> QED BY <3>1, OtherStepsKeepReviews
  <2> QED BY <2>1, <2>2 DEF Next
<1> QED BY <1>1, <1>2, TablesAreSound, PTL DEF Spec

-----------------------------------------------------------------------------
(* Closed projects.                                                        *)

\* A project past its charter has a milestone, pending or completed.
CharterHasMilestone ==
    \A p \in DOMAIN projects : projects[p].milestone = "None" =>
      projects[p].state \in {"Proposed", "Challenged"}

\* The parts of ClosedProjectIsSettled that each group of commands could break.
TicketsDone(p) ==
    \A t \in DOMAIN tickets : tickets[t].project = p => tickets[t].state = "Completed"
AccountsDone(p) ==
    \A a \in DOMAIN attempts : tickets[attempts[a].ticket].project = p =>
      attempts[a].reconciled
ReviewsDone(p) ==
    \A v \in DOMAIN reviews : reviews[v].project = p =>
      reviews[v].state \in {"Resolved", "AcceptedRisk"}
FollowUpsDone(p) ==
    /\ \A m \in DOMAIN postmortems :
         postmortems[m].project = p => postmortems[m].state = "Closed"
    /\ \A o \in DOMAIN outcomes :
         outcomes[o].project = p => outcomes[o].state # "Scheduled"

Finished(p) ==
    /\ projects[p].milestone = "Completed"
    /\ TicketsDone(p) /\ AccountsDone(p) /\ ReviewsDone(p) /\ FollowUpsDone(p)

ClosedIsFinished ==
    /\ CharterHasMilestone
    /\ \A p \in DOMAIN projects : projects[p].state = "Closed" => Finished(p)

\* With its tickets completed, a project's items are settled and nothing of
\* it executes.
LEMMA CompletedTicketsAreIdle ==
  ASSUME Sound, ExecutionInv, NEW p, TicketsDone(p)
  PROVE  /\ \A w \in DOMAIN works : tickets[works[w].ticket].project = p =>
              works[w].state = "Settled" /\ ActiveLeases(w) = {}
         /\ \A a \in DOMAIN attempts : tickets[attempts[a].ticket].project = p =>
              attempts[a].state \notin Live
<1>1. \A w \in DOMAIN works : works[w].state \in {"Ready", "Claimed", "Running", "Settled"}
  <2>1. \A w \in DOMAIN works : works[w] \in WorkRows
    BY RowAt DEF Sound, TablesTyped, TypeOK
  <2> QED BY <2>1 DEF WorkRows
<1>2. \A w \in DOMAIN works : tickets[works[w].ticket].project = p =>
          works[w].state = "Settled"
  BY <1>1 DEF Sound, ForeignKeys, ExecutionInv, TicketFollowsWork, TicketsDone
<1>3. \A w \in DOMAIN works : works[w].state = "Settled" => ActiveLeases(w) = {}
  BY DEF ExecutionInv, LeaseFollowsWork, ActiveLeases
<1>4. \A a \in DOMAIN attempts : tickets[attempts[a].ticket].project = p =>
          attempts[a].state \notin Live
  BY <1>2 DEF Sound, ForeignKeys, ExecutionInv, AttemptFollowsWork, HoldsItem
<1> QED BY <1>2, <1>3, <1>4

\* The finished parts make a closed project settled.
LEMMA FinishedIsSettled ==
  ASSUME Sound, ExecutionInv, ClosedIsFinished
  PROVE  ClosedProjectIsSettled
<1>1. ASSUME NEW p \in DOMAIN projects, projects[p].state = "Closed"
      PROVE  /\ Finished(p)
             /\ \A w \in DOMAIN works : tickets[works[w].ticket].project = p =>
                  works[w].state = "Settled" /\ ActiveLeases(w) = {}
             /\ \A a \in DOMAIN attempts : tickets[attempts[a].ticket].project = p =>
                  attempts[a].state \notin Live
  BY <1>1, CompletedTicketsAreIdle DEF ClosedIsFinished, Finished
<1> QED BY <1>1 DEF ClosedProjectIsSettled, Finished, TicketsDone, AccountsDone, ReviewsDone,
           FollowUpsDone

\* Closing asks for all of it, and no other transition closes a project.
LEMMA ProjectKeepsClosed ==
  ASSUME Sound, ClosedIsFinished, ProjectStep
  PROVE  ClosedIsFinished'
<1>0. /\ projects \in Seq(ProjectRows)
      /\ \A p \in DOMAIN projects : projects[p] \in ProjectRows
      /\ UNCHANGED <<tickets, attempts, reviews, postmortems, outcomes>>
  <2>1. UNCHANGED <<workTables, reviewTables, sideTables>>
    BY DEF ProjectStep, CreateProject, CharterProject, CompleteProjectMilestone,
           TransitionProject, ReopenProject
  <2> QED BY <2>1, RowAt DEF workTables, reviewTables, sideTables, Sound, TablesTyped, TypeOK
<1>1. ASSUME NEW p
      PROVE  /\ TicketsDone(p) => TicketsDone(p)'
             /\ AccountsDone(p) => AccountsDone(p)'
             /\ ReviewsDone(p) => ReviewsDone(p)'
             /\ FollowUpsDone(p) => FollowUpsDone(p)'
  BY <1>0 DEF TicketsDone, AccountsDone, ReviewsDone, FollowUpsDone
<1>2. ASSUME NEW p \in DOMAIN projects, NEW row \in ProjectRows,
             projects' = [projects EXCEPT ![p] = row],
             row.milestone = "None" => row.state \in {"Proposed", "Challenged"},
             row.state = "Closed" =>
               /\ row.milestone = "Completed" /\ TicketsDone(p) /\ AccountsDone(p)
               /\ ReviewsDone(p) /\ FollowUpsDone(p)
      PROVE  ClosedIsFinished'
  <2>1. Rewritten(projects, [projects EXCEPT ![p] = row], p, row)
    BY <1>0, UpdateRow
  <2>2. /\ DOMAIN projects' = DOMAIN projects /\ projects'[p] = row
        /\ \A q \in DOMAIN projects : q # p => projects'[q] = projects[q]
    BY <1>2, <2>1 DEF Rewritten
  <2>3. CharterHasMilestone'
    BY <1>2, <2>2 DEF ClosedIsFinished, CharterHasMilestone
  <2>4. ASSUME NEW q \in DOMAIN projects', projects'[q].state = "Closed"
        PROVE  Finished(q)'
    <3>1. CASE q = p
      BY <1>1, <1>2, <2>2, <2>4, <3>1 DEF Finished
    <3>2. CASE q # p
      BY <1>1, <2>2, <2>4, <3>2 DEF ClosedIsFinished, Finished
    <3> QED BY <3>1, <3>2
  <2> QED BY <2>3, <2>4 DEF ClosedIsFinished
<1>3. CASE CreateProject
  <2> DEFINE new == Len(projects) + 1
  <2>1. /\ DOMAIN projects' = DOMAIN projects \cup {new}
        /\ \A q \in DOMAIN projects : projects'[q] = projects[q]
        /\ projects'[new].state = "Proposed"
    BY <1>0, <1>3 DEF CreateProject
  <2> HIDE DEF new
  <2>2. CharterHasMilestone'
    BY <2>1 DEF ClosedIsFinished, CharterHasMilestone
  <2>3. ASSUME NEW q \in DOMAIN projects', projects'[q].state = "Closed"
        PROVE  Finished(q)'
    BY <1>1, <2>1, <2>3 DEF ClosedIsFinished, Finished
  <2> QED BY <2>2, <2>3 DEF ClosedIsFinished
<1>4. ASSUME NEW p \in DOMAIN projects, CharterProject(p)
      PROVE  ClosedIsFinished'
  <2> DEFINE row == [state |-> "Chartered", milestone |-> "Pending"]
  <2>1. /\ row \in ProjectRows /\ projects' = [projects EXCEPT ![p] = row]
        /\ row.milestone = "Pending" /\ row.state = "Chartered"
    BY <1>4 DEF CharterProject, ProjectRows, ProjectStates
  <2> HIDE DEF row
  <2> QED BY <1>2, <2>1
<1>5. ASSUME NEW p \in DOMAIN projects, CompleteProjectMilestone(p)
      PROVE  ClosedIsFinished'
  <2> DEFINE row == [projects[p] EXCEPT !.milestone = "Completed"]
  <2>1. /\ row \in ProjectRows /\ projects' = [projects EXCEPT ![p] = row]
        /\ row.milestone = "Completed" /\ row.state = projects[p].state
    BY <1>0, <1>5 DEF CompleteProjectMilestone, ProjectRows
  <2> HIDE DEF row
  <2>2. row.state # "Closed"
    BY <1>5, <2>1 DEF CompleteProjectMilestone, ClosedIsFinished, Finished
  <2> QED BY <1>2, <2>1, <2>2
<1>6. ASSUME NEW p \in DOMAIN projects, ReopenProject(p)
      PROVE  ClosedIsFinished'
  <2> DEFINE row == [projects[p] EXCEPT !.state = "Reopened"]
  <2>1. /\ row \in ProjectRows /\ projects' = [projects EXCEPT ![p] = row]
        /\ row.milestone = projects[p].milestone /\ row.state = "Reopened"
    BY <1>0, <1>6 DEF ReopenProject, ProjectRows, ProjectStates
  <2> HIDE DEF row
  <2>2. projects[p].milestone # "None"
    BY <1>6 DEF ReopenProject, ClosedIsFinished, CharterHasMilestone
  <2> QED BY <1>2, <2>1, <2>2
<1>7. ASSUME NEW p \in DOMAIN projects, NEW target \in ProjectStates,
             TransitionProject(p, target)
      PROVE  ClosedIsFinished'
  <2> DEFINE row == [projects[p] EXCEPT !.state = target]
  <2>1. /\ row \in ProjectRows /\ projects' = [projects EXCEPT ![p] = row]
        /\ row.milestone = projects[p].milestone /\ row.state = target
    BY <1>0, <1>7 DEF TransitionProject, ProjectRows
  <2>2. projects[p].milestone \in {"None", "Pending", "Completed"}
    BY <1>0 DEF ProjectRows
  <2> HIDE DEF row
  <2>3. projects[p].milestone = "None" => target \in {"Proposed", "Challenged"}
    BY <1>7 DEF TransitionProject, ProjectTransitionAllowed, ClosedIsFinished,
       CharterHasMilestone
  <2>4. ASSUME target = "Closed"
        PROVE  /\ projects[p].milestone # "Pending" /\ TicketsDone(p) /\ AccountsDone(p)
               /\ ReviewsDone(p) /\ FollowUpsDone(p)
    <3>1. ~CloseBlocked(p)
      BY <1>7, <2>4 DEF TransitionProject
    <3> QED BY <3>1 DEF CloseBlocked, TicketsDone, AccountsDone, ReviewsDone, FollowUpsDone
  <2> QED BY <1>2, <2>1, <2>2, <2>3, <2>4
<1> QED BY <1>3, <1>4, <1>5, <1>6, <1>7 DEF ProjectStep

\* A ticket that leaves its state is no ticket of a finished project, unless
\* it is completed.
LEMMA TicketWriteKeepsDone ==
  ASSUME NEW p, NEW u \in DOMAIN tickets, NEW state, TicketBecomes(u, state), TicketsDone(p),
         tickets[u].project # p \/ tickets[u].state # "Completed" \/ state = "Completed"
  PROVE  TicketsDone(p)'
BY DEF TicketBecomes, TicketsDone

\* No command of execution reopens what a finished project has done.
LEMMA WorkKeepsTicketsDone ==
  ASSUME Sound, ExecutionInv, WorkStep, NEW p \in DOMAIN projects,
         projects[p].state = "Closed", TicketsDone(p)
  PROVE  TicketsDone(p)'
<1>0. ForeignKeys /\ TicketFollowsWork /\ LeaseFollowsWork /\ AttemptFollowsWork
  BY DEF Sound, ExecutionInv
<1>1. CASE UNCHANGED tickets
  BY <1>1 DEF TicketsDone
<1>2. ASSUME NEW q \in DOMAIN projects, NEW t \in DOMAIN tickets \cup {0}, CreateTicket(q, t)
      PROVE  TicketsDone(p)'
  <2> DEFINE new == Len(tickets) + 1
  <2>1. /\ DOMAIN tickets' = DOMAIN tickets \cup {new}
        /\ \A i \in DOMAIN tickets : tickets'[i] = tickets[i]
        /\ tickets'[new].project = q /\ q # p
    BY <1>2, CreateWrites DEF CreateTicket, ProjectIsActive
  <2> HIDE DEF new
  <2> QED BY <2>1 DEF TicketsDone
<1>3. ASSUME NEW t \in DOMAIN tickets, AdmitTicket(t)
      PROVE  TicketsDone(p)'
  <2>1. TicketBecomes(t, "Admitted") /\ tickets[t].state # "Completed"
    BY <1>3, TicketUpdate DEF AdmitTicket, TicketStates
  <2> QED BY <2>1, TicketWriteKeepsDone
<1>4. ASSUME NEW t \in DOMAIN tickets, NEW a \in DOMAIN actors,
             NEW v \in DOMAIN reviews \cup {0}, RegisterWorkItem(t, a, v)
      PROVE  TicketsDone(p)'
  <2>1. TicketBecomes(t, "Ready") /\ tickets[t].state # "Completed"
    BY <1>4, RegisterWrites DEF RegisterWorkItem
  <2> QED BY <2>1, TicketWriteKeepsDone
<1>5. ASSUME NEW w \in DOMAIN works, ClaimWorkItem(w)
      PROVE  TicketsDone(p)'
  <2>1. TicketBecomes(works[w].ticket, "Claimed")
    BY <1>5, ClaimWrites
  <2>2. works[w].ticket \in DOMAIN tickets /\ tickets[works[w].ticket].state # "Completed"
    BY <1>0, <1>5 DEF ClaimWorkItem, ForeignKeys
  <2> QED BY <2>1, <2>2, TicketWriteKeepsDone
<1>6. ASSUME NEW l \in DOMAIN leases, ExpireWorkLease(l)
      PROVE  TicketsDone(p)'
  <2>1. TicketBecomes(works[leases[l].work].ticket, "Ready") /\ leases[l].state = "Active"
    BY <1>6, ExpireWrites DEF ExpireWorkLease
  <2>2. /\ works[leases[l].work].ticket \in DOMAIN tickets
        /\ tickets[works[leases[l].work].ticket].state # "Completed"
    BY <1>0, <2>1 DEF ForeignKeys, LeaseFollowsWork, TicketFollowsWork
  <2> QED BY <2>1, <2>2, TicketWriteKeepsDone
<1>7. ASSUME NEW a \in DOMAIN attempts, NEW kind \in AttemptStates,
             AttestActorAttemptTerminal(a, kind)
      PROVE  TicketsDone(p)'
  <2>1. TicketBecomes(attempts[a].ticket, TicketAfter(kind)) /\ attempts[a].state \in Live
    BY <1>7, AttestWrites
  <2>2. /\ attempts[a].ticket \in DOMAIN tickets
        /\ tickets[attempts[a].ticket].state # "Completed"
    BY <1>0, <2>1 DEF ForeignKeys, AttemptFollowsWork, HoldsItem, TicketFollowsWork
  <2> QED BY <2>1, <2>2, TicketWriteKeepsDone
<1>8. ASSUME NEW a \in DOMAIN attempts, ValidateTicketAttempt(a)
      PROVE  TicketsDone(p)'
  <2>1. TicketBecomes(attempts[a].ticket, "Verified")
    BY <1>8, ValidateWrites
  <2>2. /\ attempts[a].ticket \in DOMAIN tickets
        /\ tickets[attempts[a].ticket].state # "Completed"
    BY <1>0, <1>8 DEF ValidateTicketAttempt, ForeignKeys
  <2> QED BY <2>1, <2>2, TicketWriteKeepsDone
<1>9. ASSUME NEW a \in DOMAIN attempts, RetryActorAttempt(a)
      PROVE  TicketsDone(p)'
  <2>1. TicketBecomes(attempts[a].ticket, "Ready")
    BY <1>9, RetryWrites
  <2>2. attempts[a].ticket \in DOMAIN tickets /\ tickets[attempts[a].ticket].project # p
    BY <1>0, <1>9 DEF RetryActorAttempt, ProjectIsActive, ForeignKeys
  <2> QED BY <2>1, <2>2, TicketWriteKeepsDone
<1>10. ASSUME NEW a \in DOMAIN attempts, CompleteTicket(a)
       PROVE  TicketsDone(p)'
  <2>1. TicketBecomes(attempts[a].ticket, "Completed") /\ attempts[a].ticket \in DOMAIN tickets
    BY <1>0, <1>10, CompleteWrites DEF ForeignKeys
  <2> QED BY <2>1, TicketWriteKeepsDone
<1>11. ASSUME NEW a \in DOMAIN attempts,
              \/ CancelActorAttempt(a) \/ ReconcileAttemptBudget(a)
              \/ AdmitAttemptChild(a) \/ LoseAttemptChild(a)
              \/ SettleActorTaskAttemptAfterRecovery(a)
       PROVE  TicketsDone(p)'
  BY <1>1, <1>11 DEF CancelActorAttempt, ReconcileAttemptBudget, AdmitAttemptChild,
     LoseAttemptChild, SettleActorTaskAttemptAfterRecovery
<1>12. ASSUME NEW w \in DOMAIN works, NEW l \in DOMAIN leases, StartActorAttempt(w, l)
       PROVE  TicketsDone(p)'
  BY <1>1, <1>12 DEF StartActorAttempt
<1>13. CASE AdmitActorInstance
  BY <1>1, <1>13 DEF AdmitActorInstance
<1> QED
  BY <1>2, <1>3, <1>4, <1>5, <1>6, <1>7, <1>8, <1>9, <1>10, <1>11, <1>12, <1>13
     DEF WorkStep

\* A ticket never moves to another project.
LEMMA TicketsKeepProject ==
  ASSUME Sound, WorkStep, NEW t \in DOMAIN tickets
  PROVE  tickets'[t].project = tickets[t].project
<1>0. ForeignKeys
  BY DEF Sound
<1>1. ASSUME NEW u, NEW state, TicketBecomes(u, state)
      PROVE  tickets'[t].project = tickets[t].project
  BY <1>1 DEF TicketBecomes
<1>2. CASE UNCHANGED tickets
  BY <1>2
<1>3. ASSUME NEW q \in DOMAIN projects, NEW i \in DOMAIN tickets \cup {0}, CreateTicket(q, i)
      PROVE  tickets'[t].project = tickets[t].project
  BY <1>3, CreateWrites
<1>4. ASSUME NEW i \in DOMAIN tickets, AdmitTicket(i)
      PROVE  tickets'[t].project = tickets[t].project
  <2>1. TicketBecomes(i, "Admitted")
    BY <1>4, TicketUpdate DEF AdmitTicket, TicketStates
  <2> QED BY <1>1, <2>1
<1>5. ASSUME NEW i \in DOMAIN tickets, NEW a \in DOMAIN actors,
             NEW v \in DOMAIN reviews \cup {0}, RegisterWorkItem(i, a, v)
      PROVE  tickets'[t].project = tickets[t].project
  <2>1. TicketBecomes(i, "Ready")
    BY <1>5, RegisterWrites
  <2> QED BY <1>1, <2>1
<1>6. ASSUME NEW w \in DOMAIN works, ClaimWorkItem(w)
      PROVE  tickets'[t].project = tickets[t].project
  <2>1. TicketBecomes(works[w].ticket, "Claimed")
    BY <1>6, ClaimWrites
  <2> QED BY <1>1, <2>1
<1>7. ASSUME NEW l \in DOMAIN leases, ExpireWorkLease(l)
      PROVE  tickets'[t].project = tickets[t].project
  <2>1. TicketBecomes(works[leases[l].work].ticket, "Ready")
    BY <1>7, ExpireWrites
  <2> QED BY <1>1, <2>1
<1>8. ASSUME NEW a \in DOMAIN attempts, NEW kind \in AttemptStates,
             AttestActorAttemptTerminal(a, kind)
      PROVE  tickets'[t].project = tickets[t].project
  <2>1. TicketBecomes(attempts[a].ticket, TicketAfter(kind))
    BY <1>8, AttestWrites
  <2> QED BY <1>1, <2>1
<1>9. ASSUME NEW a \in DOMAIN attempts,
             ValidateTicketAttempt(a) \/ RetryActorAttempt(a) \/ CompleteTicket(a)
      PROVE  tickets'[t].project = tickets[t].project
  <2>1. \E state : TicketBecomes(attempts[a].ticket, state)
    BY <1>9, ValidateWrites, RetryWrites, CompleteWrites
  <2> QED BY <1>1, <2>1
<1>10. ASSUME NEW a \in DOMAIN attempts,
              \/ CancelActorAttempt(a) \/ ReconcileAttemptBudget(a)
              \/ AdmitAttemptChild(a) \/ LoseAttemptChild(a)
              \/ SettleActorTaskAttemptAfterRecovery(a)
       PROVE  tickets'[t].project = tickets[t].project
  BY <1>10 DEF CancelActorAttempt, ReconcileAttemptBudget, AdmitAttemptChild,
     LoseAttemptChild, SettleActorTaskAttemptAfterRecovery
<1>11. ASSUME NEW w \in DOMAIN works, NEW l \in DOMAIN leases, StartActorAttempt(w, l)
       PROVE  tickets'[t].project = tickets[t].project
  BY <1>11 DEF StartActorAttempt
<1>12. CASE AdmitActorInstance
  BY <1>12 DEF AdmitActorInstance
<1> QED
  BY <1>3, <1>4, <1>5, <1>6, <1>7, <1>8, <1>9, <1>10, <1>11, <1>12 DEF WorkStep

\* Accounts of a finished project stay reconciled: an account is settled once
\* and a new attempt needs an active project.
LEMMA WorkKeepsAccountsDone ==
  ASSUME Sound, WorkStep, NEW p \in DOMAIN projects, projects[p].state = "Closed",
         AccountsDone(p)
  PROVE  AccountsDone(p)'
<1>1. [Next]_vars
  BY DEF Next
<1>2. ASSUME NEW a \in DOMAIN attempts', tickets'[attempts'[a].ticket].project = p
      PROVE  attempts'[a].reconciled
  <2>1. CASE a \in DOMAIN attempts
    <3>1. /\ attempts'[a].ticket = attempts[a].ticket /\ attempts[a].ticket \in DOMAIN tickets
          /\ attempts[a].reconciled => attempts'[a].reconciled
      BY <1>1, <2>1, AttemptsKeepSuccess DEF Sound, ForeignKeys
    <3>2. tickets[attempts[a].ticket].project = p
      BY <1>2, <3>1, TicketsKeepProject
    <3> QED BY <2>1, <3>1, <3>2 DEF AccountsDone
  <2>2. CASE a \notin DOMAIN attempts
    <3>1. /\ attempts'[a].ticket \in DOMAIN tickets
          /\ ProjectIsActive(tickets[attempts'[a].ticket].project)
      BY <1>1, <1>2, <2>2, AttemptsKeepSuccess
    <3>2. tickets[attempts'[a].ticket].project = p
      BY <1>2, <3>1, TicketsKeepProject
    <3> QED BY <3>1, <3>2 DEF ProjectIsActive
  <2> QED BY <2>1, <2>2
<1> QED BY <1>2 DEF AccountsDone

\* Reviews of a finished project stay resolved.
LEMMA ReviewKeepsReviewsDone ==
  ASSUME Sound, ReviewStep, NEW p \in DOMAIN projects, projects[p].state = "Closed",
         ReviewsDone(p)
  PROVE  ReviewsDone(p)'
<1>0. reviews \in Seq(ReviewRows) /\ \A v \in DOMAIN reviews : reviews[v] \in ReviewRows
  BY RowAt DEF Sound, TablesTyped, TypeOK
<1>1. CASE UNCHANGED reviews
  BY <1>1 DEF ReviewsDone
<1>2. ASSUME NEW r \in DOMAIN revisions, RequestAdversarialReview(r)
      PROVE  ReviewsDone(p)'
  <2> DEFINE new == Len(reviews) + 1
  <2>1. /\ DOMAIN reviews' = DOMAIN reviews \cup {new}
        /\ \A v \in DOMAIN reviews : reviews'[v] = reviews[v]
        /\ reviews'[new].project = revisions[r].project /\ revisions[r].project # p
    BY <1>0, <1>2 DEF RequestAdversarialReview, ProjectIsActive
  <2> HIDE DEF new
  <2> QED BY <2>1 DEF ReviewsDone
<1>3. ASSUME NEW v \in DOMAIN reviews, NEW a \in DOMAIN attempts,
             AssignAdversarialReviewer(v, a)
      PROVE  ReviewsDone(p)'
  <2> DEFINE row == [reviews[v] EXCEPT !.state = "Assigned",
                                       !.reviewer = attempts[a].actor, !.attempt = a]
  <2>1. attempts[a] \in AttemptRows /\ a \in Nat
    BY RowAt DEF Sound, TablesTyped, TypeOK
  <2>2. /\ row \in ReviewRows /\ reviews' = [reviews EXCEPT ![v] = row]
        /\ row.project = reviews[v].project
    BY <1>0, <1>3, <2>1 DEF AssignAdversarialReviewer, ReviewRows, ReviewStates, AttemptRows
  <2> HIDE DEF row
  <2>3. Rewritten(reviews, [reviews EXCEPT ![v] = row], v, row)
    BY <1>0, <2>2, UpdateRow
  <2>4. reviews[v].project # p
    BY <1>3 DEF AssignAdversarialReviewer, ReviewsDone
  <2> QED BY <2>2, <2>3, <2>4 DEF Rewritten, ReviewsDone
<1>4. ASSUME NEW v \in DOMAIN reviews, NEW author \in DOMAIN actors,
             SubmitReviewChallenge(v, author)
      PROVE  ReviewsDone(p)'
  <2>1. /\ DOMAIN reviews' = DOMAIN reviews
        /\ \A i \in DOMAIN reviews : /\ reviews'[i].project = reviews[i].project
                                     /\ i # v => reviews'[i] = reviews[i]
    BY <1>4, ReviewStateUpdate DEF SubmitReviewChallenge, ReviewStates
  <2>2. reviews[v].project # p
    BY <1>4 DEF SubmitReviewChallenge, ReviewsDone
  <2> QED BY <2>1, <2>2 DEF ReviewsDone
<1>5. ASSUME NEW c \in DOMAIN challenges,
             RespondToReviewChallenge(c) \/ DispositionReviewChallenge(c)
      PROVE  ReviewsDone(p)'
  BY <1>1, <1>5 DEF RespondToReviewChallenge, DispositionReviewChallenge
<1>6. ASSUME NEW v \in DOMAIN reviews, NEW r \in {"Resolved", "AcceptedRisk"},
             ResolveAdversarialReview(v, r)
      PROVE  ReviewsDone(p)'
  <2>1. /\ DOMAIN reviews' = DOMAIN reviews /\ reviews'[v].state = r
        /\ \A i \in DOMAIN reviews : /\ reviews'[i].project = reviews[i].project
                                     /\ i # v => reviews'[i] = reviews[i]
    BY <1>6, ReviewStateUpdate DEF ResolveAdversarialReview, ReviewStates
  <2> QED BY <1>6, <2>1 DEF ReviewsDone
<1> QED
  BY <1>1, <1>2, <1>3, <1>4, <1>5, <1>6
     DEF ReviewStep, AddGraphObjectRevision, CommitGraphRevision, AddGraphEdge

\* Postmortems and outcomes of a finished project stay closed and resolved.
LEMMA SideKeepsFollowUpsDone ==
  ASSUME Sound, SideStep, NEW p \in DOMAIN projects, projects[p].state = "Closed",
         FollowUpsDone(p)
  PROVE  FollowUpsDone(p)'
<1>0. /\ postmortems \in Seq(PostmortemRows) /\ outcomes \in Seq(OutcomeRows)
      /\ \A m \in DOMAIN postmortems : postmortems[m] \in PostmortemRows
      /\ \A o \in DOMAIN outcomes : outcomes[o] \in OutcomeRows
  BY RowAt DEF Sound, TablesTyped, TypeOK
<1>1. CASE UNCHANGED <<postmortems, outcomes>>
  BY <1>1 DEF FollowUpsDone
<1>2. ASSUME NEW q \in DOMAIN projects, TriggerPostmortem(q)
      PROVE  FollowUpsDone(p)'
  <2> DEFINE new == Len(postmortems) + 1
  <2>1. /\ DOMAIN postmortems' = DOMAIN postmortems \cup {new} /\ UNCHANGED outcomes
        /\ \A m \in DOMAIN postmortems : postmortems'[m] = postmortems[m]
        /\ postmortems'[new].project = q /\ q # p
    BY <1>0, <1>2 DEF TriggerPostmortem, ProjectIsActive
  <2> HIDE DEF new
  <2> QED BY <2>1 DEF FollowUpsDone
<1>3. ASSUME NEW q \in DOMAIN projects, RegisterOutcomeObligation(q)
      PROVE  FollowUpsDone(p)'
  <2> DEFINE new == Len(outcomes) + 1
  <2>1. /\ DOMAIN outcomes' = DOMAIN outcomes \cup {new} /\ UNCHANGED postmortems
        /\ \A o \in DOMAIN outcomes : outcomes'[o] = outcomes[o]
        /\ outcomes'[new].project = q /\ q # p
    BY <1>0, <1>3 DEF RegisterOutcomeObligation, ProjectIsActive
  <2> HIDE DEF new
  <2> QED BY <2>1 DEF FollowUpsDone
<1>4. ASSUME NEW m \in DOMAIN postmortems, NEW row \in PostmortemRows, UNCHANGED outcomes,
             postmortems[m].state # "Closed", row.project = postmortems[m].project,
             postmortems' = [postmortems EXCEPT ![m] = row]
      PROVE  FollowUpsDone(p)'
  <2>1. Rewritten(postmortems, [postmortems EXCEPT ![m] = row], m, row)
    BY <1>0, UpdateRow
  <2>2. postmortems[m].project # p
    BY <1>4 DEF FollowUpsDone
  <2> QED BY <1>4, <2>1, <2>2 DEF Rewritten, FollowUpsDone
<1>5. ASSUME NEW m \in DOMAIN postmortems, RecordPostmortemCausalClaim(m)
      PROVE  FollowUpsDone(p)'
  <2> DEFINE row == [postmortems[m] EXCEPT !.claims = TRUE, !.state = "Investigating"]
  <2>1. /\ row \in PostmortemRows /\ postmortems' = [postmortems EXCEPT ![m] = row]
        /\ row.project = postmortems[m].project
    BY <1>0, <1>5 DEF PostmortemRows, RecordPostmortemCausalClaim, InvestigatePostmortem
  <2>2. postmortems[m].state # "Closed" /\ UNCHANGED outcomes
    BY <1>5 DEF RecordPostmortemCausalClaim, InvestigatePostmortem
  <2> HIDE DEF row
  <2> QED BY <1>4, <2>1, <2>2
<1>6. ASSUME NEW m \in DOMAIN postmortems, ProposePostmortemAction(m)
      PROVE  FollowUpsDone(p)'
  <2> DEFINE row == [postmortems[m] EXCEPT !.actions = TRUE, !.state = "Investigating"]
  <2>1. /\ row \in PostmortemRows /\ postmortems' = [postmortems EXCEPT ![m] = row]
        /\ row.project = postmortems[m].project
    BY <1>0, <1>6 DEF PostmortemRows, ProposePostmortemAction, InvestigatePostmortem
  <2>2. postmortems[m].state # "Closed" /\ UNCHANGED outcomes
    BY <1>6 DEF ProposePostmortemAction, InvestigatePostmortem
  <2> HIDE DEF row
  <2> QED BY <1>4, <2>1, <2>2
<1>7. ASSUME NEW m \in DOMAIN postmortems, ClosePostmortem(m)
      PROVE  FollowUpsDone(p)'
  <2> DEFINE row == [postmortems[m] EXCEPT !.state = "Closed"]
  <2>1. /\ row \in PostmortemRows /\ postmortems' = [postmortems EXCEPT ![m] = row]
        /\ row.project = postmortems[m].project
    BY <1>0, <1>7 DEF PostmortemRows, ClosePostmortem
  <2>2. postmortems[m].state # "Closed" /\ UNCHANGED outcomes
    BY <1>7 DEF ClosePostmortem
  <2> HIDE DEF row
  <2> QED BY <1>4, <2>1, <2>2
<1>8. ASSUME NEW o \in DOMAIN outcomes, NEW d \in {"Satisfied", "Waived"},
             ResolveOutcomeObligation(o, d)
      PROVE  FollowUpsDone(p)'
  <2> DEFINE row == [outcomes[o] EXCEPT !.state = d]
  <2>1. /\ row \in OutcomeRows /\ outcomes' = [outcomes EXCEPT ![o] = row]
        /\ row.state # "Scheduled"
    BY <1>0, <1>8 DEF OutcomeRows, ResolveOutcomeObligation
  <2> HIDE DEF row
  <2>2. Rewritten(outcomes, [outcomes EXCEPT ![o] = row], o, row)
    BY <1>0, <2>1, UpdateRow
  <2>3. UNCHANGED postmortems
    BY <1>8 DEF ResolveOutcomeObligation
  <2> QED BY <2>1, <2>2, <2>3 DEF Rewritten, FollowUpsDone
<1>9. ASSUME NEW q \in DOMAIN projects, CreateEpisode(q)
      PROVE  FollowUpsDone(p)'
  BY <1>1, <1>9 DEF CreateEpisode
<1>10. ASSUME NEW e \in DOMAIN episodes, NEW target \in EpisodeStates,
              ReopenEpisode(e) \/ TransitionEpisode(e, target)
       PROVE  FollowUpsDone(p)'
  BY <1>1, <1>10 DEF ReopenEpisode, TransitionEpisode
<1>11. "Closed" \in EpisodeStates
  BY DEF EpisodeStates
<1> QED BY <1>2, <1>3, <1>5, <1>6, <1>7, <1>8, <1>9, <1>10, <1>11 DEF SideStep

\* Only the project's own commands write projects, and only the side tables'
\* own commands write Postmortems and outcomes.
LEMMA OtherStepsLeaveProjects ==
  ASSUME CycleStep \/ WorkStep \/ ReviewStep \/ SideStep \/ UNCHANGED vars
  PROVE  /\ UNCHANGED projects
         /\ SideStep \/ UNCHANGED <<postmortems, outcomes>>
<1>1. CASE CycleStep
  BY <1>1 DEF CycleStep, StopCycle, ResumeCycle, SucceedCycle, sideTables
<1>2. CASE WorkStep
  <2>1. UNCHANGED <<projects, sideTables>>
    BY <1>2 DEF WorkStep, CreateTicket, AdmitTicket, AdmitActorInstance, RegisterWorkItem,
       ClaimWorkItem, ExpireWorkLease, StartActorAttempt, AttestActorAttemptTerminal,
       CancelActorAttempt, ReconcileAttemptBudget, AdmitAttemptChild, LoseAttemptChild,
       SettleActorTaskAttemptAfterRecovery, ValidateTicketAttempt, RetryActorAttempt,
       CompleteTicket
  <2> QED BY <2>1 DEF sideTables
<1>3. CASE ReviewStep
  BY <1>3 DEF ReviewStep, AddGraphObjectRevision, CommitGraphRevision, AddGraphEdge,
     RequestAdversarialReview, AssignAdversarialReviewer, SubmitReviewChallenge,
     RespondToReviewChallenge, DispositionReviewChallenge, ResolveAdversarialReview,
     sideTables
<1>4. CASE SideStep
  BY <1>4 DEF SideStep, CreateEpisode, TransitionEpisode, ReopenEpisode, TriggerPostmortem,
     RecordPostmortemCausalClaim, ProposePostmortemAction, InvestigatePostmortem,
     ClosePostmortem, RegisterOutcomeObligation, ResolveOutcomeObligation
<1>5. CASE UNCHANGED vars
  BY <1>5 DEF vars, sideTables
<1> QED BY <1>1, <1>2, <1>3, <1>4, <1>5

\* A closed project stays finished under every command that is not its own.
LEMMA OtherStepsKeepClosed ==
  ASSUME Sound, ExecutionInv, ClosedIsFinished,
         CycleStep \/ WorkStep \/ ReviewStep \/ SideStep \/ UNCHANGED vars
  PROVE  ClosedIsFinished'
<1>1. UNCHANGED projects /\ (SideStep \/ UNCHANGED <<postmortems, outcomes>>)
  BY OtherStepsLeaveProjects
<1>2. WorkStep \/ UNCHANGED <<tickets, attempts>>
  BY OtherStepsLeaveWork
<1>3. ReviewStep \/ UNCHANGED reviews
  BY OtherStepsLeaveReviews
<1>4. ASSUME NEW p \in DOMAIN projects, projects[p].state = "Closed", Finished(p)
      PROVE  Finished(p)'
  <2>1. TicketsDone(p)'
    <3>1. CASE UNCHANGED <<tickets, attempts>>
      BY <1>4, <3>1 DEF Finished, TicketsDone
    <3> QED BY <1>2, <1>4, <3>1, WorkKeepsTicketsDone DEF Finished
  <2>2. AccountsDone(p)'
    <3>1. CASE UNCHANGED <<tickets, attempts>>
      BY <1>4, <3>1 DEF Finished, AccountsDone
    <3> QED BY <1>2, <1>4, <3>1, WorkKeepsAccountsDone DEF Finished
  <2>3. ReviewsDone(p)'
    <3>1. CASE UNCHANGED reviews
      BY <1>4, <3>1 DEF Finished, ReviewsDone
    <3> QED BY <1>3, <1>4, <3>1, ReviewKeepsReviewsDone DEF Finished
  <2>4. FollowUpsDone(p)'
    <3>1. CASE UNCHANGED <<postmortems, outcomes>>
      BY <1>4, <3>1 DEF Finished, FollowUpsDone
    <3> QED BY <1>1, <1>4, <3>1, SideKeepsFollowUpsDone DEF Finished
  <2> QED BY <1>1, <1>4, <2>1, <2>2, <2>3, <2>4 DEF Finished
<1>5. CharterHasMilestone'
  BY <1>1 DEF ClosedIsFinished, CharterHasMilestone
<1> QED BY <1>1, <1>4, <1>5 DEF ClosedIsFinished

\* For every number of rows and every interleaving of commands, nothing of a
\* closed project is left open: no command of another table reopens, leases or
\* charges anything under a project that transition_project has closed.
THEOREM ClosedProjectsAreSettled == Spec => []ClosedProjectIsSettled
<1>1. Init => ClosedIsFinished
  BY DEF Init, ClosedIsFinished, CharterHasMilestone
<1>2. Sound /\ ExecutionInv /\ ClosedIsFinished /\ [Next]_vars => ClosedIsFinished'
  BY ProjectKeepsClosed, OtherStepsKeepClosed DEF Next
<1>3. Sound /\ ExecutionInv /\ ClosedIsFinished => ClosedProjectIsSettled
  BY FinishedIsSettled
<1> QED BY <1>1, <1>2, <1>3, ExecutionHolds, PTL DEF Spec

=============================================================================
