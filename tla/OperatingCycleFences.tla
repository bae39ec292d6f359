------------------------ MODULE OperatingCycleFences ------------------------
(***************************************************************************)
(* The fences of OperatingCycle, proved for every set of cycles,           *)
(* reservations, requests and children.                                    *)
(*                                                                         *)
(* FenceInv is inductive on top of MoneyInv. Each step is quiet (it moves  *)
(* no cycle and revives nothing), a freeze, a new reservation of a Running *)
(* cycle, or one move of one cycle; each of the four has a lemma, and each *)
(* action supplies its premises.                                           *)
(***************************************************************************)
EXTENDS OperatingCycleMoney

-----------------------------------------------------------------------------
(* The effects on the fences.                                              *)

\* A step that moves no cycle, revives no reservation, request, session or
\* work of a closed cycle and admits nothing keeps the fences.
LEMMA QuietKeeps ==
  ASSUME MoneyInv, FenceInv, UNCHANGED cycle,
         \A r \in Reservations :
            /\ reservation'[r].cycle = reservation[r].cycle
            /\ reservation'[r].state \in {reservation[r].state, "Reconciled"},
         \A q \in Requests :
            /\ cancellation'[q].cycle = cancellation[q].cycle
            /\ IsActive(q)' <=> IsActive(q),
         \A c \in Cycles :
            /\ HasLiveSession(c)' => HasLiveSession(c)
            /\ session'[c].prompt \in {session[c].prompt, NoGeneration}
            /\ cycle[c].state = "Closed" /\ work[c] = "None" => work'[c] = "None",
         \A k \in Children :
            /\ child'[k].cycle = child[k].cycle
            /\ child'[k].generation = child[k].generation
  PROVE  FenceInv'
<1>1. \A c \in Cycles : cycle[c].generation \in Nat /\ session[c].prompt \in Nat \cup {NoGeneration}
  BY DEF MoneyInv, TypeOK, CycleRows, SessionRows
<1>2. AtMostOneOpenCycle'
  BY DEF FenceInv, AtMostOneOpenCycle, IsNonterminal
<1>3. FrozenFenced'
  BY DEF FenceInv, FrozenFenced
<1>4. DutyFenced'
  BY DEF FenceInv, DutyFenced
<1>5. NothingLeft'
  BY DEF FenceInv, NothingLeft
<1>6. GenerationsFenced'
  BY <1>1 DEF FenceInv, GenerationsFenced, NoGeneration
<1> QED BY <1>2, <1>3, <1>4, <1>5, <1>6 DEF FenceInv

\* The columns of a cycle, a session and a child that the fences read have
\* their types.
LEMMA FenceTypes ==
  ASSUME MoneyInv
  PROVE  /\ \A c \in Cycles : /\ cycle[c].generation \in Nat
                              /\ session[c].prompt \in Nat \cup {NoGeneration}
         /\ \A k \in Children : /\ child[k].generation \in Nat
                                /\ child[k].cycle \in Cycles \cup {None}
         /\ \A q \in Requests : IsActive(q) => cancellation[q].cycle \in Cycles
  BY DEF MoneyInv, TypeOK, RowsLinked, CycleRows, SessionRows, ChildRows, IsActive

\* A cycle whose generation advances while it becomes state, with its duties
\* and everything else as required of state, keeps the generation fence.
LEMMA AdvanceFencesGenerations ==
  ASSUME MoneyInv, FenceInv, NEW c \in Cycles,
         \A d \in Cycles : d # c => cycle'[d] = cycle[d],
         cycle'[c].generation = cycle[c].generation + 1, cycle'[c].state # "None",
         \A d \in Cycles : session'[d].prompt = session[d].prompt,
         \A k \in Children : /\ child'[k].cycle = child[k].cycle
                             /\ child'[k].generation = child[k].generation
  PROVE  GenerationsFenced'
  BY FenceTypes DEF FenceInv, GenerationsFenced, NoGeneration

\* A cycle that is not Running and keeps its generation keeps the generation
\* fence, whatever state it enters: nothing was admitted at its generation.
LEMMA IdleFencesGenerations ==
  ASSUME MoneyInv, FenceInv, NEW c \in Cycles, cycle[c].state # "Running",
         \A d \in Cycles : d # c => cycle'[d] = cycle[d],
         cycle'[c].generation = cycle[c].generation, cycle'[c].state # "None",
         \A d \in Cycles : session'[d].prompt \in {session[d].prompt, NoGeneration},
         \A k \in Children : /\ child'[k].cycle = child[k].cycle
                             /\ child'[k].generation = child[k].generation
  PROVE  GenerationsFenced'
  BY FenceTypes DEF FenceInv, GenerationsFenced, NoGeneration

\* A new duty of a cycle without one, whose cycle quiesces or is cancelled in
\* the same step, keeps the duties fenced.
LEMMA NewDutyFenced ==
  ASSUME MoneyInv, FenceInv, NEW q \in Requests, NEW c \in Cycles,
         InsertCancellation(q, c), ActiveCancellations(c) = {},
         \A d \in Cycles : d # c => cycle'[d] = cycle[d],
         cycle'[c].state \in {"Quiescing", "Cancelling"}
  PROVE  DutyFenced'
<1>1. /\ \A p \in Requests : p # q => cancellation'[p] = cancellation[p]
      /\ cancellation'[q].cycle = c /\ IsActive(q)' /\ ~IsActive(q)
  BY InsertCancellationEffect DEF InsertCancellation, IsActive
<1>2. \A p \in Requests : IsActive(p) => cancellation[p].cycle \in Cycles \ {c}
  BY FenceTypes DEF ActiveCancellations, IsActive
<1>3. \A p \in Requests : p # q => (IsActive(p)' <=> IsActive(p))
  BY <1>1 DEF IsActive
<1>4. \A p \in Requests :
         IsActive(p)' => cycle'[cancellation'[p].cycle].state \in {"Quiescing", "Cancelling"}
  BY <1>1, <1>2, <1>3 DEF FenceInv, DutyFenced
<1>5. \A o, p \in Requests :
         IsActive(o)' /\ IsActive(p)' /\ cancellation'[o].cycle = cancellation'[p].cycle => o = p
  BY <1>1, <1>2, <1>3 DEF FenceInv, DutyFenced
<1>6. \A d \in Cycles :
         cycle'[d].state = "Cancelling" =>
             \E p \in Requests : IsActive(p)' /\ cancellation'[p].cycle = d
  <2> SUFFICES ASSUME NEW d \in Cycles, cycle'[d].state = "Cancelling"
               PROVE  \E p \in Requests : IsActive(p)' /\ cancellation'[p].cycle = d
    OBVIOUS
  <2>1. CASE d = c
    BY <1>1, <2>1
  <2>2. CASE d # c
    <3>1. PICK p \in Requests : IsActive(p) /\ cancellation[p].cycle = d
      BY <2>2 DEF FenceInv, DutyFenced
    <3> QED BY <1>1, <1>3, <3>1
  <2> QED BY <2>1, <2>2
<1> QED BY <1>4, <1>5, <1>6 DEF DutyFenced

\* A freeze keeps the fences: the reservation's cycle is open, it becomes
\* Cancelling, and it has a duty.
LEMMA FreezeFences ==
  ASSUME MoneyInv, FenceInv, NEW r \in Reservations, reservation[r].state = "Reserved",
         NEW cause, NEW observed, Freeze(r, cause, observed),
         \A d \in Cycles : /\ HasLiveSession(d)' => HasLiveSession(d)
                           /\ session'[d].prompt = session[d].prompt,
         UNCHANGED <<work, child>>
  PROVE  FenceInv'
<1> DEFINE c == reservation[r].cycle
<1>1. TypeOK /\ c \in Cycles /\ cycle[c].state \notin {"None", "Closed"}
  BY DEF MoneyInv, RowsLinked, FenceInv, NothingLeft
<1>2. /\ \A d \in Cycles : d # c => cycle'[d] = cycle[d]
      /\ cycle'[c].state = "Cancelling"
      /\ cycle'[c].generation = cycle[c].generation + 1
  <2>1. cycle[c].generation + 1 \in Nat /\ "Cancelling" \in CycleStates \ {"None"}
    BY <1>1, FenceTypes DEF CycleStates
  <2>2. TransitionCycle(c, "Cancelling", cycle[c].generation + 1)
    BY DEF Freeze
  <2> QED BY <1>1, <2>1, <2>2, TransitionEffect
<1>3. \A x \in Reservations :
        /\ reservation'[x].cycle = reservation[x].cycle
        /\ reservation'[x].state = IF x = r THEN "Frozen" ELSE reservation[x].state
  BY <1>1 DEF Freeze, TypeOK, ReservationRows
<1>4. AtMostOneOpenCycle'
  <2>1. \A d \in Cycles : IsNonterminal(d)' <=> IsNonterminal(d)
    BY <1>1, <1>2 DEF IsNonterminal
  <2> QED BY <2>1 DEF FenceInv, AtMostOneOpenCycle
<1>5. FrozenFenced'
  <2> SUFFICES ASSUME NEW x \in Reservations, reservation'[x].state = "Frozen"
               PROVE  cycle'[reservation'[x].cycle].state
                         \in {"Quiescing", "Cancelling", "Drained", "Reconciling"}
    BY DEF FrozenFenced
  <2>1. CASE reservation[x].cycle = c
    BY <1>2, <1>3, <2>1
  <2>2. CASE reservation[x].cycle # c
    <3>1. reservation[x].state = "Frozen" /\ reservation[x].cycle \in Cycles
      BY <1>3, <2>2 DEF MoneyInv, RowsLinked
    <3> QED BY <1>2, <1>3, <2>2, <3>1 DEF FenceInv, FrozenFenced
  <2> QED BY <2>1, <2>2
<1>6. NothingLeft'
  <2> SUFFICES ASSUME NEW d \in Cycles, cycle'[d].state = "Closed"
               PROVE  /\ \A x \in Reservations :
                            reservation'[x].cycle = d =>
                               reservation'[x].state \notin {"Reserved", "Frozen"}
                      /\ ~HasLiveSession(d)'
                      /\ work'[d] = "None"
    BY DEF NothingLeft
  <2>1. d # c /\ cycle[d].state = "Closed"
    BY <1>2
  <2> QED BY <1>3, <2>1 DEF FenceInv, NothingLeft
<1>7. GenerationsFenced'
  BY <1>1, <1>2, AdvanceFencesGenerations
<1>8. CASE ActiveCancellations(c) # {}
  <2>1. cancellation' = cancellation /\ \E q \in Requests : IsActive(q) /\ cancellation[q].cycle = c
    BY <1>8 DEF Freeze, ActiveCancellations, IsActive
  <2>2. \A q \in Requests :
           IsActive(q)' => cycle'[cancellation'[q].cycle].state \in {"Quiescing", "Cancelling"}
    BY <1>1, <1>2, <2>1, FenceTypes DEF FenceInv, DutyFenced, IsActive
  <2>3. DutyFenced'
    BY <1>1, <1>2, <2>1, <2>2 DEF FenceInv, DutyFenced, IsActive
  <2> QED BY <1>4, <1>5, <1>6, <1>7, <2>3 DEF FenceInv
<1>9. CASE ActiveCancellations(c) = {}
  <2>1. PICK q \in Requests : InsertCancellation(q, c)
    BY <1>9 DEF Freeze
  <2>2. DutyFenced'
    BY <1>1, <1>2, <1>9, <2>1, NewDutyFenced
  <2> QED BY <1>4, <1>5, <1>6, <1>7, <2>2 DEF FenceInv
<1> QED BY <1>8, <1>9

\* A new reservation of a Running cycle keeps the fences.
LEMMA InsertReservationFences ==
  ASSUME MoneyInv, FenceInv, NEW r \in Reservations, NEW c \in Cycles, NEW amount \in Nat,
         cycle[c].state = "Running", InsertReservation(r, c, amount),
         UNCHANGED <<cycle, cancellation, session, child>>,
         \A d \in Cycles : d # c => work'[d] = work[d]
  PROVE  FenceInv'
<1>1. \A x \in Reservations :
        /\ x # r => reservation'[x] = reservation[x]
        /\ x = r => reservation'[x].state = "Reserved" /\ reservation'[x].cycle = c
  BY DEF InsertReservation, MoneyInv, TypeOK
<1>2. AtMostOneOpenCycle' /\ DutyFenced' /\ GenerationsFenced'
  BY DEF FenceInv, AtMostOneOpenCycle, IsNonterminal, DutyFenced, IsActive, GenerationsFenced
<1>3. FrozenFenced' /\ NothingLeft'
  BY <1>1 DEF FenceInv, FrozenFenced, NothingLeft, HasLiveSession
<1> QED BY <1>2, <1>3 DEF FenceInv

-----------------------------------------------------------------------------
(* Every step keeps FenceInv.                                              *)

\* A cycle may move from an open state to state when its frozen reservations,
\* its duties and, for Closed, its outstanding work allow it.
LEMMA MoveFences ==
  ASSUME MoneyInv, FenceInv, NEW c \in Cycles, IsNonterminal(c),
         \A d \in Cycles : d # c => cycle'[d] = cycle[d],
         UNCHANGED <<reservation, cancellation, work>>,
         \A d \in Cycles : d # c => session'[d] = session[d],
         \A r \in Reservations :
             reservation[r].state = "Frozen" /\ reservation[r].cycle = c =>
                 cycle'[c].state \in {"Quiescing", "Cancelling", "Drained", "Reconciling"},
         \A q \in Requests :
             IsActive(q) /\ cancellation[q].cycle = c =>
                 cycle'[c].state \in {"Quiescing", "Cancelling"},
         cycle'[c].state = "Cancelling" =>
             \E q \in Requests : IsActive(q) /\ cancellation[q].cycle = c,
         cycle'[c].state = "Closed" =>
             /\ UnreconciledReservations(c) = {}
             /\ ~HasLiveSession(c)' /\ work[c] = "None",
         GenerationsFenced'
  PROVE  FenceInv'
<1>1. AtMostOneOpenCycle'
  <2>1. \A d \in Cycles : IsNonterminal(d)' => IsNonterminal(d)
    BY DEF IsNonterminal
  <2> QED BY <2>1 DEF FenceInv, AtMostOneOpenCycle
<1>2. FrozenFenced'
  <2>1. \A r \in Reservations : reservation[r].state = "Frozen" => reservation[r].cycle \in Cycles
    BY DEF MoneyInv, RowsLinked
  <2> QED BY <2>1 DEF FenceInv, FrozenFenced
<1>3. DutyFenced'
  <2>1. \A q \in Requests : IsActive(q)' <=> IsActive(q)
    BY DEF IsActive
  <2>2. \A q \in Requests :
           IsActive(q) => cycle'[cancellation[q].cycle].state \in {"Quiescing", "Cancelling"}
    BY FenceTypes DEF FenceInv, DutyFenced
  <2>3. \A d \in Cycles :
           cycle'[d].state = "Cancelling" =>
               \E q \in Requests : IsActive(q) /\ cancellation[q].cycle = d
    BY DEF FenceInv, DutyFenced
  <2> QED BY <2>1, <2>2, <2>3 DEF FenceInv, DutyFenced
<1>4. NothingLeft'
  <2> SUFFICES ASSUME NEW d \in Cycles, cycle'[d].state = "Closed"
               PROVE  /\ \A x \in Reservations :
                            reservation'[x].cycle = d =>
                               reservation'[x].state \notin {"Reserved", "Frozen"}
                      /\ ~HasLiveSession(d)'
                      /\ work'[d] = "None"
    BY DEF NothingLeft
  <2>1. CASE d = c
    BY <2>1 DEF UnreconciledReservations
  <2>2. CASE d # c
    BY <2>2 DEF FenceInv, NothingLeft, HasLiveSession
  <2> QED BY <2>1, <2>2
<1> QED BY <1>1, <1>2, <1>3, <1>4 DEF FenceInv

\* No active duty and no frozen reservation in terms of the fences.
LEMMA NoDuty ==
  ASSUME NEW c \in Cycles, ActiveCancellations(c) = {}
  PROVE  \A q \in Requests : ~(IsActive(q) /\ cancellation[q].cycle = c)
  BY DEF ActiveCancellations, IsActive

\* In these states a cycle has neither a duty nor a frozen reservation.
LEMMA Unfenced ==
  ASSUME FenceInv, NEW c \in Cycles, cycle[c].state \in {"Proposed", "Admitted", "Running"}
  PROVE  /\ \A q \in Requests : ~(IsActive(q) /\ cancellation[q].cycle = c)
         /\ \A r \in Reservations : ~(reservation[r].state = "Frozen" /\ reservation[r].cycle = c)
  BY DEF FenceInv, DutyFenced, FrozenFenced

\* Each lifecycle command keeps the fences.
LEMMA CycleFences ==
  ASSUME MoneyInv, FenceInv, NEW c \in Cycles, NextCycle(c)
  PROVE  FenceInv'
<1>1. TypeOK /\ cycle[c].generation \in Nat /\ cycle[c].generation + 1 \in Nat
  BY FenceTypes DEF MoneyInv
<1>2. ASSUME NEW treatment \in Treatments, NEW ceiling \in Ceilings,
             ProposeOperatingCycle(c, treatment, ceiling)
      PROVE  FenceInv'
  <2>1. /\ cycle[c].state = "None" /\ \A d \in Cycles : ~IsNonterminal(d)
        /\ UNCHANGED <<reservation, cancellation, session, work, child>>
    BY <1>2 DEF ProposeOperatingCycle
  <2>2. /\ \A d \in Cycles : d # c => cycle'[d] = cycle[d]
        /\ cycle'[c].state = "Proposed" /\ cycle'[c].generation = 0
    BY <1>1, <1>2 DEF ProposeOperatingCycle, NoCycle, TypeOK
  <2>3. AtMostOneOpenCycle'
    BY <2>1, <2>2 DEF AtMostOneOpenCycle, IsNonterminal
  <2>4. \A r \in Reservations : reservation[r].state # "None" => reservation[r].cycle \in Cycles \ {c}
    BY <2>1 DEF MoneyInv, RowsLinked
  <2>5. FrozenFenced' /\ NothingLeft'
    BY <2>1, <2>2, <2>4 DEF FenceInv, FrozenFenced, NothingLeft, HasLiveSession
  <2>6. \A q \in Requests : IsActive(q) => cancellation[q].cycle \in Cycles \ {c}
    BY <2>1, FenceTypes DEF FenceInv, DutyFenced
  <2>7. DutyFenced'
    <3>1. \A q \in Requests : IsActive(q)' <=> IsActive(q)
      BY <2>1 DEF IsActive
    <3>2. \A q \in Requests :
             IsActive(q) => cycle'[cancellation[q].cycle].state \in {"Quiescing", "Cancelling"}
      BY <2>2, <2>6 DEF FenceInv, DutyFenced
    <3>3. \A d \in Cycles :
             cycle'[d].state = "Cancelling" =>
                 \E q \in Requests : IsActive(q) /\ cancellation[q].cycle = d
      BY <2>2 DEF FenceInv, DutyFenced
    <3> QED BY <2>1, <3>1, <3>2, <3>3 DEF FenceInv, DutyFenced
  <2>8. GenerationsFenced'
    <3>1. cycle[c].generation = 0
      BY <2>1 DEF FenceInv, GenerationsFenced
    <3> QED BY <2>1, <2>2, <3>1, IdleFencesGenerations
  <2> QED BY <2>3, <2>5, <2>7, <2>8 DEF FenceInv
<1>3. CASE AdmitOperatingCycle(c)
  <2>1. /\ cycle[c].state = "Proposed" /\ TransitionCycle(c, "Admitted", cycle[c].generation)
        /\ UNCHANGED <<reservation, cancellation, session, work, child>>
    BY <1>3 DEF AdmitOperatingCycle
  <2>2. /\ \A d \in Cycles : d # c => cycle'[d] = cycle[d]
        /\ cycle'[c].state = "Admitted" /\ cycle'[c].generation = cycle[c].generation
    BY <1>1, <2>1, TransitionEffect DEF CycleStates
  <2>3. GenerationsFenced'
    BY <2>1, <2>2, IdleFencesGenerations
  <2> QED BY <2>1, <2>2, <2>3, Unfenced, MoveFences DEF IsNonterminal
<1>4. CASE StartRootAuthorityOfficeSession(c)
  <2>1. /\ cycle[c].state = "Admitted" /\ TransitionCycle(c, "Running", cycle[c].generation)
        /\ session' = [session EXCEPT ![c] = [NoSession EXCEPT !.state = "Reserved"]]
        /\ UNCHANGED <<reservation, cancellation, work, child>>
    BY <1>4 DEF StartRootAuthorityOfficeSession
  <2>2. /\ \A d \in Cycles : d # c => cycle'[d] = cycle[d]
        /\ cycle'[c].state = "Running" /\ cycle'[c].generation = cycle[c].generation
    BY <1>1, <2>1, TransitionEffect DEF CycleStates
  <2>3. /\ \A d \in Cycles : d # c => session'[d] = session[d]
        /\ session'[c].prompt = NoGeneration
    BY <1>1, <2>1 DEF TypeOK, NoSession
  <2>4. GenerationsFenced'
    BY <2>1, <2>2, <2>3, IdleFencesGenerations
  <2> QED BY <2>1, <2>2, <2>3, <2>4, Unfenced, MoveFences DEF IsNonterminal
<1>5. CASE StartNativeExecutionProfileQualification(c)
  <2>1. /\ cycle[c].state = "Admitted" /\ TransitionCycle(c, "Running", cycle[c].generation)
        /\ UNCHANGED <<reservation, cancellation, session, work, child>>
    BY <1>5 DEF StartNativeExecutionProfileQualification
  <2>2. /\ \A d \in Cycles : d # c => cycle'[d] = cycle[d]
        /\ cycle'[c].state = "Running" /\ cycle'[c].generation = cycle[c].generation
    BY <1>1, <2>1, TransitionEffect DEF CycleStates
  <2>3. GenerationsFenced'
    BY <2>1, <2>2, IdleFencesGenerations
  <2> QED BY <2>1, <2>2, <2>3, Unfenced, MoveFences DEF IsNonterminal
<1>6. CASE QuiesceOperatingCycle(c)
  <2>1. /\ cycle[c].state \in {"Admitted", "Running"}
        /\ TransitionCycle(c, "Quiescing", cycle[c].generation + 1)
        /\ UNCHANGED <<reservation, cancellation, session, work, child>>
    BY <1>6 DEF QuiesceOperatingCycle
  <2>2. /\ \A d \in Cycles : d # c => cycle'[d] = cycle[d]
        /\ cycle'[c].state = "Quiescing" /\ cycle'[c].generation = cycle[c].generation + 1
    BY <1>1, <2>1, TransitionEffect DEF CycleStates
  <2>3. GenerationsFenced'
    BY <2>1, <2>2, AdvanceFencesGenerations
  <2> QED BY <2>1, <2>2, <2>3, MoveFences DEF IsNonterminal
<1>7. CASE RecordCycleDrained(c)
  <2> DEFINE to == IF ActiveCancellations(c) # {} THEN "Cancelling" ELSE "Drained"
  <2>1. /\ cycle[c].state = "Quiescing" /\ TransitionCycle(c, to, cycle[c].generation)
        /\ UNCHANGED <<reservation, cancellation, session, work, child>>
    BY <1>7 DEF RecordCycleDrained
  <2>2. to \in CycleStates \ {"None"} /\ to \in {"Cancelling", "Drained"}
    BY DEF CycleStates
  <2>3. /\ to = "Cancelling" => \E q \in Requests : IsActive(q) /\ cancellation[q].cycle = c
        /\ \A q \in Requests : IsActive(q) /\ cancellation[q].cycle = c => to = "Cancelling"
    BY DEF ActiveCancellations, IsActive
  <2> HIDE DEF to
  <2>4. /\ \A d \in Cycles : d # c => cycle'[d] = cycle[d]
        /\ cycle'[c].state = to /\ cycle'[c].generation = cycle[c].generation
    BY <1>1, <2>1, <2>2, TransitionEffect
  <2>5. GenerationsFenced'
    BY <2>1, <2>2, <2>4, IdleFencesGenerations
  <2> QED BY <2>1, <2>2, <2>3, <2>4, <2>5, MoveFences DEF IsNonterminal
<1>8. CASE ResumeOperatingCycle(c)
  <2>1. /\ cycle[c].state = "Drained" /\ TransitionCycle(c, "Running", cycle[c].generation)
        /\ UnreconciledReservations(c) = {} /\ ActiveCancellations(c) = {}
        /\ UNCHANGED <<reservation, cancellation, session, work, child>>
    BY <1>8 DEF ResumeOperatingCycle
  <2>2. /\ \A d \in Cycles : d # c => cycle'[d] = cycle[d]
        /\ cycle'[c].state = "Running" /\ cycle'[c].generation = cycle[c].generation
    BY <1>1, <2>1, TransitionEffect DEF CycleStates
  <2>3. GenerationsFenced'
    BY <2>1, <2>2, IdleFencesGenerations
  <2>4. \A r \in Reservations : ~(reservation[r].state = "Frozen" /\ reservation[r].cycle = c)
    BY <2>1 DEF UnreconciledReservations
  <2> QED BY <2>1, <2>2, <2>3, <2>4, NoDuty, MoveFences DEF IsNonterminal
<1>9. CASE ReconcileOperatingCycle(c)
  <2>1. /\ cycle[c].state = "Drained"
        /\ UNCHANGED <<reservation, cancellation, session, work, child>>
    BY <1>9 DEF ReconcileOperatingCycle
  <2>2. /\ \A d \in Cycles : d # c => cycle'[d] = cycle[d]
        /\ cycle'[c].state = "Reconciling" /\ cycle'[c].generation = cycle[c].generation
    BY <1>1, <1>9 DEF ReconcileOperatingCycle, TypeOK, CycleRows
  <2>3. GenerationsFenced'
    BY <2>1, <2>2, IdleFencesGenerations
  <2>4. \A q \in Requests : ~(IsActive(q) /\ cancellation[q].cycle = c)
    BY <2>1 DEF FenceInv, DutyFenced
  <2> QED BY <2>1, <2>2, <2>3, <2>4, MoveFences DEF IsNonterminal
<1>10. CASE CloseOperatingCycle(c)
  <2>1. /\ cycle[c].state = "Reconciling" /\ TransitionCycle(c, "Closed", cycle[c].generation)
        /\ UnreconciledReservations(c) = {} /\ ActiveCancellations(c) = {}
        /\ ~HasLiveSession(c) /\ work[c] = "None"
        /\ UNCHANGED <<reservation, cancellation, session, work, child>>
    BY <1>10 DEF CloseOperatingCycle, OwnedWorkDrained
  <2>2. /\ \A d \in Cycles : d # c => cycle'[d] = cycle[d]
        /\ cycle'[c].state = "Closed" /\ cycle'[c].generation = cycle[c].generation
    BY <1>1, <2>1, TransitionEffect DEF CycleStates
  <2>3. GenerationsFenced'
    BY <2>1, <2>2, IdleFencesGenerations
  <2>4. /\ \A r \in Reservations : ~(reservation[r].state = "Frozen" /\ reservation[r].cycle = c)
        /\ ~HasLiveSession(c)'
    BY <2>1 DEF UnreconciledReservations, HasLiveSession
  <2> QED BY <2>1, <2>2, <2>3, <2>4, NoDuty, MoveFences DEF IsNonterminal
<1> QED BY <1>2, <1>3, <1>4, <1>5, <1>6, <1>7, <1>8, <1>9, <1>10 DEF NextCycle

\* Each budget command keeps the fences.
LEMMA BudgetFences ==
  ASSUME MoneyInv, FenceInv, NEW r \in Reservations, NextBudget(r)
  PROVE  FenceInv'
<1>1. TypeOK
  BY DEF MoneyInv
<1>2. ASSUME UNCHANGED <<cycle, cancellation, session, work, child>>,
             \A x \in Reservations :
                /\ reservation'[x].cycle = reservation[x].cycle
                /\ reservation'[x].state \in {reservation[x].state, "Reconciled"}
      PROVE  FenceInv'
  BY <1>2, QuietKeeps DEF IsActive, HasLiveSession
<1>3. ASSUME NEW c \in Cycles, NEW amount \in Amounts, ReserveBudget(r, c, amount)
      PROVE  FenceInv'
  BY <1>3, InsertReservationFences, MoneyAssumption DEF ReserveBudget, AdmitsTaskWork
<1>4. ASSUME NEW cause, NEW observed, Freeze(r, cause, observed), reservation[r].state = "Reserved",
             UNCHANGED <<session, work, child>>
      PROVE  FenceInv'
  BY <1>4, FreezeFences DEF HasLiveSession
<1>5. ASSUME NEW observed \in Observations, ReconcileKnownBudget(r, observed)
      PROVE  FenceInv'
  <2>1. CASE observed > reservation[r].amount
    BY <1>4, <1>5, <2>1 DEF ReconcileKnownBudget
  <2>2. CASE ~(observed > reservation[r].amount)
    <3>1. SettleKnown(r, observed, reservation[r].held) /\ UNCHANGED <<session, work, child>>
      BY <1>5, <2>2 DEF ReconcileKnownBudget
    <3>2. \A x \in Reservations :
             /\ reservation'[x].cycle = reservation[x].cycle
             /\ reservation'[x].state \in {reservation[x].state, "Reconciled"}
      BY <1>1, <3>1 DEF SettleKnown, TypeOK, ReservationRows
    <3> QED BY <1>2, <3>1, <3>2 DEF SettleKnown
  <2> QED BY <2>1, <2>2
<1>6. CASE ReconcileUnknownBudget(r)
  BY <1>4, <1>6 DEF ReconcileUnknownBudget
<1>7. CASE CloseCostPostmortem(r)
  <2>1. \A x \in Reservations :
           /\ reservation'[x].cycle = reservation[x].cycle
           /\ reservation'[x].state \in {reservation[x].state, "Reconciled"}
    BY <1>1, <1>7 DEF CloseCostPostmortem, TypeOK, ReservationRows
  <2> QED BY <1>2, <1>7, <2>1 DEF CloseCostPostmortem
<1> QED BY <1>3, <1>5, <1>6, <1>7 DEF NextBudget

\* Each cancellation command keeps the fences.
LEMMA CancellationFenced ==
  ASSUME MoneyInv, FenceInv, NEW q \in Requests, NextCancellation(q)
  PROVE  FenceInv'
<1>1. TypeOK
  BY DEF MoneyInv
<1>2. ASSUME NEW c \in Cycles, NEW mode \in {"Quiesce", "GracefulCancel"},
             RequestCancellation(q, c, mode)
      PROVE  FenceInv'
  <2> DEFINE to == IF mode = "Quiesce" THEN "Quiescing" ELSE "Cancelling"
  <2>1. /\ cycle[c].state \in {"Proposed", "Admitted", "Running", "Quiescing", "Drained"}
        /\ ActiveCancellations(c) = {} /\ InsertCancellation(q, c)
        /\ TransitionCycle(c, to, cycle[c].generation + 1)
        /\ UNCHANGED <<reservation, session, work, child>>
    BY <1>2 DEF RequestCancellation
  <2>2. to \in {"Quiescing", "Cancelling"} /\ to \in CycleStates \ {"None"}
    BY DEF CycleStates
  <2> HIDE DEF to
  <2>3. /\ \A d \in Cycles : d # c => cycle'[d] = cycle[d]
        /\ cycle'[c].state = to /\ cycle'[c].generation = cycle[c].generation + 1
    BY <1>1, <2>1, <2>2, TransitionEffect, FenceTypes
  <2>4. DutyFenced'
    BY <2>1, <2>2, <2>3, NewDutyFenced
  <2>5. GenerationsFenced'
    BY <2>1, <2>2, <2>3, AdvanceFencesGenerations
  <2>6. AtMostOneOpenCycle'
    <3>1. \A d \in Cycles : IsNonterminal(d)' <=> IsNonterminal(d)
      BY <2>1, <2>2, <2>3 DEF IsNonterminal
    <3> QED BY <3>1 DEF FenceInv, AtMostOneOpenCycle
  <2>7. FrozenFenced'
    <3>1. \A r \in Reservations : reservation[r].state = "Frozen" => reservation[r].cycle \in Cycles
      BY DEF MoneyInv, RowsLinked
    <3> QED BY <2>1, <2>2, <2>3, <3>1 DEF FenceInv, FrozenFenced
  <2>8. NothingLeft'
    BY <2>1, <2>2, <2>3 DEF FenceInv, NothingLeft, HasLiveSession
  <2> QED BY <2>4, <2>5, <2>6, <2>7, <2>8 DEF FenceInv
<1>3. CASE BeginCancellationPropagation(q) \/ ReconcileCancellationPropagation(q)
  <2>1. UNCHANGED <<cycle, reservation, session, work, child>>
    BY <1>3 DEF BeginCancellationPropagation, ReconcileCancellationPropagation
  <2>2. \A p \in Requests :
           /\ cancellation'[p].cycle = cancellation[p].cycle
           /\ IsActive(p)' <=> IsActive(p)
    <3>1. CASE BeginCancellationPropagation(q)
      BY <1>1, <3>1 DEF BeginCancellationPropagation, TypeOK, CancellationRows, IsActive
    <3>2. CASE ReconcileCancellationPropagation(q)
      <4>1. \E v : cancellation' = [cancellation EXCEPT ![q].propagation = v]
        BY <3>2 DEF ReconcileCancellationPropagation
      <4> QED BY <1>1, <4>1 DEF TypeOK, CancellationRows, IsActive
    <3> QED BY <1>3, <3>1, <3>2
  <2> QED BY <2>1, <2>2, QuietKeeps DEF HasLiveSession
<1>4. CASE ReconcileCancellation(q)
  <2> DEFINE c == cancellation[q].cycle
  <2>1. /\ IsActive(q) /\ cycle[c].state = "Cancelling" /\ c \in Cycles
        /\ TransitionCycle(c, "Drained", cycle[c].generation)
        /\ cancellation' = [cancellation EXCEPT ![q].state = "Completed"]
        /\ UNCHANGED <<reservation, session, work, child>>
    BY <1>4, FenceTypes DEF ReconcileCancellation, IsActive
  <2>2. /\ \A p \in Requests : /\ cancellation'[p].cycle = cancellation[p].cycle
                               /\ p # q => (IsActive(p)' <=> IsActive(p))
        /\ ~IsActive(q)'
    BY <1>1, <2>1 DEF TypeOK, CancellationRows, IsActive
  <2> HIDE DEF c
  <2>3. /\ \A d \in Cycles : d # c => cycle'[d] = cycle[d]
        /\ cycle'[c].state = "Drained" /\ cycle'[c].generation = cycle[c].generation
    BY <1>1, <2>1, TransitionEffect, FenceTypes DEF CycleStates
  <2>4. GenerationsFenced'
    BY <2>1, <2>3, IdleFencesGenerations
  <2>5. AtMostOneOpenCycle'
    <3>1. \A d \in Cycles : IsNonterminal(d)' <=> IsNonterminal(d)
      BY <2>1, <2>3 DEF IsNonterminal
    <3> QED BY <3>1 DEF FenceInv, AtMostOneOpenCycle
  <2>6. FrozenFenced'
    <3>1. \A r \in Reservations : reservation[r].state = "Frozen" => reservation[r].cycle \in Cycles
      BY DEF MoneyInv, RowsLinked
    <3> QED BY <2>1, <2>3, <3>1 DEF FenceInv, FrozenFenced
  <2>7. NothingLeft'
    BY <2>1, <2>3 DEF FenceInv, NothingLeft, HasLiveSession
  <2>8. DutyFenced'
    <3>1. \A p \in Requests : IsActive(p)' => IsActive(p) /\ p # q /\ cancellation[p].cycle \in Cycles \ {c}
      BY <2>1, <2>2, FenceTypes DEF FenceInv, DutyFenced, c
    <3>2. \A p \in Requests :
             IsActive(p)' => cycle'[cancellation'[p].cycle].state \in {"Quiescing", "Cancelling"}
      BY <2>2, <2>3, <3>1 DEF FenceInv, DutyFenced
    <3>3. \A d \in Cycles :
             cycle'[d].state = "Cancelling" =>
                 \E p \in Requests : IsActive(p)' /\ cancellation'[p].cycle = d
      <4> SUFFICES ASSUME NEW d \in Cycles, cycle'[d].state = "Cancelling"
                   PROVE  \E p \in Requests : IsActive(p)' /\ cancellation'[p].cycle = d
        OBVIOUS
      <4>1. d # c /\ cycle[d].state = "Cancelling"
        BY <2>3
      <4>2. PICK p \in Requests : IsActive(p) /\ cancellation[p].cycle = d
        BY <4>1 DEF FenceInv, DutyFenced
      <4>3. p # q
        BY <4>1, <4>2 DEF c
      <4> QED BY <2>2, <4>2, <4>3
    <3> QED BY <2>2, <3>1, <3>2, <3>3 DEF FenceInv, DutyFenced
  <2> QED BY <2>4, <2>5, <2>6, <2>7, <2>8 DEF FenceInv
<1> QED BY <1>2, <1>3, <1>4 DEF NextCancellation

\* Each step of the work item keeps the fences.
LEMMA WorkFences ==
  ASSUME MoneyInv, FenceInv, NEW c \in Cycles, NextWork(c)
  PROVE  FenceInv'
<1>1. TypeOK
  BY DEF MoneyInv
<1>2. ASSUME NEW r \in Reservations, NEW amount \in Amounts, StartActorAttempt(c, r, amount)
      PROVE  FenceInv'
  <2>1. /\ cycle[c].state = "Running" /\ InsertReservation(r, c, amount)
        /\ UNCHANGED <<cycle, cancellation, session, child>>
        /\ \A d \in Cycles : d # c => work'[d] = work[d]
    BY <1>1, <1>2 DEF StartActorAttempt, AdmitsTaskWork, TypeOK
  <2> QED BY <2>1, InsertReservationFences, MoneyAssumption
<1>3. CASE ClaimWorkItem(c) \/ AttestActorAttemptTerminal(c) \/ ExpireWorkLease(c)
  <2>1. UNCHANGED <<cycle, reservation, cancellation, session, child>>
    BY <1>3 DEF ClaimWorkItem, AttestActorAttemptTerminal, ExpireWorkLease
  <2>2. \A d \in Cycles : cycle[d].state = "Closed" /\ work[d] = "None" => work'[d] = "None"
    BY <1>1, <1>3
       DEF ClaimWorkItem, AttestActorAttemptTerminal, ExpireWorkLease, AdmitsTaskWork, TypeOK
  <2> QED BY <2>1, <2>2, QuietKeeps DEF IsActive, HasLiveSession
<1> QED BY <1>2, <1>3 DEF NextWork

\* Each Office command keeps the fences.
LEMMA OfficeFences ==
  ASSUME MoneyInv, FenceInv, NEW c \in Cycles, NextOffice(c)
  PROVE  FenceInv'
<1> DEFINE r == session[c].reservation
<1>1. TypeOK
  BY DEF MoneyInv
<1>2. UNCHANGED <<work, child>>
  BY DEF NextOffice, RecordOfficeSessionReady, RecordOfficeSessionTerminal, OpenOfficeTurn,
         AuthorizePiOfficeTurnPrompt, SettleOfficeTurn, RecordPiOfficeTurnUsageFailure,
         AuthorizePiOfficeSessionDispose, RecordPiOfficeSessionDisposed,
         RecordPiOfficeSessionDisposeUsageFailure
<1>3. ASSUME UNCHANGED <<cycle, cancellation>>,
             \A x \in Reservations :
                /\ reservation'[x].cycle = reservation[x].cycle
                /\ reservation'[x].state \in {reservation[x].state, "Reconciled"},
             \A d \in Cycles :
                /\ HasLiveSession(d)' => HasLiveSession(d)
                /\ session'[d].prompt \in {session[d].prompt, NoGeneration}
      PROVE  FenceInv'
  BY <1>2, <1>3, QuietKeeps DEF IsActive
<1>4. ASSUME reservation[r].state = "Reserved", r \in Reservations, NEW cause, NEW observed,
             Freeze(r, cause, observed), UNCHANGED session
      PROVE  FenceInv'
  BY <1>2, <1>4, FreezeFences DEF HasLiveSession
<1>5. CASE RecordOfficeSessionReady(c)
  <2>1. \A d \in Cycles : /\ HasLiveSession(d)' => HasLiveSession(d)
                          /\ session'[d].prompt = session[d].prompt
    BY <1>1, <1>5 DEF RecordOfficeSessionReady, HasLiveSession, TypeOK, SessionRows
  <2> QED BY <1>3, <1>5, <2>1 DEF RecordOfficeSessionReady
<1>6. ASSUME NEW terminal \in {"Cancelled", "Failed"}, RecordOfficeSessionTerminal(c, terminal)
      PROVE  FenceInv'
  <2>1. session' = [session EXCEPT ![c].state = terminal]
    BY <1>6 DEF RecordOfficeSessionTerminal
  <2>2. \A d \in Cycles : /\ HasLiveSession(d)' => HasLiveSession(d)
                          /\ session'[d].prompt = session[d].prompt
    BY <1>1, <2>1 DEF HasLiveSession, TypeOK, SessionRows
  <2> QED BY <1>3, <1>6, <2>2 DEF RecordOfficeSessionTerminal
<1>7. ASSUME NEW purpose \in {"OrdinaryWork", "Closure"}, OpenOfficeTurn(c, purpose)
      PROVE  FenceInv'
  <2>1. \A d \in Cycles : /\ HasLiveSession(d)' => HasLiveSession(d)
                          /\ session'[d].prompt \in {session[d].prompt, NoGeneration}
    BY <1>1, <1>7 DEF OpenOfficeTurn, HasLiveSession, TypeOK, SessionRows
  <2> QED BY <1>3, <1>7, <2>1 DEF OpenOfficeTurn
<1>8. CASE AuthorizePiOfficeTurnPrompt(c)
  <2>1. /\ cycle[c].state = "Running"
        /\ session' = [session EXCEPT ![c].prompt = cycle[c].generation]
        /\ UNCHANGED <<cycle, reservation, cancellation>>
    BY <1>8 DEF AuthorizePiOfficeTurnPrompt
  <2>2. \A d \in Cycles :
           /\ session'[d].state = session[d].state
           /\ session'[d].prompt = IF d = c THEN cycle[c].generation ELSE session[d].prompt
    BY <1>1, <2>1 DEF TypeOK, SessionRows
  <2>3. AtMostOneOpenCycle' /\ FrozenFenced'
    BY <2>1 DEF FenceInv, AtMostOneOpenCycle, IsNonterminal, FrozenFenced
  <2>4. DutyFenced'
    BY <2>1 DEF FenceInv, DutyFenced, IsActive
  <2>5. NothingLeft'
    BY <1>2, <2>1, <2>2 DEF FenceInv, NothingLeft, HasLiveSession
  <2>6. GenerationsFenced'
    BY <1>2, <2>1, <2>2, FenceTypes DEF FenceInv, GenerationsFenced
  <2> QED BY <2>3, <2>4, <2>5, <2>6 DEF FenceInv
<1>9. ASSUME NEW observed \in Observations, SettleOfficeTurn(c, observed)
      PROVE  FenceInv'
  <2>1. r \in Reservations /\ reservation[r].state = "Reserved"
    BY <1>9, SessionIsBound DEF SettleOfficeTurn, HasActiveTurn
  <2>2. CASE Freeze(r, "KnownOverrun", observed) /\ UNCHANGED session
    BY <1>4, <2>1, <2>2
  <2>3. CASE ~(Freeze(r, "KnownOverrun", observed) /\ UNCHANGED session)
    <3> DEFINE delta == observed - reservation[r].charged
    <3>1. /\ reservation' = [reservation EXCEPT ![r].charged = @ + delta, ![r].held = @ - delta]
          /\ session' = [session EXCEPT ![c].state = "Ready", ![c].purpose = "None",
                                        ![c].prompt = NoGeneration]
          /\ UNCHANGED <<cycle, cancellation>> /\ HasLiveSession(c)
      BY <1>9, <2>3 DEF SettleOfficeTurn, HasActiveTurn, HasLiveSession
    <3> HIDE DEF delta
    <3>2. \A x \in Reservations : /\ reservation'[x].cycle = reservation[x].cycle
                                  /\ reservation'[x].state = reservation[x].state
      BY <1>1, <3>1 DEF TypeOK, ReservationRows
    <3>3. \A d \in Cycles : /\ HasLiveSession(d)' => HasLiveSession(d)
                            /\ session'[d].prompt \in {session[d].prompt, NoGeneration}
      BY <1>1, <3>1 DEF HasLiveSession, TypeOK, SessionRows
    <3> QED BY <1>3, <3>1, <3>2, <3>3
  <2> QED BY <2>2, <2>3
<1>10. CASE RecordPiOfficeTurnUsageFailure(c)
  BY <1>4, <1>10, SessionIsBound DEF RecordPiOfficeTurnUsageFailure, HasActiveTurn
<1>11. CASE AuthorizePiOfficeSessionDispose(c)
  <2>1. \A d \in Cycles : /\ HasLiveSession(d)' => HasLiveSession(d)
                          /\ session'[d].prompt = session[d].prompt
    BY <1>1, <1>11 DEF AuthorizePiOfficeSessionDispose, HasLiveSession, TypeOK, SessionRows
  <2> QED BY <1>3, <1>11, <2>1 DEF AuthorizePiOfficeSessionDispose
<1>12. ASSUME NEW observed \in Observations, RecordPiOfficeSessionDisposed(c, observed)
       PROVE  FenceInv'
  <2>1. r \in Reservations /\ reservation[r].state = "Reserved"
    BY <1>12, SessionIsBound DEF RecordPiOfficeSessionDisposed
  <2>2. PICK to \in {"Cancelled", "Closed"} : session' = [session EXCEPT ![c].state = to]
    BY <1>12 DEF RecordPiOfficeSessionDisposed
  <2>3. \A d \in Cycles : /\ HasLiveSession(d)' => HasLiveSession(d)
                          /\ session'[d].prompt = session[d].prompt
    BY <1>1, <2>2 DEF HasLiveSession, TypeOK, SessionRows
  <2>4. CASE Freeze(r, "KnownOverrun", observed)
    BY <1>2, <2>1, <2>3, <2>4, FreezeFences
  <2>5. CASE SettleKnown(r, observed, 0)
    <3>1. \A x \in Reservations :
             /\ reservation'[x].cycle = reservation[x].cycle
             /\ reservation'[x].state \in {reservation[x].state, "Reconciled"}
      BY <1>1, <2>5 DEF SettleKnown, TypeOK, ReservationRows
    <3> QED BY <1>3, <2>3, <2>5, <3>1 DEF SettleKnown
  <2> QED BY <1>12, <2>4, <2>5 DEF RecordPiOfficeSessionDisposed
<1>13. CASE RecordPiOfficeSessionDisposeUsageFailure(c)
  BY <1>4, <1>13, SessionIsBound DEF RecordPiOfficeSessionDisposeUsageFailure
<1> QED BY <1>5, <1>6, <1>7, <1>8, <1>9, <1>10, <1>11, <1>12, <1>13 DEF NextOffice

\* Each native child receipt keeps the fences.
LEMMA ChildFences ==
  ASSUME MoneyInv, FenceInv, NEW k \in Children, NextChild(k)
  PROVE  FenceInv'
<1>1. TypeOK
  BY DEF MoneyInv
<1>2. ASSUME NEW state, SetChild(k, state) PROVE FenceInv'
  <2>1. \A x \in Children : /\ child'[x].cycle = child[x].cycle
                            /\ child'[x].generation = child[x].generation
    BY <1>1, <1>2 DEF SetChild, TypeOK, ChildRows
  <2> QED BY <1>2, <2>1, QuietKeeps DEF SetChild, IsActive, HasLiveSession
<1>3. ASSUME NEW c \in Cycles, NEW r \in Reservations, NEW owner \in {"Session", "Qualification"},
             AdmitPiChildSpawn(k, c, r, owner)
      PROVE  FenceInv'
  <2>1. /\ cycle[c].state = "Running"
        /\ UNCHANGED <<cycle, reservation, cancellation, work>>
    BY <1>3 DEF AdmitPiChildSpawn
  <2>2. /\ \A x \in Children : x # k => child'[x] = child[x]
        /\ child'[k].cycle = c /\ child'[k].generation = cycle[c].generation
    BY <1>1, <1>3 DEF AdmitPiChildSpawn, TypeOK
  <2>3. \A d \in Cycles : /\ session'[d].state = session[d].state
                          /\ session'[d].prompt = session[d].prompt
    <3>1. \/ session' = session
          \/ session' = [session EXCEPT ![c].child = k, ![c].reservation = r]
      BY <1>3 DEF AdmitPiChildSpawn
    <3> QED BY <1>1, <3>1 DEF TypeOK, SessionRows
  <2>4. AtMostOneOpenCycle' /\ FrozenFenced'
    BY <2>1 DEF FenceInv, AtMostOneOpenCycle, IsNonterminal, FrozenFenced
  <2>5. DutyFenced'
    BY <2>1 DEF FenceInv, DutyFenced, IsActive
  <2>6. NothingLeft'
    BY <2>1, <2>3 DEF FenceInv, NothingLeft, HasLiveSession
  <2>7. GenerationsFenced'
    BY <2>1, <2>2, <2>3, FenceTypes DEF FenceInv, GenerationsFenced
  <2> QED BY <2>4, <2>5, <2>6, <2>7 DEF FenceInv
<1>4. ASSUME NEW state \in {"Ending", "LostParentage", "ContainmentFailed", "Finalized"},
             RecordChildCustody(k, state)
      PROVE  FenceInv'
  BY <1>2, <1>4 DEF RecordChildCustody
<1>5. CASE \/ RecordInertChildSpawn(k) \/ RecordNativeChildNotSpawned(k)
           \/ AuthorizePiCreateSession(k) \/ RecordPiSessionReady(k)
  BY <1>2, <1>5 DEF RecordInertChildSpawn, RecordNativeChildNotSpawned,
                    AuthorizePiCreateSession, RecordPiSessionReady
<1> QED BY <1>3, <1>4, <1>5 DEF NextChild

\* FenceInv is inductive on top of MoneyInv.
LEMMA FenceInductive == MoneyInv /\ FenceInv /\ [Next]_vars => FenceInv'
<1> SUFFICES ASSUME MoneyInv, FenceInv, [Next]_vars PROVE FenceInv'
  OBVIOUS
<1>1. CASE UNCHANGED vars
  BY <1>1, QuietKeeps DEF vars, IsActive, HasLiveSession
<1>2. CASE Next
  BY <1>2, CycleFences, OfficeFences, WorkFences, BudgetFences, CancellationFenced, ChildFences
     DEF Next
<1> QED BY <1>1, <1>2

\* The fences hold of a bootstrapped society.
LEMMA InitFence == Init => FenceInv
  BY DEF Init, FenceInv, AtMostOneOpenCycle, IsNonterminal, FrozenFenced, DutyFenced, IsActive,
         NothingLeft, HasLiveSession, GenerationsFenced, NoCycle, NoReservation, NoRequest,
         NoSession, NoChild, NoGeneration

\* Every reachable state satisfies both invariants.
THEOREM FenceInvariant == Spec => [](MoneyInv /\ FenceInv)
<1>1. Init => MoneyInv /\ FenceInv
  BY InitMoney, InitFence
<1>2. (MoneyInv /\ FenceInv) /\ [Next]_vars => (MoneyInv /\ FenceInv)'
  BY MoneyInductive, FenceInductive
<1> QED BY <1>1, <1>2, PTL DEF Spec

-----------------------------------------------------------------------------
(* What the invariant means.                                               *)

\* At most one Operating Cycle is open, whatever late receipts arrive.
THEOREM OneOpenCycle == Spec => []AtMostOneOpenCycle
  BY FenceInvariant, PTL DEF FenceInv

\* While a cost is frozen its Postmortem is open and its cycle admits nothing.
THEOREM FrozenCostsFence == Spec => []FrozenCostFencesAdmission
<1>1. MoneyInv /\ FenceInv => FrozenCostFencesAdmission
  BY DEF MoneyInv, PostmortemMatches, FenceInv, FrozenFenced, FrozenCostFencesAdmission
<1> QED BY <1>1, FenceInvariant, PTL

\* A closed cycle left no reservation, duty, session or work behind.
THEOREM ClosedCyclesAreSettled == Spec => []ClosedIsSettled
<1>1. ASSUME MoneyInv, FenceInv, NEW c \in Cycles, cycle[c].state = "Closed"
      PROVE  /\ UnreconciledReservations(c) = {} /\ ActiveCancellations(c) = {}
             /\ ~HasLiveSession(c) /\ work[c] = "None"
  <2>1. ActiveCancellations(c) = {}
    BY <1>1 DEF FenceInv, DutyFenced, IsActive, ActiveCancellations
  <2>2. UnreconciledReservations(c) = {}
    BY <1>1 DEF FenceInv, NothingLeft, UnreconciledReservations
  <2> QED BY <1>1, <2>1, <2>2 DEF FenceInv, NothingLeft
<1>2. MoneyInv /\ FenceInv => ClosedIsSettled
  BY <1>1 DEF ClosedIsSettled
<1> QED BY <1>2, FenceInvariant, PTL

\* A cancellation duty fences its cycle until it is reconciled.
THEOREM DutiesFence == Spec => []CancellationFences
<1>1. MoneyInv /\ FenceInv => CancellationFences
  BY DEF FenceInv, DutyFenced, IsActive, ActiveCancellations, CancellationFences
<1> QED BY <1>1, FenceInvariant, PTL

\* What was admitted or authorised at the current generation finds its cycle
\* Running, without a duty and without a frozen reservation.
THEOREM GenerationsFence == Spec => []GenerationFences
<1>1. ASSUME MoneyInv, FenceInv, NEW c \in Cycles, cycle[c].state = "Running"
      PROVE  /\ ActiveCancellations(c) = {}
             /\ \A r \in UnreconciledReservations(c) : reservation[r].state = "Reserved"
  <2>1. ActiveCancellations(c) = {}
    BY <1>1 DEF FenceInv, DutyFenced, IsActive, ActiveCancellations
  <2>2. \A r \in UnreconciledReservations(c) : reservation[r].state = "Reserved"
    BY <1>1 DEF FenceInv, FrozenFenced, UnreconciledReservations
  <2> QED BY <2>1, <2>2
<1>2. MoneyInv /\ FenceInv => GenerationFences
  BY <1>1, NoneAssumption DEF FenceInv, GenerationsFenced, GenerationFences
<1> QED BY <1>2, FenceInvariant, PTL

-----------------------------------------------------------------------------
(* A closed cycle.                                                         *)

\* The step leaves alone what the closed cycle d is accountable for.
Untouched(d) ==
    /\ cycle'[d] = cycle[d] /\ envelope'[d] = envelope[d]
    /\ session'[d] = session[d] /\ work'[d] = work[d]
    /\ \A r \in Reservations :
           /\ reservation[r].state # "None" /\ reservation[r].cycle = d =>
                  reservation'[r] = reservation[r]
           /\ reservation'[r].state # "None" /\ reservation'[r].cycle = d =>
                  reservation[r].state # "None" /\ reservation[r].cycle = d

\* A step that posts to the reservation r of cycle c, and otherwise touches only
\* the rows of c, leaves every other cycle alone.
LEMMA OthersUntouched ==
  ASSUME MoneyInv, NEW c \in Cycles, NEW d \in Cycles, d # c,
         cycle'[d] = cycle[d], session'[d] = session[d], work'[d] = work[d],
         \/ UNCHANGED <<envelope, reservation>>
         \/ \E r \in Reservations :
               /\ \/ envelope' = envelope
                  \/ \E released, spent : Charge(c, released, spent)
               /\ \A x \in Reservations : x # r => reservation'[x] = reservation[x]
               /\ reservation[r].state # "None" => reservation[r].cycle = c
               /\ reservation'[r].cycle = c
  PROVE  Untouched(d)
<1>1. d # Society /\ d \in Envelopes
  BY SocietyAssumption DEF Envelopes
<1>2. CASE UNCHANGED <<envelope, reservation>>
  BY <1>2 DEF Untouched
<1>3. ASSUME NEW r \in Reservations,
             \/ envelope' = envelope
             \/ \E released, spent : Charge(c, released, spent),
             \A x \in Reservations : x # r => reservation'[x] = reservation[x],
             reservation[r].state # "None" => reservation[r].cycle = c,
             reservation'[r].cycle = c
      PROVE  Untouched(d)
  <2>1. envelope'[d] = envelope[d]
    BY <1>1, <1>3 DEF Charge
  <2> QED BY <1>3, <2>1 DEF Untouched
<1> QED BY <1>2, <1>3

\* A reservation that is Reserved or Frozen belongs to an open cycle.
LEMMA HeldIsOpen ==
  ASSUME MoneyInv, FenceInv, NEW r \in Reservations, reservation[r].state \in {"Reserved", "Frozen"}
  PROVE  /\ reservation[r].cycle \in Cycles
         /\ cycle[reservation[r].cycle].state \notin {"None", "Closed"}
  BY DEF MoneyInv, RowsLinked, FenceInv, NothingLeft

\* A freeze, a settlement and the closing of a Postmortem leave every closed
\* cycle alone: the cycle of their reservation is open.
LEMMA PostingLeavesClosed ==
  ASSUME MoneyInv, FenceInv, NEW r \in Reservations, reservation[r].state \in {"Reserved", "Frozen"},
         NEW d \in Cycles, cycle[d].state = "Closed",
         session'[d] = session[d], UNCHANGED work,
         \/ UNCHANGED cycle
         \/ \E state, generation : TransitionCycle(reservation[r].cycle, state, generation),
         \/ envelope' = envelope
         \/ \E released, spent : Charge(reservation[r].cycle, released, spent),
         \A x \in Reservations : x # r => reservation'[x] = reservation[x],
         reservation'[r].cycle = reservation[r].cycle
  PROVE  Untouched(d)
<1> DEFINE c == reservation[r].cycle
<1>1. c \in Cycles /\ c # d
  BY HeldIsOpen
<1>2. cycle'[d] = cycle[d]
  BY <1>1 DEF TransitionCycle, MoneyInv, TypeOK
<1> QED BY <1>1, <1>2, OthersUntouched

\* A freeze does.
LEMMA FreezeLeavesClosed ==
  ASSUME MoneyInv, FenceInv, NEW r \in Reservations, reservation[r].state = "Reserved",
         NEW cause, NEW observed, Freeze(r, cause, observed),
         NEW d \in Cycles, cycle[d].state = "Closed", session'[d] = session[d], UNCHANGED work
  PROVE  Untouched(d)
<1>1. /\ \E state, generation : TransitionCycle(reservation[r].cycle, state, generation)
      /\ envelope' = envelope
      /\ reservation' = [reservation EXCEPT ![r].state = "Frozen"]
  BY DEF Freeze
<1>2. /\ \A x \in Reservations : x # r => reservation'[x] = reservation[x]
      /\ reservation'[r].cycle = reservation[r].cycle
  BY <1>1 DEF MoneyInv, TypeOK, ReservationRows
<1> QED BY <1>1, <1>2, PostingLeavesClosed

\* So does a settlement at a known cost.
LEMMA SettleLeavesClosed ==
  ASSUME MoneyInv, FenceInv, NEW r \in Reservations, reservation[r].state = "Reserved",
         NEW observed, NEW left, SettleKnown(r, observed, left),
         NEW d \in Cycles, cycle[d].state = "Closed", session'[d] = session[d], UNCHANGED work
  PROVE  Untouched(d)
<1>1. /\ \E released, spent : Charge(reservation[r].cycle, released, spent)
      /\ UNCHANGED cycle
      /\ reservation' = [reservation EXCEPT ![r].state = "Reconciled", ![r].charged = observed,
                                            ![r].held = left]
  BY DEF SettleKnown
<1>2. /\ \A x \in Reservations : x # r => reservation'[x] = reservation[x]
      /\ reservation'[r].cycle = reservation[r].cycle
  BY <1>1 DEF MoneyInv, TypeOK, ReservationRows
<1> QED BY <1>1, <1>2, PostingLeavesClosed

\* A new reservation is one of the cycle it names.
LEMMA InsertLeavesOthers ==
  ASSUME MoneyInv, NEW r \in Reservations, NEW c \in Cycles, NEW amount, InsertReservation(r, c, amount),
         NEW d \in Cycles, d # c, UNCHANGED <<cycle, session>>, work'[d] = work[d]
  PROVE  Untouched(d)
<1>1. /\ \E released, spent : Charge(c, released, spent)
      /\ \A x \in Reservations : x # r => reservation'[x] = reservation[x]
      /\ reservation[r].state = "None" /\ reservation'[r].cycle = c
  BY DEF InsertReservation, MoneyInv, TypeOK
<1> QED BY <1>1, OthersUntouched

\* No lifecycle command touches a closed cycle: each needs its cycle open, or
\* not proposed yet.
LEMMA CycleLeavesClosed ==
  ASSUME MoneyInv, FenceInv, NEW c \in Cycles, NextCycle(c),
         NEW d \in Cycles, cycle[d].state = "Closed"
  PROVE  Untouched(d)
<1>1. TypeOK
  BY DEF MoneyInv
<1>2. ASSUME NEW treatment \in Treatments, NEW ceiling \in Ceilings,
             ProposeOperatingCycle(c, treatment, ceiling)
      PROVE  Untouched(d)
  <2>1. c # d /\ cycle'[d] = cycle[d] /\ envelope'[d] = envelope[d]
        /\ UNCHANGED <<reservation, session, work>>
    BY <1>1, <1>2 DEF ProposeOperatingCycle, TypeOK, Envelopes
  <2> QED BY <2>1 DEF Untouched
<1>3. CASE ~(\E treatment \in Treatments, ceiling \in Ceilings :
                 ProposeOperatingCycle(c, treatment, ceiling))
  <2>1. /\ c # d /\ UNCHANGED <<envelope, reservation, work>>
        /\ \/ \E state, generation : TransitionCycle(c, state, generation)
           \/ cycle' = [cycle EXCEPT ![c].state = "Reconciling", ![c].reconciling = TRUE]
        /\ \/ UNCHANGED session
           \/ session' = [session EXCEPT ![c] = [NoSession EXCEPT !.state = "Reserved"]]
    BY <1>3 DEF NextCycle, AdmitOperatingCycle, StartRootAuthorityOfficeSession,
                StartNativeExecutionProfileQualification, QuiesceOperatingCycle,
                RecordCycleDrained, ResumeOperatingCycle, ReconcileOperatingCycle,
                CloseOperatingCycle
  <2>2. cycle'[d] = cycle[d] /\ session'[d] = session[d]
    BY <1>1, <2>1 DEF TransitionCycle, TypeOK
  <2> QED BY <2>1, <2>2 DEF Untouched
<1> QED BY <1>2, <1>3

\* No budget command does.
LEMMA BudgetLeavesClosed ==
  ASSUME MoneyInv, FenceInv, NEW r \in Reservations, NextBudget(r),
         NEW d \in Cycles, cycle[d].state = "Closed"
  PROVE  Untouched(d)
<1>1. ASSUME NEW c \in Cycles, NEW amount \in Amounts, ReserveBudget(r, c, amount)
      PROVE  Untouched(d)
  BY <1>1, InsertLeavesOthers DEF ReserveBudget, AdmitsTaskWork
<1>2. ASSUME NEW observed \in Observations, ReconcileKnownBudget(r, observed)
      PROVE  Untouched(d)
  <2>1. reservation[r].state = "Reserved" /\ UNCHANGED <<session, work>>
    BY <1>2 DEF ReconcileKnownBudget
  <2>2. \/ Freeze(r, "KnownOverrun", observed)
        \/ SettleKnown(r, observed, reservation[r].held)
    BY <1>2 DEF ReconcileKnownBudget
  <2> QED BY <2>1, <2>2, FreezeLeavesClosed, SettleLeavesClosed
<1>3. CASE ReconcileUnknownBudget(r)
  BY <1>3, FreezeLeavesClosed DEF ReconcileUnknownBudget
<1>4. CASE CloseCostPostmortem(r)
  <2>1. /\ reservation[r].state = "Frozen" /\ UNCHANGED <<cycle, session, work>>
        /\ Charge(reservation[r].cycle, reservation[r].held, PostmortemCharge(r))
        /\ reservation' = [reservation EXCEPT ![r].state = "Reconciled",
                                              ![r].charged = @ + PostmortemCharge(r)]
    BY <1>4 DEF CloseCostPostmortem
  <2>2. /\ \A x \in Reservations : x # r => reservation'[x] = reservation[x]
        /\ reservation'[r].cycle = reservation[r].cycle
    BY <2>1 DEF MoneyInv, TypeOK, ReservationRows
  <2> QED BY <2>1, <2>2, PostingLeavesClosed
<1> QED BY <1>1, <1>2, <1>3, <1>4 DEF NextBudget

\* No cancellation command does.
LEMMA CancellationLeavesClosed ==
  ASSUME MoneyInv, FenceInv, NEW q \in Requests, NextCancellation(q),
         NEW d \in Cycles, cycle[d].state = "Closed"
  PROVE  Untouched(d)
<1>1. UNCHANGED <<envelope, reservation, session, work>>
  BY DEF NextCancellation, RequestCancellation, BeginCancellationPropagation,
         ReconcileCancellationPropagation, ReconcileCancellation
<1>2. \/ UNCHANGED cycle
      \/ \E c, state, generation : c # d /\ TransitionCycle(c, state, generation)
  BY DEF NextCancellation, RequestCancellation, BeginCancellationPropagation,
         ReconcileCancellationPropagation, ReconcileCancellation
<1>3. cycle'[d] = cycle[d]
  BY <1>2 DEF TransitionCycle, MoneyInv, TypeOK
<1> QED BY <1>1, <1>3 DEF Untouched

\* No Office command does: the session of a closed cycle has ended.
LEMMA OfficeLeavesClosed ==
  ASSUME MoneyInv, FenceInv, NEW c \in Cycles, NextOffice(c),
         NEW d \in Cycles, cycle[d].state = "Closed"
  PROVE  Untouched(d)
<1> DEFINE r == session[c].reservation
<1>1. TypeOK
  BY DEF MoneyInv
<1>2. HasLiveSession(c) /\ c # d /\ UNCHANGED work
  <2>1. HasLiveSession(c) /\ UNCHANGED work
    BY DEF NextOffice, RecordOfficeSessionReady, RecordOfficeSessionTerminal, OpenOfficeTurn,
           AuthorizePiOfficeTurnPrompt, SettleOfficeTurn, RecordPiOfficeTurnUsageFailure,
           AuthorizePiOfficeSessionDispose, RecordPiOfficeSessionDisposed,
           RecordPiOfficeSessionDisposeUsageFailure, HasLiveSession, HasActiveTurn
  <2> QED BY <2>1 DEF FenceInv, NothingLeft
<1>3. ASSUME UNCHANGED <<cycle, envelope, reservation>>, session'[d] = session[d]
      PROVE  Untouched(d)
  BY <1>2, <1>3 DEF Untouched
<1>4. ASSUME NEW x, session' = [session EXCEPT ![c] = x] PROVE session'[d] = session[d]
  BY <1>1, <1>2, <1>4 DEF TypeOK
<1>5. CASE \/ RecordOfficeSessionReady(c)
           \/ \E terminal \in {"Cancelled", "Failed"} : RecordOfficeSessionTerminal(c, terminal)
           \/ \E purpose \in {"OrdinaryWork", "Closure"} : OpenOfficeTurn(c, purpose)
           \/ AuthorizePiOfficeTurnPrompt(c)
           \/ AuthorizePiOfficeSessionDispose(c)
  <2>1. UNCHANGED <<cycle, envelope, reservation>>
    BY <1>5 DEF RecordOfficeSessionReady, RecordOfficeSessionTerminal, OpenOfficeTurn,
                AuthorizePiOfficeTurnPrompt, AuthorizePiOfficeSessionDispose
  <2>2. \E x : session' = [session EXCEPT ![c] = x]
    BY <1>5 DEF RecordOfficeSessionReady, RecordOfficeSessionTerminal, OpenOfficeTurn,
                AuthorizePiOfficeTurnPrompt, AuthorizePiOfficeSessionDispose
  <2> QED BY <1>3, <1>4, <2>1, <2>2
<1>6. CASE RecordPiOfficeTurnUsageFailure(c) \/ RecordPiOfficeSessionDisposeUsageFailure(c)
  <2>1. /\ r \in Reservations /\ reservation[r].state = "Reserved" /\ UNCHANGED session
        /\ \E cause, observed : Freeze(r, cause, observed)
    BY <1>6, SessionIsBound
       DEF RecordPiOfficeTurnUsageFailure, RecordPiOfficeSessionDisposeUsageFailure, HasActiveTurn
  <2> QED BY <1>2, <2>1, FreezeLeavesClosed
<1>7. ASSUME NEW observed \in Observations, SettleOfficeTurn(c, observed)
      PROVE  Untouched(d)
  <2>1. r \in Reservations /\ reservation[r].state = "Reserved" /\ reservation[r].cycle = c
    BY <1>7, SessionIsBound DEF SettleOfficeTurn, HasActiveTurn
  <2>2. CASE Freeze(r, "KnownOverrun", observed) /\ UNCHANGED session
    BY <1>2, <2>1, <2>2, FreezeLeavesClosed
  <2>3. CASE ~(Freeze(r, "KnownOverrun", observed) /\ UNCHANGED session)
    <3> DEFINE delta == observed - reservation[r].charged
    <3>1. /\ reservation' = [reservation EXCEPT ![r].charged = @ + delta, ![r].held = @ - delta]
          /\ session' = [session EXCEPT ![c].state = "Ready", ![c].purpose = "None",
                                        ![c].prompt = NoGeneration]
          /\ Charge(c, delta, delta) /\ UNCHANGED cycle
      BY <1>7, <2>3 DEF SettleOfficeTurn
    <3> HIDE DEF delta
    <3>2. /\ \A x \in Reservations : x # r => reservation'[x] = reservation[x]
          /\ reservation'[r].cycle = c
      BY <1>1, <2>1, <3>1 DEF TypeOK, ReservationRows
    <3>3. session'[d] = session[d]
      BY <1>1, <1>2, <3>1 DEF TypeOK
    <3> QED BY <1>2, <2>1, <3>1, <3>2, <3>3, PostingLeavesClosed
  <2> QED BY <2>2, <2>3
<1>8. ASSUME NEW observed \in Observations, RecordPiOfficeSessionDisposed(c, observed)
      PROVE  Untouched(d)
  <2>1. r \in Reservations /\ reservation[r].state = "Reserved"
    BY <1>8, SessionIsBound DEF RecordPiOfficeSessionDisposed
  <2>2. PICK to \in {"Cancelled", "Closed"} : session' = [session EXCEPT ![c].state = to]
    BY <1>8 DEF RecordPiOfficeSessionDisposed
  <2>3. session'[d] = session[d]
    BY <1>1, <1>2, <2>2 DEF TypeOK
  <2>4. Freeze(r, "KnownOverrun", observed) \/ SettleKnown(r, observed, 0)
    BY <1>8 DEF RecordPiOfficeSessionDisposed
  <2> QED BY <1>2, <2>1, <2>3, <2>4, FreezeLeavesClosed, SettleLeavesClosed
<1> QED BY <1>5, <1>6, <1>7, <1>8 DEF NextOffice

\* No step of a work item does: it needs a Running cycle or live work.
LEMMA WorkLeavesClosed ==
  ASSUME MoneyInv, FenceInv, NEW c \in Cycles, NextWork(c),
         NEW d \in Cycles, cycle[d].state = "Closed"
  PROVE  Untouched(d)
<1>1. c # d
  BY DEF NextWork, ClaimWorkItem, StartActorAttempt, AttestActorAttemptTerminal, ExpireWorkLease,
         AdmitsTaskWork, FenceInv, NothingLeft
<1>2. work'[d] = work[d]
  BY <1>1 DEF NextWork, ClaimWorkItem, StartActorAttempt, AttestActorAttemptTerminal,
              ExpireWorkLease, MoneyInv, TypeOK
<1>3. UNCHANGED <<cycle, session>>
  BY DEF NextWork, ClaimWorkItem, StartActorAttempt, AttestActorAttemptTerminal, ExpireWorkLease
<1>4. \/ UNCHANGED <<envelope, reservation>>
      \/ \E r \in Reservations, amount \in Amounts : InsertReservation(r, c, amount)
  BY DEF NextWork, ClaimWorkItem, StartActorAttempt, AttestActorAttemptTerminal, ExpireWorkLease
<1> QED BY <1>1, <1>2, <1>3, <1>4, OthersUntouched, InsertLeavesOthers

\* No child receipt does: the session a spawn is admitted for is that of a
\* Running cycle.
LEMMA ChildLeavesClosed ==
  ASSUME MoneyInv, FenceInv, NEW k \in Children, NextChild(k),
         NEW d \in Cycles, cycle[d].state = "Closed"
  PROVE  Untouched(d)
<1>1. UNCHANGED <<cycle, envelope, reservation, work>>
  BY DEF NextChild, AdmitPiChildSpawn, RecordInertChildSpawn, RecordNativeChildNotSpawned,
         AuthorizePiCreateSession, RecordPiSessionReady, RecordChildCustody, SetChild
<1>2. \/ UNCHANGED session
      \/ \E c \in Cycles : \E r :
            /\ cycle[c].state = "Running"
            /\ session' = [session EXCEPT ![c].child = k, ![c].reservation = r]
  BY DEF NextChild, AdmitPiChildSpawn, RecordInertChildSpawn, RecordNativeChildNotSpawned,
         AuthorizePiCreateSession, RecordPiSessionReady, RecordChildCustody, SetChild
<1>3. session'[d] = session[d]
  BY <1>2 DEF MoneyInv, TypeOK
<1> QED BY <1>1, <1>3 DEF Untouched

\* No step does.
LEMMA StepLeavesClosed ==
  ASSUME MoneyInv, FenceInv, [Next]_vars, NEW d \in Cycles, cycle[d].state = "Closed"
  PROVE  Untouched(d)
<1>1. CASE UNCHANGED vars
  BY <1>1 DEF vars, Untouched
<1>2. CASE Next
  BY <1>2, CycleLeavesClosed, OfficeLeavesClosed, WorkLeavesClosed, BudgetLeavesClosed,
     CancellationLeavesClosed, ChildLeavesClosed DEF Next
<1> QED BY <1>1, <1>2

\* A child receipt moves its child as the custody ledger promises, authorises
\* it only in a Running cycle and leaves the other children alone.
LEMMA ChildMoves ==
  ASSUME MoneyInv, NEW k \in Children, NextChild(k)
  PROVE  /\ UNCHANGED cycle
         /\ \A x \in Children : x # k => child'[x] = child[x]
         /\ \/ /\ child[k].state = "None" /\ child'[k].state = "Admitted"
               /\ child'[k].cycle \in Cycles
            \/ /\ child'[k].cycle = child[k].cycle
               /\ <<child[k].state, child'[k].state>> \in
                      {"Admitted"} \X {"Spawned", "Invalidated"}
                      \cup {<<"Spawned", "Created">>, <<"Created", "Running">>}
                      \cup {"Spawned", "Created", "Running"}
                               \X {"Ending", "LostParentage", "ContainmentFailed"}
                      \cup {"Ending"} \X {"LostParentage", "ContainmentFailed", "Finalized"}
               /\ child'[k].state = "Created" => cycle[child[k].cycle].state = "Running"
<1>1. TypeOK
  BY DEF MoneyInv
<1>2. ASSUME NEW state, SetChild(k, state)
      PROVE  /\ UNCHANGED cycle
             /\ \A x \in Children : x # k => child'[x] = child[x]
             /\ child'[k].cycle = child[k].cycle /\ child'[k].state = state
  BY <1>1, <1>2 DEF SetChild, TypeOK, ChildRows
<1>3. ASSUME NEW c \in Cycles, NEW r \in Reservations, NEW owner \in {"Session", "Qualification"},
             AdmitPiChildSpawn(k, c, r, owner)
      PROVE  /\ UNCHANGED cycle
             /\ \A x \in Children : x # k => child'[x] = child[x]
             /\ child[k].state = "None" /\ child'[k].state = "Admitted"
             /\ child'[k].cycle \in Cycles
  BY <1>1, <1>3 DEF AdmitPiChildSpawn, TypeOK
<1>4. CASE RecordInertChildSpawn(k)
  BY <1>2, <1>4 DEF RecordInertChildSpawn
<1>5. CASE RecordNativeChildNotSpawned(k)
  BY <1>2, <1>5 DEF RecordNativeChildNotSpawned
<1>6. CASE AuthorizePiCreateSession(k)
  BY <1>2, <1>6 DEF AuthorizePiCreateSession
<1>7. CASE RecordPiSessionReady(k)
  BY <1>2, <1>7 DEF RecordPiSessionReady
<1>8. ASSUME NEW state \in {"Ending", "LostParentage", "ContainmentFailed", "Finalized"},
             RecordChildCustody(k, state)
      PROVE  /\ UNCHANGED cycle
             /\ \A x \in Children : x # k => child'[x] = child[x]
             /\ child'[k].cycle = child[k].cycle
             /\ \/ /\ child[k].state \in {"Spawned", "Created", "Running"}
                   /\ child'[k].state \in {"Ending", "LostParentage", "ContainmentFailed"}
                \/ /\ child[k].state = "Ending"
                   /\ child'[k].state \in {"LostParentage", "ContainmentFailed", "Finalized"}
  BY <1>2, <1>8 DEF RecordChildCustody
<1> QED BY <1>3, <1>4, <1>5, <1>6, <1>7, <1>8 DEF NextChild

\* A freeze never closes a cycle.
LEMMA FreezeMoves ==
  ASSUME NEW r, NEW cause, NEW observed, Freeze(r, cause, observed)
  PROVE  \E d, generation, state : state # "Closed" /\ TransitionCycle(d, state, generation)
<1>1. TransitionCycle(reservation[r].cycle, "Cancelling", cycle[reservation[r].cycle].generation + 1)
  BY DEF Freeze
<1> QED BY <1>1

\* Every other step leaves the children alone, and only CloseOperatingCycle
\* closes a cycle, which then has no live child.
LEMMA OtherMoves ==
  ASSUME MoneyInv, [Next]_vars, ~\E k \in Children : NextChild(k)
  PROVE  /\ UNCHANGED child
         /\ \A c \in Cycles :
               cycle'[c].state = "Closed" => cycle[c].state = "Closed" \/ LiveChildren(c) = {}
<1>1. TypeOK
  BY DEF MoneyInv
<1> DEFINE Quietly == \/ UNCHANGED cycle
                      \/ \E d, generation, state : /\ state # "Closed"
                                                   /\ TransitionCycle(d, state, generation)
<1>2. ASSUME Quietly, NEW c \in Cycles, cycle'[c].state = "Closed" PROVE cycle[c].state = "Closed"
  BY <1>1, <1>2 DEF TransitionCycle, TypeOK, CycleRows
<1>3. CASE UNCHANGED vars
  BY <1>3 DEF vars
<1>4. ASSUME NEW d \in Cycles, NextCycle(d)
      PROVE  /\ UNCHANGED child
             /\ \A c \in Cycles :
                   cycle'[c].state = "Closed" => cycle[c].state = "Closed" \/ LiveChildren(c) = {}
  <2>1. ASSUME NEW treatment, NEW ceiling, ProposeOperatingCycle(d, treatment, ceiling)
        PROVE  \A c \in Cycles : cycle'[c].state = "Closed" => cycle[c].state = "Closed"
    BY <1>1, <2>1 DEF ProposeOperatingCycle, TypeOK, NoCycle
  <2>2. CASE ReconcileOperatingCycle(d)
    <3>1. \A c \in Cycles : cycle'[c].state = "Closed" => cycle[c].state = "Closed"
      BY <1>1, <2>2 DEF ReconcileOperatingCycle, TypeOK, CycleRows
    <3> QED BY <2>2, <3>1 DEF ReconcileOperatingCycle
  <2>3. CASE CloseOperatingCycle(d)
    <3>1. /\ LiveChildren(d) = {} /\ UNCHANGED child
          /\ TransitionCycle(d, "Closed", cycle[d].generation)
      BY <2>3 DEF CloseOperatingCycle, OwnedWorkDrained
    <3>2. \A c \in Cycles : c # d => cycle'[c] = cycle[c]
      BY <1>1, <3>1 DEF TransitionCycle, TypeOK
    <3> QED BY <3>1, <3>2
  <2>4. CASE \/ AdmitOperatingCycle(d) \/ StartRootAuthorityOfficeSession(d)
             \/ StartNativeExecutionProfileQualification(d) \/ QuiesceOperatingCycle(d)
             \/ RecordCycleDrained(d) \/ ResumeOperatingCycle(d)
    <3>1. UNCHANGED child /\ \E generation, state : /\ state # "Closed"
                                                    /\ TransitionCycle(d, state, generation)
      BY <2>4 DEF AdmitOperatingCycle, StartRootAuthorityOfficeSession,
                  StartNativeExecutionProfileQualification, QuiesceOperatingCycle,
                  RecordCycleDrained, ResumeOperatingCycle
    <3> QED BY <1>2, <3>1
  <2>5. CASE \E treatment \in Treatments, ceiling \in Ceilings :
                ProposeOperatingCycle(d, treatment, ceiling)
    BY <2>1, <2>5 DEF ProposeOperatingCycle
  <2> QED BY <1>4, <2>2, <2>3, <2>4, <2>5 DEF NextCycle
<1>5. CASE \E d \in Cycles : NextOffice(d)
  <2>1. UNCHANGED child
    BY <1>5, ZenonT(40) DEF NextOffice, RecordOfficeSessionReady, RecordOfficeSessionTerminal, OpenOfficeTurn,
           AuthorizePiOfficeTurnPrompt, SettleOfficeTurn, RecordPiOfficeTurnUsageFailure,
           AuthorizePiOfficeSessionDispose, RecordPiOfficeSessionDisposed,
           RecordPiOfficeSessionDisposeUsageFailure
  <2>2. UNCHANGED cycle \/ \E r, cause, observed : Freeze(r, cause, observed)
    <3> PICK d \in Cycles : NextOffice(d)
      BY <1>5
    <3>1. ASSUME NEW observed, SettleOfficeTurn(d, observed)
          PROVE  UNCHANGED cycle \/ Freeze(session[d].reservation, "KnownOverrun", observed)
      BY <3>1 DEF SettleOfficeTurn
    <3>2. ASSUME NEW observed, RecordPiOfficeSessionDisposed(d, observed)
          PROVE  UNCHANGED cycle \/ Freeze(session[d].reservation, "KnownOverrun", observed)
      BY <3>2 DEF RecordPiOfficeSessionDisposed, SettleKnown
    <3>3. ASSUME RecordPiOfficeTurnUsageFailure(d) \/ RecordPiOfficeSessionDisposeUsageFailure(d)
          PROVE  Freeze(session[d].reservation, "UnknownCost", 0)
      BY <3>3 DEF RecordPiOfficeTurnUsageFailure, RecordPiOfficeSessionDisposeUsageFailure
    <3>4. ASSUME \/ RecordOfficeSessionReady(d) \/ AuthorizePiOfficeTurnPrompt(d)
                 \/ AuthorizePiOfficeSessionDispose(d)
                 \/ \E terminal : RecordOfficeSessionTerminal(d, terminal)
                 \/ \E purpose : OpenOfficeTurn(d, purpose)
          PROVE  UNCHANGED cycle
      BY <3>4 DEF RecordOfficeSessionReady, RecordOfficeSessionTerminal, OpenOfficeTurn,
                  AuthorizePiOfficeTurnPrompt, AuthorizePiOfficeSessionDispose
    <3> QED BY <3>1, <3>2, <3>3, <3>4 DEF NextOffice
  <2> QED BY <1>2, <2>1, <2>2, FreezeMoves
<1>6. CASE \E d \in Cycles : NextWork(d)
  BY <1>6 DEF NextWork, ClaimWorkItem, StartActorAttempt, AttestActorAttemptTerminal,
              ExpireWorkLease
<1>7. CASE \E r \in Reservations : NextBudget(r)
  <2>1. UNCHANGED child
    BY <1>7 DEF NextBudget, ReserveBudget, ReconcileKnownBudget, ReconcileUnknownBudget,
                CloseCostPostmortem
  <2>2. UNCHANGED cycle \/ \E x, cause, observed : Freeze(x, cause, observed)
    BY <1>7 DEF NextBudget, ReserveBudget, ReconcileKnownBudget, ReconcileUnknownBudget,
                CloseCostPostmortem, SettleKnown
  <2> QED BY <1>2, <2>1, <2>2, FreezeMoves
<1>8. CASE \E q \in Requests : NextCancellation(q)
  <2>1. UNCHANGED child /\ Quietly
    BY <1>8 DEF NextCancellation, RequestCancellation, BeginCancellationPropagation,
                ReconcileCancellationPropagation, ReconcileCancellation
  <2> QED BY <1>2, <2>1
<1> QED BY <1>3, <1>4, <1>5, <1>6, <1>7, <1>8 DEF Next

\* No step makes a child of a closed cycle work: closing waits for the live
\* ones, and one that is recorded later is not authorised any more.
LEMMA InertInductive ==
  MoneyInv /\ FenceInv /\ ClosedChildrenInert /\ [Next]_vars => ClosedChildrenInert'
<1> SUFFICES ASSUME MoneyInv, FenceInv, ClosedChildrenInert, [Next]_vars PROVE ClosedChildrenInert'
  OBVIOUS
<1>1. \A k \in Children : child[k].cycle \in Cycles \cup {None}
  BY FenceTypes
<1>2. CASE ~\E k \in Children : NextChild(k)
  <2> SUFFICES ASSUME NEW k \in Children, child'[k].cycle # None,
                      cycle'[child'[k].cycle].state = "Closed"
               PROVE  child'[k].state \notin {"Created", "Running"}
    BY DEF ClosedChildrenInert
  <2>1. child' = child /\ child[k].cycle \in Cycles
    BY <1>1, <1>2, OtherMoves
  <2>2. cycle[child[k].cycle].state = "Closed" \/ LiveChildren(child[k].cycle) = {}
    BY <1>2, <2>1, OtherMoves
  <2>3. LiveChildren(child[k].cycle) = {} => child[k].state \notin {"Created", "Running"}
    BY DEF LiveChildren, SpawnedChildren, IsSpawned
  <2> QED BY <2>1, <2>2, <2>3 DEF ClosedChildrenInert
<1>3. ASSUME NEW k \in Children, NextChild(k) PROVE ClosedChildrenInert'
  <2>1. /\ UNCHANGED cycle
        /\ \A x \in Children : x # k => child'[x] = child[x]
    BY <1>3, ChildMoves
  <2>2. child'[k].cycle # None /\ cycle[child'[k].cycle].state = "Closed" =>
            child'[k].state \notin {"Created", "Running"}
    BY <1>1, <1>3, ChildMoves, ZenonT(40) DEF ClosedChildrenInert
  <2> QED BY <2>1, <2>2 DEF ClosedChildrenInert
<1> QED BY <1>2, <1>3

\* Every reachable state satisfies the three invariants.
THEOREM InertInvariant == Spec => [](MoneyInv /\ FenceInv /\ ClosedChildrenInert)
<1>1. Init => ClosedChildrenInert
  BY DEF Init, NoChild, ClosedChildrenInert
<1>2. ClosedChildrenInert /\ (MoneyInv /\ FenceInv) /\ [Next]_vars => ClosedChildrenInert'
  BY InertInductive
<1> QED BY <1>1, <1>2, FenceInvariant, PTL DEF Spec

\* No step changes a closed cycle, whatever it is a receipt for.
THEOREM ClosedCyclesAreFinal == Spec => ClosedIsFinal
<1>1. ASSUME MoneyInv, FenceInv, ClosedChildrenInert, ClosedChildrenInert', [Next]_vars,
             NEW c \in Cycles, cycle[c].state = "Closed"
      PROVE  /\ cycle'[c] = cycle[c] /\ envelope'[c] = envelope[c]
             /\ session'[c] = session[c] /\ work'[c] = work[c]
             /\ ChargedTo(c)' = ChargedTo(c)
             /\ \A r \in ChargedTo(c) : reservation'[r] = reservation[r]
             /\ \A k \in Children :
                    child'[k].cycle = c => child'[k].state \notin {"Created", "Running"}
  <2>1. Untouched(c) /\ c # None /\ c # Society
    BY <1>1, StepLeavesClosed, NoneAssumption, SocietyAssumption
  <2>2. /\ \A r \in ChargedTo(c) : reservation'[r] = reservation[r]
        /\ \A r \in Reservations : r \in ChargedTo(c)' <=> r \in ChargedTo(c)
    BY <2>1 DEF Untouched, ChargedTo
  <2>3. ChargedTo(c)' = ChargedTo(c)
    BY <2>2 DEF ChargedTo
  <2> QED BY <1>1, <2>1, <2>2, <2>3 DEF Untouched, ClosedChildrenInert
<1> DEFINE Inv == MoneyInv /\ FenceInv /\ ClosedChildrenInert
<1>2. Inv /\ Inv' /\ [Next]_vars =>
        [\A c \in Cycles :
            cycle[c].state = "Closed" =>
              /\ cycle'[c] = cycle[c] /\ envelope'[c] = envelope[c]
              /\ session'[c] = session[c] /\ work'[c] = work[c]
              /\ ChargedTo(c)' = ChargedTo(c)
              /\ \A r \in ChargedTo(c) : reservation'[r] = reservation[r]
              /\ \A k \in Children :
                     child'[k].cycle = c => child'[k].state \notin {"Created", "Running"}]_vars
  BY <1>1
<1>3. Spec => []Inv
  BY InertInvariant
<1> HIDE DEF Inv
<1> QED BY <1>2, <1>3, PTL DEF Spec, ClosedIsFinal

-----------------------------------------------------------------------------
(* The children follow the custody lifecycle.                              *)

\* Every step of the cycle is a step of the lifecycle of a child, or leaves it
\* alone.
THEOREM ChildrenImplementCustody == Spec => ChildrenFollowCustody
<1> DEFINE life == [k \in Children |-> child[k].state]
<1>1. Init => Custody!Init
  BY DEF Init, NoChild, Custody!Init
<1>2. MoneyInv /\ [Next]_vars => [Custody!Next]_life
  <2> SUFFICES ASSUME MoneyInv, [Next]_vars PROVE [Custody!Next]_life
    OBVIOUS
  <2>1. CASE ~\E k \in Children : NextChild(k)
    BY <2>1, OtherMoves
  <2>2. ASSUME NEW k \in Children, NextChild(k) PROVE Custody!Advance(k)
    <3>1. \A x \in Children : x # k => child'[x] = child[x]
      BY <2>2, ChildMoves
    <3>2. child'[k].state \in Custody!Successors[child[k].state]
      <4>1. CASE child[k].state = "None" /\ child'[k].state = "Admitted"
        BY <4>1 DEF Custody!Successors
      <4>2. CASE child[k].state = "Admitted" /\ child'[k].state \in {"Spawned", "Invalidated"}
        BY <4>2 DEF Custody!Successors
      <4>3. CASE /\ child[k].state = "Spawned"
                 /\ child'[k].state \in {"Created", "Ending", "LostParentage", "ContainmentFailed"}
        BY <4>3 DEF Custody!Successors
      <4>4. CASE /\ child[k].state = "Created"
                 /\ child'[k].state \in {"Running", "Ending", "LostParentage", "ContainmentFailed"}
        BY <4>4 DEF Custody!Successors
      <4>5. CASE /\ child[k].state = "Running"
                 /\ child'[k].state \in {"Ending", "LostParentage", "ContainmentFailed"}
        BY <4>5 DEF Custody!Successors
      <4>6. CASE /\ child[k].state = "Ending"
                 /\ child'[k].state \in {"LostParentage", "ContainmentFailed", "Finalized"}
        BY <4>6 DEF Custody!Successors
      <4> QED BY <2>2, <4>1, <4>2, <4>3, <4>4, <4>5, <4>6, ChildMoves
    <3>3. life' = [life EXCEPT ![k] = child'[k].state] /\ life[k] = child[k].state
      BY <3>1
    <3> QED BY <3>2, <3>3 DEF Custody!Advance
  <2> QED BY <2>1, <2>2 DEF Custody!Next
<1> QED BY <1>1, <1>2, MoneyInvariant, PTL DEF Spec, ChildrenFollowCustody, Custody!Spec

=============================================================================
