------------------------- MODULE OperatingCycleMoney -------------------------
(***************************************************************************)
(* The money of OperatingCycle, proved for every set of cycles,            *)
(* reservations, requests and children, every ceiling and every amount.    *)
(*                                                                         *)
(* MoneyInv is inductive: rows are linked, a reservation holds exactly     *)
(* what is left of its amount, its Postmortem says the same, and no        *)
(* ceiling is passed. A step touches money through a handful of effects    *)
(* only (Freeze, SettleKnown, InsertReservation and three more), so each   *)
(* effect has one lemma that concludes Kept, and each action cites the     *)
(* lemma of its effect.                                                    *)
(*                                                                         *)
(* On top of it AccountInv: the counters of an envelope are sums over its  *)
(* reservations (EnvelopeAccounting). What a sum does when one summand     *)
(* changes is proved by induction over the set. CostIsFinal, a property of *)
(* steps, follows from MoneyInv.                                           *)
(***************************************************************************)
EXTENDS OperatingCycle, FiniteSetTheorems, WellFoundedInduction, TLAPS

\* What a step establishes about cycles, money and cancellations.
Kept ==
    /\ cycle' \in [Cycles -> CycleRows]
    /\ envelope' \in [Envelopes -> EnvelopeRows]
    /\ reservation' \in [Reservations -> ReservationRows]
    /\ cancellation' \in [Requests -> CancellationRows]
    /\ postmortem' \in [Reservations -> PostmortemRows]
    /\ ReservationHold' /\ PostmortemMatches'
    /\ ResolvedCostIsCharged' /\ CeilingHeld'
    /\ \A x \in Reservations :
          /\ reservation'[x].state # "None" =>
                 /\ reservation'[x].cycle \in Cycles
                 /\ cycle'[reservation'[x].cycle].state # "None"
          /\ reservation'[x].state = "None" => postmortem'[x].state = "None"
          /\ reservation[x].state # "None" =>
                 /\ reservation'[x].state # "None"
                 /\ reservation'[x].cycle = reservation[x].cycle
    /\ \A q \in Requests :
          cancellation'[q].state # "None" => cancellation'[q].cycle \in Cycles
    /\ \A c \in Cycles : cycle[c].state # "None" => cycle'[c].state # "None"

\* What a step establishes about sessions, work and children.
OwnersKept ==
    /\ session' \in [Cycles -> SessionRows]
    /\ work' \in [Cycles -> WorkStates]
    /\ child' \in [Children -> ChildRows]
    /\ \A c \in Cycles :
          /\ session'[c].state \in {"Ready", "TurnActive", "Quiescing"} =>
                 session'[c].child # None
          /\ session'[c].child # None => session'[c].reservation # None
          /\ session'[c].reservation # None =>
                 /\ reservation'[session'[c].reservation].state # "None"
                 /\ reservation'[session'[c].reservation].cycle = c
    /\ \A k \in Children :
          child'[k].cycle # None => cycle'[child'[k].cycle].state # "None"

\* The two halves of a step make up MoneyInv.
LEMMA KeptMoney == Kept /\ OwnersKept => MoneyInv'
  BY DEF Kept, OwnersKept, MoneyInv, TypeOK, RowsLinked

-----------------------------------------------------------------------------
(* The effects on money.                                                   *)

\* A step that leaves envelopes, reservations and Postmortems alone and deletes
\* no cycle keeps the money invariant.
LEMMA MoneyUntouched ==
  ASSUME MoneyInv, UNCHANGED <<envelope, reservation, postmortem>>,
         cycle' \in [Cycles -> CycleRows],
         cancellation' \in [Requests -> CancellationRows],
         \A c \in Cycles : cycle[c].state # "None" => cycle'[c].state # "None",
         \A q \in Requests :
             cancellation'[q].state # "None" => cancellation'[q].cycle \in Cycles
  PROVE  Kept
<1>1. ReservationHold' /\ PostmortemMatches' /\ ResolvedCostIsCharged'
  BY DEF MoneyInv, ReservationHold, PostmortemMatches, ResolvedCostIsCharged
<1>2. CeilingHeld'
  BY DEF MoneyInv, CeilingHeld, Overran, ChargedTo
<1> QED BY <1>1, <1>2 DEF Kept, MoneyInv, TypeOK, RowsLinked

\* Every freeze keeps the money invariant: nothing is charged, and the open
\* Postmortem records exactly what the reservation still holds.
LEMMA FreezeKeeps ==
  ASSUME MoneyInv, NEW r \in Reservations, reservation[r].state = "Reserved",
         NEW cause \in {"KnownOverrun", "UnknownCost"}, NEW observed \in Nat,
         cause = "KnownOverrun" => observed > reservation[r].amount,
         Freeze(r, cause, observed)
  PROVE  Kept
<1> DEFINE c == reservation[r].cycle
           left == reservation[r].amount - reservation[r].charged
<1>1. c \in Cycles /\ cycle[c].state # "None" /\ TypeOK
  BY DEF MoneyInv, RowsLinked
<1>2. left \in Nat
  BY <1>1 DEF MoneyInv, ReservationHold, TypeOK, ReservationRows
<1>3. cycle' \in [Cycles -> CycleRows]
  BY <1>1 DEF Freeze, TransitionCycle, TypeOK, CycleRows, CycleStates
<1>4. cycle' = [cycle EXCEPT ![c].state = "Cancelling",
                            ![c].generation = cycle[c].generation + 1]
  BY DEF Freeze, TransitionCycle
<1>5. \A d \in Cycles : cycle[d].state # "None" => cycle'[d].state # "None"
  BY <1>1, <1>4 DEF TypeOK, CycleRows
<1>6. reservation' = [reservation EXCEPT ![r].state = "Frozen"]
  BY DEF Freeze
<1>7. postmortem' = [postmortem EXCEPT ![r] =
                       [state |-> "Open", cause |-> cause, observed |-> observed,
                        reserved |-> left]]
  BY DEF Freeze
<1>8. reservation' \in [Reservations -> ReservationRows]
  BY <1>1, <1>6 DEF TypeOK, ReservationRows
<1>9. postmortem' \in [Reservations -> PostmortemRows]
  BY <1>1, <1>2, <1>7 DEF TypeOK, PostmortemRows
<1>10. \/ cancellation' = cancellation
       \/ \E q \in Requests :
            cancellation' = [cancellation EXCEPT ![q] =
                               [state |-> "Accepted", cycle |-> c,
                                propagation |-> "None", targetsSession |-> FALSE]]
  BY DEF Freeze, InsertCancellation
<1>11. /\ cancellation' \in [Requests -> CancellationRows]
       /\ \A q \in Requests :
            cancellation'[q].state # "None" => cancellation'[q].cycle \in Cycles
  <2>1. CASE cancellation' = cancellation
    BY <1>1, <2>1 DEF TypeOK, MoneyInv, RowsLinked
  <2>2. ASSUME NEW q \in Requests,
               cancellation' = [cancellation EXCEPT ![q] =
                                  [state |-> "Accepted", cycle |-> c,
                                   propagation |-> "None", targetsSession |-> FALSE]]
        PROVE  <1>11!1 /\ <1>11!2
    <3>1. [state |-> "Accepted", cycle |-> c, propagation |-> "None",
           targetsSession |-> FALSE] \in CancellationRows
      BY <1>1 DEF CancellationRows
    <3>2. cancellation' \in [Requests -> CancellationRows]
      BY <1>1, <2>2, <3>1 DEF TypeOK
    <3> QED BY <1>1, <2>2, <3>2 DEF TypeOK, MoneyInv, RowsLinked
  <2> QED BY <1>10, <2>1, <2>2
<1>12. envelope' = envelope /\ envelope' \in [Envelopes -> EnvelopeRows]
  BY <1>1 DEF Freeze, TypeOK
<1>13. \A x \in Reservations :
          /\ reservation'[x].cycle = reservation[x].cycle
          /\ reservation'[x].amount = reservation[x].amount
          /\ reservation'[x].charged = reservation[x].charged
          /\ reservation'[x].held = reservation[x].held
          /\ reservation'[x].state = IF x = r THEN "Frozen" ELSE reservation[x].state
  BY <1>1, <1>6 DEF TypeOK, ReservationRows
<1>14. \A x \in Reservations :
          postmortem'[x] = IF x = r THEN [state |-> "Open", cause |-> cause,
                                          observed |-> observed, reserved |-> left]
                                    ELSE postmortem[x]
  BY <1>1, <1>7 DEF TypeOK
<1>15. ReservationHold'
  BY <1>13 DEF MoneyInv, ReservationHold
<1>16. PostmortemMatches'
  BY <1>13, <1>14 DEF MoneyInv, PostmortemMatches
<1>17. ResolvedCostIsCharged'
  BY <1>13, <1>14 DEF MoneyInv, ResolvedCostIsCharged
<1>18. CeilingHeld'
  BY <1>12, <1>13 DEF MoneyInv, CeilingHeld, Overran, ChargedTo
<1>19. \A x \in Reservations :
          /\ reservation'[x].state # "None" =>
                 /\ reservation'[x].cycle \in Cycles
                 /\ cycle'[reservation'[x].cycle].state # "None"
          /\ reservation'[x].state = "None" => postmortem'[x].state = "None"
          /\ reservation[x].state # "None" =>
                 /\ reservation'[x].state # "None"
                 /\ reservation'[x].cycle = reservation[x].cycle
  BY <1>5, <1>13, <1>14 DEF MoneyInv, RowsLinked
<1> QED BY <1>3, <1>5, <1>8, <1>9, <1>11, <1>12, <1>15, <1>16, <1>17, <1>18, <1>19
        DEF Kept

\* What Charge does to each envelope.
LEMMA ChargeEffect ==
  ASSUME TypeOK, NEW c \in Cycles, NEW released \in Int, NEW delta \in Nat,
         Charge(c, released, delta)
  PROVE  /\ envelope' \in [Envelopes -> EnvelopeRows]
         /\ \A e \in Envelopes :
              /\ envelope'[e].ceiling = envelope[e].ceiling
              /\ e \in {Society, c} =>
                     /\ envelope'[e].reserved = envelope[e].reserved - released
                     /\ envelope'[e].spent = envelope[e].spent + delta
              /\ e \notin {Society, c} => envelope'[e] = envelope[e]
<1>1. \A e \in Envelopes :
        /\ envelope[e].ceiling \in Nat
        /\ envelope[e].reserved - released \in Int
        /\ envelope[e].spent + delta \in Nat
  BY DEF TypeOK, EnvelopeRows
<1>2. envelope' \in [Envelopes -> EnvelopeRows]
  BY <1>1 DEF Charge, TypeOK, EnvelopeRows
<1> QED BY <1>2 DEF Charge

\* Settling a reservation passes no ceiling: it releases at least what it
\* spends, or the reservation has overrun its amount.
LEMMA SettlementCeiling ==
  ASSUME MoneyInv, NEW r \in Reservations,
         reservation[r].state \in {"Reserved", "Frozen"},
         NEW released \in Nat, NEW delta \in Nat,
         Charge(reservation[r].cycle, released, delta),
         \A x \in Reservations : x # r => reservation'[x] = reservation[x],
         reservation'[r].state # "None",
         reservation'[r].cycle = reservation[r].cycle,
         delta <= released \/ reservation'[r].charged > reservation'[r].amount
  PROVE  CeilingHeld' /\ envelope' \in [Envelopes -> EnvelopeRows]
<1> DEFINE c == reservation[r].cycle
<1>1. c \in Cycles /\ TypeOK
  BY DEF MoneyInv, RowsLinked
<1>2. /\ envelope' \in [Envelopes -> EnvelopeRows]
      /\ \A e \in Envelopes :
           /\ envelope'[e].ceiling = envelope[e].ceiling
           /\ e \in {Society, c} =>
                  /\ envelope'[e].reserved = envelope[e].reserved - released
                  /\ envelope'[e].spent = envelope[e].spent + delta
           /\ e \notin {Society, c} => envelope'[e] = envelope[e]
  <2>1. released \in Int /\ Charge(c, released, delta)
    OBVIOUS
  <2> HIDE DEF c
  <2> QED BY <1>1, <2>1, ChargeEffect
<1>3. ASSUME NEW e \in Envelopes
      PROVE  /\ envelope'[e].reserved <= envelope'[e].ceiling
             /\ ~Overran(e)' => envelope'[e].reserved + envelope'[e].spent <= envelope'[e].ceiling
  <2>1. /\ envelope[e].reserved \in Int /\ envelope[e].spent \in Nat
        /\ envelope[e].ceiling \in Nat
        /\ reservation[r].charged <= reservation[r].amount
    BY <1>1 DEF TypeOK, EnvelopeRows, MoneyInv, ReservationHold
  <2>2. /\ envelope[e].reserved <= envelope[e].ceiling
        /\ ~Overran(e) => envelope[e].reserved + envelope[e].spent <= envelope[e].ceiling
    BY DEF MoneyInv, CeilingHeld
  <2>3. ~Overran(e)' => ~Overran(e)
    BY <2>1, <1>1 DEF Overran, ChargedTo, TypeOK, ReservationRows
  <2>4. e \in {Society, c} /\ ~Overran(e)' => reservation'[r].charged <= reservation'[r].amount \/ delta <= released
    BY <1>1, <2>1 DEF Overran, ChargedTo
  <2>5. e \in {Society, c} /\ ~Overran(e)' => ~(reservation'[r].charged > reservation'[r].amount)
    BY <1>1 DEF Overran, ChargedTo
  <2>6. CASE e \in {Society, c}
    BY <1>2, <2>1, <2>2, <2>3, <2>5, <2>6
  <2>7. CASE e \notin {Society, c}
    BY <1>2, <2>2, <2>3, <2>7
  <2> QED BY <2>6, <2>7
<1>4. CeilingHeld'
  BY <1>3 DEF CeilingHeld, Envelopes
<1> QED BY <1>2, <1>4

\* Settling at a known cost within the amount keeps the money invariant.
LEMMA SettleKnownKeeps ==
  ASSUME MoneyInv, NEW r \in Reservations, reservation[r].state = "Reserved",
         NEW observed \in Nat, NEW left \in Nat,
         observed >= reservation[r].charged, observed <= reservation[r].amount,
         SettleKnown(r, observed, left)
  PROVE  Kept
<1> DEFINE delta == observed - reservation[r].charged
<1>1. reservation[r].cycle \in Cycles /\ TypeOK
  BY DEF MoneyInv, RowsLinked
<1>2. /\ reservation[r].held \in Nat /\ delta \in Nat /\ delta <= reservation[r].held
  BY <1>1 DEF MoneyInv, ReservationHold, TypeOK, ReservationRows
<1>3. reservation' = [reservation EXCEPT ![r].state = "Reconciled",
                                         ![r].charged = observed, ![r].held = left]
  BY DEF SettleKnown
<1>4. /\ reservation' \in [Reservations -> ReservationRows]
      /\ \A x \in Reservations : x # r => reservation'[x] = reservation[x]
      /\ reservation'[r].state = "Reconciled"
      /\ reservation'[r].cycle = reservation[r].cycle
  BY <1>1, <1>3, ZenonT(40) DEF TypeOK, ReservationRows
<1>5. UNCHANGED <<cycle, cancellation, postmortem>>
  BY DEF SettleKnown
<1>6. CeilingHeld' /\ envelope' \in [Envelopes -> EnvelopeRows]
  <2>1. Charge(reservation[r].cycle, reservation[r].held, delta)
    BY DEF SettleKnown
  <2> QED BY <1>2, <1>4, <2>1, SettlementCeiling
<1>7. ReservationHold' /\ PostmortemMatches' /\ ResolvedCostIsCharged'
  BY <1>4, <1>5 DEF MoneyInv, ReservationHold, PostmortemMatches, ResolvedCostIsCharged
<1> QED BY <1>1, <1>4, <1>5, <1>6, <1>7 DEF Kept, MoneyInv, TypeOK, RowsLinked

\* The incremental settlement of an Office turn keeps the money invariant.
LEMMA SettleTurnKeeps ==
  ASSUME MoneyInv, NEW r \in Reservations, reservation[r].state = "Reserved",
         NEW delta \in Nat, delta <= reservation[r].held,
         Charge(reservation[r].cycle, delta, delta),
         reservation' = [reservation EXCEPT ![r].charged = @ + delta, ![r].held = @ - delta],
         UNCHANGED <<cycle, cancellation, postmortem>>
  PROVE  Kept
<1>1. reservation[r].cycle \in Cycles /\ TypeOK
  BY DEF MoneyInv, RowsLinked
<1>2. /\ reservation[r].amount \in Nat
      /\ reservation[r].charged \in Nat
      /\ reservation[r].held = reservation[r].amount - reservation[r].charged
  BY <1>1 DEF MoneyInv, ReservationHold, TypeOK, ReservationRows
<1>3. /\ reservation' \in [Reservations -> ReservationRows]
      /\ \A x \in Reservations : x # r => reservation'[x] = reservation[x]
      /\ reservation'[r].state = "Reserved"
      /\ reservation'[r].cycle = reservation[r].cycle
      /\ reservation'[r].amount = reservation[r].amount
      /\ reservation'[r].charged = reservation[r].charged + delta
      /\ reservation'[r].held = reservation[r].held - delta
  <2> DEFINE row == [reservation[r] EXCEPT !.charged = @ + delta, !.held = @ - delta]
  <2>1. reservation[r] \in ReservationRows
    BY <1>1 DEF TypeOK
  <2>2. reservation[r].charged + delta \in Nat /\ reservation[r].held - delta \in Nat
    BY <1>2
  <2>3. /\ row \in ReservationRows /\ row.state = "Reserved"
        /\ row.cycle = reservation[r].cycle /\ row.amount = reservation[r].amount
        /\ row.charged = reservation[r].charged + delta
        /\ row.held = reservation[r].held - delta
    BY <2>1, <2>2 DEF ReservationRows
  <2>4. reservation' = [reservation EXCEPT ![r] = row]
    BY <1>1, <2>1 DEF TypeOK, ReservationRows
  <2> HIDE DEF row
  <2> QED BY <1>1, <2>3, <2>4 DEF TypeOK
<1>4. CeilingHeld' /\ envelope' \in [Envelopes -> EnvelopeRows]
  BY <1>3, SettlementCeiling
<1>5. ReservationHold'
  BY <1>2, <1>3 DEF MoneyInv, ReservationHold
<1>6. PostmortemMatches' /\ ResolvedCostIsCharged'
  BY <1>3 DEF MoneyInv, PostmortemMatches, ResolvedCostIsCharged
<1> QED BY <1>1, <1>3, <1>4, <1>5, <1>6 DEF Kept, MoneyInv, TypeOK, RowsLinked

\* Closing a Postmortem keeps the money invariant: it charges the whole
\* remainder, or the overrun that was observed.
LEMMA ClosePostmortemKeeps ==
  ASSUME MoneyInv, NEW r \in Reservations, CloseCostPostmortem(r)
  PROVE  Kept
<1> DEFINE charged == PostmortemCharge(r)
<1>1. /\ TypeOK /\ reservation[r].cycle \in Cycles
      /\ reservation[r].state = "Frozen" /\ postmortem[r].state = "Open"
  BY DEF MoneyInv, RowsLinked, CloseCostPostmortem
<1>2. /\ reservation[r].amount \in Nat /\ reservation[r].charged \in Nat
      /\ reservation[r].held \in Nat
      /\ reservation[r].held = reservation[r].amount - reservation[r].charged
      /\ postmortem[r].reserved = reservation[r].held
      /\ postmortem[r].observed \in Nat
      /\ postmortem[r].cause = "KnownOverrun" =>
             postmortem[r].observed > reservation[r].amount
  BY <1>1 DEF MoneyInv, ReservationHold, PostmortemMatches, TypeOK, ReservationRows,
              PostmortemRows
<1>3. /\ charged \in Nat
      /\ postmortem[r].cause = "KnownOverrun" =>
             reservation[r].charged + charged = postmortem[r].observed
      /\ postmortem[r].cause # "KnownOverrun" =>
             /\ reservation[r].charged + charged = reservation[r].amount
             /\ charged <= reservation[r].held
  BY <1>2 DEF PostmortemCharge
<1>4. /\ reservation' = [reservation EXCEPT ![r].state = "Reconciled", ![r].charged = @ + charged]
      /\ postmortem' = [postmortem EXCEPT ![r].state = "Closed"]
      /\ Charge(reservation[r].cycle, reservation[r].held, charged)
      /\ UNCHANGED <<cycle, cancellation>>
  BY DEF CloseCostPostmortem
<1> HIDE DEF charged
<1>5. /\ reservation' \in [Reservations -> ReservationRows]
      /\ \A x \in Reservations : x # r => reservation'[x] = reservation[x]
      /\ reservation'[r].state = "Reconciled"
      /\ reservation'[r].cycle = reservation[r].cycle
      /\ reservation'[r].amount = reservation[r].amount
      /\ reservation'[r].charged = reservation[r].charged + charged
  BY <1>1, <1>2, <1>3, <1>4 DEF TypeOK, ReservationRows
<1>6. /\ postmortem' \in [Reservations -> PostmortemRows]
      /\ \A x \in Reservations : x # r => postmortem'[x] = postmortem[x]
      /\ postmortem'[r].state = "Closed"
      /\ postmortem'[r].cause = postmortem[r].cause
      /\ postmortem'[r].observed = postmortem[r].observed
  BY <1>1, <1>4 DEF TypeOK, PostmortemRows
<1>7. charged <= reservation[r].held \/ reservation'[r].charged > reservation'[r].amount
  BY <1>2, <1>3, <1>5
<1>8. CeilingHeld' /\ envelope' \in [Envelopes -> EnvelopeRows]
  BY <1>1, <1>2, <1>3, <1>4, <1>5, <1>7, SettlementCeiling
<1>9. ReservationHold' /\ PostmortemMatches'
  BY <1>5, <1>6 DEF MoneyInv, ReservationHold, PostmortemMatches
<1>10. ResolvedCostIsCharged'
  BY <1>3, <1>5, <1>6 DEF MoneyInv, ResolvedCostIsCharged
<1> QED BY <1>1, <1>4, <1>5, <1>6, <1>8, <1>9, <1>10 DEF Kept, MoneyInv, TypeOK, RowsLinked

\* A new reservation keeps the money invariant: it was compared with what both
\* envelopes hold and have spent.
LEMMA InsertReservationKeeps ==
  ASSUME MoneyInv, NEW r \in Reservations, NEW c \in Cycles, NEW amount \in Nat,
         cycle[c].state # "None", InsertReservation(r, c, amount),
         UNCHANGED <<cycle, cancellation, postmortem>>
  PROVE  Kept
<1>1. TypeOK /\ reservation[r].state = "None" /\ postmortem[r].state = "None"
  BY DEF MoneyInv, RowsLinked, InsertReservation
<1>2. reservation' = [reservation EXCEPT ![r] =
                        [state |-> "Reserved", cycle |-> c, amount |-> amount,
                         charged |-> 0, held |-> amount]]
  BY DEF InsertReservation
<1>3. /\ reservation' \in [Reservations -> ReservationRows]
      /\ \A x \in Reservations : x # r => reservation'[x] = reservation[x]
      /\ reservation'[r] = [state |-> "Reserved", cycle |-> c, amount |-> amount,
                            charged |-> 0, held |-> amount]
  BY <1>1, <1>2 DEF TypeOK, ReservationRows
<1>4. /\ envelope' \in [Envelopes -> EnvelopeRows]
      /\ \A e \in Envelopes :
           /\ envelope'[e].ceiling = envelope[e].ceiling
           /\ e \in {Society, c} =>
                  /\ envelope'[e].reserved = envelope[e].reserved - (-amount)
                  /\ envelope'[e].spent = envelope[e].spent + 0
           /\ e \notin {Society, c} => envelope'[e] = envelope[e]
  <2>1. Charge(c, -amount, 0)
    BY DEF InsertReservation
  <2>2. -amount \in Int /\ 0 \in Nat
    OBVIOUS
  <2> QED BY <1>1, <2>1, <2>2, ChargeEffect
<1>5. CeilingHeld'
  <2>1. \A e \in {Society, c} :
           envelope[e].reserved + amount + envelope[e].spent <= envelope[e].ceiling
    BY DEF InsertReservation, Fits
  <2>2. ASSUME NEW e \in Envelopes
        PROVE  /\ envelope'[e].reserved <= envelope'[e].ceiling
               /\ ~Overran(e)' => envelope'[e].reserved + envelope'[e].spent <= envelope'[e].ceiling
    <3>1. /\ envelope[e].reserved \in Int /\ envelope[e].spent \in Nat
          /\ envelope[e].ceiling \in Nat
      BY <1>1 DEF TypeOK, EnvelopeRows
    <3>2. ~Overran(e)' => ~Overran(e)
      BY <1>1, <1>3 DEF Overran, ChargedTo
    <3>3. CASE e \in {Society, c}
      BY <1>4, <2>1, <3>1, <3>3
    <3>4. CASE e \notin {Society, c}
      BY <1>4, <3>2, <3>4 DEF MoneyInv, CeilingHeld
    <3> QED BY <3>3, <3>4
  <2> QED BY <2>2 DEF CeilingHeld, Envelopes
<1>6. ReservationHold' /\ PostmortemMatches' /\ ResolvedCostIsCharged'
  BY <1>1, <1>3 DEF MoneyInv, ReservationHold, PostmortemMatches, ResolvedCostIsCharged
<1> QED BY <1>1, <1>3, <1>4, <1>5, <1>6 DEF Kept, MoneyInv, TypeOK, RowsLinked

\* Proposing a cycle keeps the money invariant: its envelope is new, and no
\* reservation is charged to it.
LEMMA ProposeKeeps ==
  ASSUME MoneyInv, NEW c \in Cycles, NEW treatment \in Treatments, NEW ceiling \in Ceilings,
         ProposeOperatingCycle(c, treatment, ceiling)
  PROVE  Kept
<1>1. TypeOK /\ cycle[c].state = "None" /\ ceiling \in Nat
  BY MoneyAssumption DEF MoneyInv, ProposeOperatingCycle
<1>2. UNCHANGED <<reservation, cancellation, postmortem>>
  BY DEF ProposeOperatingCycle
<1>3. /\ cycle' \in [Cycles -> CycleRows]
      /\ \A d \in Cycles : d # c => cycle'[d] = cycle[d]
      /\ cycle'[c].state = "Proposed"
  BY <1>1, TreatmentAssumption DEF ProposeOperatingCycle, NoCycle, TypeOK, CycleRows, CycleStates
<1>4. /\ envelope' \in [Envelopes -> EnvelopeRows]
      /\ \A e \in Envelopes : e # c => envelope'[e] = envelope[e]
      /\ envelope'[c] = [ceiling |-> ceiling, reserved |-> 0, spent |-> 0]
  BY <1>1 DEF ProposeOperatingCycle, TypeOK, EnvelopeRows, Envelopes
<1>5. CeilingHeld'
  BY <1>1, <1>2, <1>4 DEF MoneyInv, CeilingHeld, Overran, ChargedTo
<1>6. ReservationHold' /\ PostmortemMatches' /\ ResolvedCostIsCharged'
  BY <1>2 DEF MoneyInv, ReservationHold, PostmortemMatches, ResolvedCostIsCharged
<1>7. \A d \in Cycles : cycle[d].state # "None" => cycle'[d].state # "None"
  BY <1>1, <1>3
<1>8. \A x \in Reservations :
          /\ reservation'[x].state # "None" =>
                 /\ reservation'[x].cycle \in Cycles
                 /\ cycle'[reservation'[x].cycle].state # "None"
          /\ reservation'[x].state = "None" => postmortem'[x].state = "None"
  BY <1>2, <1>7 DEF MoneyInv, RowsLinked
<1> QED BY <1>1, <1>2, <1>3, <1>4, <1>5, <1>6, <1>7, <1>8 DEF Kept, MoneyInv, TypeOK, RowsLinked

-----------------------------------------------------------------------------
(* Every step keeps MoneyInv.                                              *)

\* A lifecycle transition of a cycle keeps the type and deletes no cycle.
LEMMA TransitionEffect ==
  ASSUME TypeOK, NEW c \in Cycles, NEW state \in CycleStates \ {"None"},
         NEW generation \in Nat, TransitionCycle(c, state, generation)
  PROVE  /\ cycle' \in [Cycles -> CycleRows]
         /\ \A d \in Cycles : d # c => cycle'[d] = cycle[d]
         /\ cycle'[c].state = state /\ cycle'[c].generation = generation
         /\ cycle'[c].reconciling = cycle[c].reconciling
         /\ \A d \in Cycles : cycle[d].state # "None" => cycle'[d].state # "None"
  BY DEF TransitionCycle, TypeOK, CycleRows, CycleStates

\* A step that leaves sessions and children alone keeps their links.
LEMMA OwnersUntouched ==
  ASSUME MoneyInv, Kept, UNCHANGED <<session, child>>, work' \in [Cycles -> WorkStates]
  PROVE  OwnersKept
<1>1. TypeOK /\ RowsLinked
  BY DEF MoneyInv
<1>2. \A c \in Cycles : session[c].reservation \in Reservations \cup {None}
  BY <1>1 DEF TypeOK, SessionRows
<1>3. \A k \in Children : child[k].cycle \in Cycles \cup {None}
  BY <1>1 DEF TypeOK, ChildRows
<1> QED BY <1>1, <1>2, <1>3 DEF Kept, OwnersKept, TypeOK, RowsLinked

\* A step that only moves a cycle through its lifecycle keeps MoneyInv.
LEMMA LifecycleKeeps ==
  ASSUME MoneyInv, NEW c \in Cycles, NEW state \in CycleStates \ {"None"},
         NEW generation \in Nat, TransitionCycle(c, state, generation),
         UNCHANGED <<envelope, reservation, cancellation, postmortem, session, work, child>>
  PROVE  MoneyInv'
<1>1. TypeOK /\ RowsLinked
  BY DEF MoneyInv
<1>2. Kept
  BY <1>1, TransitionEffect, MoneyUntouched DEF TypeOK, RowsLinked
<1>3. OwnersKept
  BY <1>1, <1>2, OwnersUntouched DEF TypeOK
<1> QED BY <1>2, <1>3, KeptMoney

\* Each lifecycle command keeps MoneyInv.
LEMMA CycleKeeps ==
  ASSUME MoneyInv, NEW c \in Cycles, NextCycle(c)
  PROVE  MoneyInv'
<1>1. TypeOK /\ RowsLinked /\ cycle[c].generation \in Nat /\ cycle[c].generation + 1 \in Nat
  BY DEF MoneyInv, TypeOK, CycleRows
<1>2. ASSUME NEW treatment \in Treatments, NEW ceiling \in Ceilings,
             ProposeOperatingCycle(c, treatment, ceiling)
      PROVE  MoneyInv'
  <2>1. Kept
    BY <1>2, ProposeKeeps
  <2>2. OwnersKept
    BY <1>1, <1>2, <2>1, OwnersUntouched DEF ProposeOperatingCycle, TypeOK
  <2> QED BY <2>1, <2>2, KeptMoney
<1>3. CASE AdmitOperatingCycle(c)
  BY <1>1, <1>3, LifecycleKeeps DEF AdmitOperatingCycle, CycleStates
<1>4. CASE StartNativeExecutionProfileQualification(c)
  BY <1>1, <1>4, LifecycleKeeps DEF StartNativeExecutionProfileQualification, CycleStates
<1>5. CASE QuiesceOperatingCycle(c)
  BY <1>1, <1>5, LifecycleKeeps DEF QuiesceOperatingCycle, CycleStates
<1>6. CASE RecordCycleDrained(c)
  BY <1>1, <1>6, LifecycleKeeps DEF RecordCycleDrained, CycleStates
<1>7. CASE ResumeOperatingCycle(c)
  BY <1>1, <1>7, LifecycleKeeps DEF ResumeOperatingCycle, CycleStates
<1>8. CASE CloseOperatingCycle(c)
  BY <1>1, <1>8, LifecycleKeeps DEF CloseOperatingCycle, CycleStates
<1>9. CASE StartRootAuthorityOfficeSession(c)
  <2>1. Kept
    BY <1>1, <1>9, TransitionEffect, MoneyUntouched
       DEF StartRootAuthorityOfficeSession, CycleStates, TypeOK, RowsLinked
  <2>2. session' = [session EXCEPT ![c] = [NoSession EXCEPT !.state = "Reserved"]]
    BY <1>9 DEF StartRootAuthorityOfficeSession
  <2>3. /\ session' \in [Cycles -> SessionRows]
        /\ \A d \in Cycles : d # c => session'[d] = session[d]
        /\ session'[c].state = "Reserved" /\ session'[c].child = None
        /\ session'[c].reservation = None
    BY <1>1, <2>2 DEF TypeOK, SessionRows, SessionStates, NoSession, NoGeneration
  <2>4. OwnersKept
    BY <1>1, <1>9, <2>1, <2>3
       DEF StartRootAuthorityOfficeSession, OwnersKept, Kept, TypeOK, RowsLinked, SessionRows, ChildRows
  <2> QED BY <2>1, <2>4, KeptMoney
<1>10. CASE ReconcileOperatingCycle(c)
  <2>1. /\ cycle' \in [Cycles -> CycleRows]
        /\ \A d \in Cycles : cycle[d].state # "None" => cycle'[d].state # "None"
    BY <1>1, <1>10 DEF ReconcileOperatingCycle, TypeOK, CycleRows, CycleStates
  <2>2. Kept
    BY <1>1, <1>10, <2>1, MoneyUntouched DEF ReconcileOperatingCycle, TypeOK, RowsLinked
  <2>3. OwnersKept
    BY <1>1, <1>10, <2>2, OwnersUntouched DEF ReconcileOperatingCycle, TypeOK
  <2> QED BY <2>2, <2>3, KeptMoney
<1> QED BY <1>2, <1>3, <1>4, <1>5, <1>6, <1>7, <1>8, <1>9, <1>10 DEF NextCycle

\* Each budget command keeps MoneyInv.
LEMMA BudgetKeeps ==
  ASSUME MoneyInv, NEW r \in Reservations, NextBudget(r)
  PROVE  MoneyInv'
<1>1. TypeOK
  BY DEF MoneyInv
<1>2. ASSUME Kept, UNCHANGED <<session, work, child>> PROVE MoneyInv'
  BY <1>1, <1>2, OwnersUntouched, KeptMoney DEF TypeOK
<1>3. ASSUME NEW c \in Cycles, NEW amount \in Amounts, ReserveBudget(r, c, amount)
      PROVE  MoneyInv'
  BY <1>2, <1>3, InsertReservationKeeps, MoneyAssumption DEF ReserveBudget, AdmitsTaskWork
<1>4. ASSUME NEW observed \in Observations, ReconcileKnownBudget(r, observed)
      PROVE  MoneyInv'
  <2>1. /\ observed \in Nat /\ reservation[r].amount \in Nat /\ reservation[r].held \in Nat
        /\ reservation[r].state = "Reserved"
    BY <1>1, <1>4, MoneyAssumption DEF TypeOK, ReservationRows, ReconcileKnownBudget
  <2>2. CASE observed > reservation[r].amount
    BY <1>2, <1>4, <2>1, <2>2, FreezeKeeps DEF ReconcileKnownBudget
  <2>3. CASE ~(observed > reservation[r].amount)
    BY <1>2, <1>4, <2>1, <2>3, SettleKnownKeeps DEF ReconcileKnownBudget
  <2> QED BY <2>2, <2>3
<1>5. CASE ReconcileUnknownBudget(r)
  BY <1>2, <1>5, FreezeKeeps DEF ReconcileUnknownBudget
<1>6. CASE CloseCostPostmortem(r)
  BY <1>2, <1>6, ClosePostmortemKeeps DEF CloseCostPostmortem
<1> QED BY <1>3, <1>4, <1>5, <1>6 DEF NextBudget

\* A step of the cancellation machinery that leaves cycles alone keeps MoneyInv
\* when it keeps the requests' rows.
LEMMA CancellationRowKeeps ==
  ASSUME MoneyInv, cancellation' \in [Requests -> CancellationRows],
         \A p \in Requests : cancellation'[p].state # "None" => cancellation'[p].cycle \in Cycles,
         cycle' \in [Cycles -> CycleRows],
         \A c \in Cycles : cycle[c].state # "None" => cycle'[c].state # "None",
         UNCHANGED <<envelope, reservation, postmortem, session, work, child>>
  PROVE  MoneyInv'
<1>1. TypeOK
  BY DEF MoneyInv
<1>2. Kept
  BY MoneyUntouched
<1>3. OwnersKept
  BY <1>1, <1>2, OwnersUntouched DEF TypeOK
<1> QED BY <1>2, <1>3, KeptMoney

\* A new request has a row of its type and names a cycle.
LEMMA InsertCancellationEffect ==
  ASSUME MoneyInv, NEW q \in Requests, NEW c \in Cycles, InsertCancellation(q, c)
  PROVE  /\ cancellation' \in [Requests -> CancellationRows]
         /\ \A p \in Requests : p # q => cancellation'[p] = cancellation[p]
         /\ cancellation'[q] = [state |-> "Accepted", cycle |-> c,
                                propagation |-> "None", targetsSession |-> FALSE]
         /\ \A p \in Requests :
               cancellation'[p].state # "None" => cancellation'[p].cycle \in Cycles
<1> DEFINE row == [state |-> "Accepted", cycle |-> c, propagation |-> "None",
                   targetsSession |-> FALSE]
<1>1. row \in CancellationRows /\ row.cycle \in Cycles
  BY DEF CancellationRows
<1>2. cancellation' = [cancellation EXCEPT ![q] = row] /\ TypeOK
  BY DEF InsertCancellation, MoneyInv
<1> HIDE DEF row
<1>3. /\ cancellation' \in [Requests -> CancellationRows]
      /\ \A p \in Requests : p # q => cancellation'[p] = cancellation[p]
      /\ cancellation'[q] = row
  BY <1>1, <1>2 DEF TypeOK
<1>4. \A p \in Requests : cancellation'[p].state # "None" => cancellation'[p].cycle \in Cycles
  BY <1>1, <1>3 DEF MoneyInv, RowsLinked
<1> QED BY <1>3, <1>4 DEF row

\* Each cancellation command keeps MoneyInv.
LEMMA CancellationKeeps ==
  ASSUME MoneyInv, NEW q \in Requests, NextCancellation(q)
  PROVE  MoneyInv'
<1>1. TypeOK /\ RowsLinked
  BY DEF MoneyInv
<1>2. ASSUME NEW c \in Cycles, NEW mode \in {"Quiesce", "GracefulCancel"},
             RequestCancellation(q, c, mode)
      PROVE  MoneyInv'
  <2> DEFINE state == IF mode = "Quiesce" THEN "Quiescing" ELSE "Cancelling"
  <2>1. state \in CycleStates \ {"None"} /\ cycle[c].generation + 1 \in Nat
    BY <1>1 DEF CycleStates, TypeOK, CycleRows
  <2>2. TransitionCycle(c, state, cycle[c].generation + 1) /\ InsertCancellation(q, c)
    BY <1>2 DEF RequestCancellation
  <2> HIDE DEF state
  <2>3. UNCHANGED <<envelope, reservation, postmortem, session, work, child>>
    BY <1>2 DEF RequestCancellation
  <2> QED BY <1>1, <2>1, <2>2, <2>3, TransitionEffect, InsertCancellationEffect,
             CancellationRowKeeps
<1>3. CASE BeginCancellationPropagation(q)
  <2>1. HasLiveSession(cancellation[q].cycle) \in BOOLEAN
    BY DEF HasLiveSession
  <2> DEFINE row == [state |-> "Propagating", cycle |-> cancellation[q].cycle,
                     propagation |-> "Propagating",
                     targetsSession |-> HasLiveSession(cancellation[q].cycle)]
  <2>2. cancellation' = [cancellation EXCEPT ![q] = row]
    BY <1>3 DEF BeginCancellationPropagation
  <2>3. cancellation[q].cycle \in Cycles
    BY <1>1, <1>3 DEF BeginCancellationPropagation, RowsLinked
  <2>4. row \in CancellationRows /\ row.cycle \in Cycles
    BY <2>1, <2>3 DEF CancellationRows
  <2> HIDE DEF row
  <2>5. /\ cancellation' \in [Requests -> CancellationRows]
        /\ \A p \in Requests :
              cancellation'[p].state # "None" => cancellation'[p].cycle \in Cycles
    BY <1>1, <2>2, <2>4 DEF TypeOK, RowsLinked
  <2> QED BY <1>1, <1>3, <2>5, CancellationRowKeeps DEF BeginCancellationPropagation, TypeOK
<1>4. CASE ReconcileCancellationPropagation(q)
  <2>1. PICK p \in {"Reconciled", "ContainmentFailed"} :
           cancellation' = [cancellation EXCEPT ![q].propagation = p]
    BY <1>4 DEF ReconcileCancellationPropagation
  <2>2. /\ cancellation' \in [Requests -> CancellationRows]
        /\ \A x \in Requests : /\ cancellation'[x].cycle = cancellation[x].cycle
                               /\ cancellation'[x].state = cancellation[x].state
    BY <1>1, <2>1 DEF TypeOK, CancellationRows
  <2> QED BY <1>1, <1>4, <2>2, CancellationRowKeeps
          DEF ReconcileCancellationPropagation, TypeOK, RowsLinked
<1>5. CASE ReconcileCancellation(q)
  <2> DEFINE c == cancellation[q].cycle
  <2>1. /\ cancellation' = [cancellation EXCEPT ![q].state = "Completed"]
        /\ TransitionCycle(c, "Drained", cycle[c].generation)
        /\ c \in Cycles
        /\ UNCHANGED <<envelope, reservation, postmortem, session, work, child>>
    BY <1>1, <1>5 DEF ReconcileCancellation, RowsLinked
  <2>2. /\ cancellation' \in [Requests -> CancellationRows]
        /\ \A x \in Requests : /\ cancellation'[x].cycle = cancellation[x].cycle
                               /\ x # q => cancellation'[x].state = cancellation[x].state
    BY <1>1, <2>1 DEF TypeOK, CancellationRows
  <2>3. "Drained" \in CycleStates \ {"None"} /\ cycle[c].generation \in Nat
    BY <1>1, <2>1 DEF CycleStates, TypeOK, CycleRows
  <2> HIDE DEF c
  <2>4. \A p \in Requests : cancellation'[p].state # "None" => cancellation'[p].cycle \in Cycles
    BY <1>1, <2>1, <2>2 DEF RowsLinked, c
  <2> QED BY <1>1, <2>1, <2>2, <2>3, <2>4, TransitionEffect, CancellationRowKeeps
<1> QED BY <1>2, <1>3, <1>4, <1>5 DEF NextCancellation

\* Each step of the work item keeps MoneyInv.
LEMMA WorkKeeps ==
  ASSUME MoneyInv, NEW c \in Cycles, NextWork(c)
  PROVE  MoneyInv'
<1>1. TypeOK /\ RowsLinked
  BY DEF MoneyInv
<1>2. work' \in [Cycles -> WorkStates] /\ UNCHANGED <<session, child, cycle, cancellation, postmortem>>
  BY <1>1 DEF NextWork, ClaimWorkItem, StartActorAttempt, AttestActorAttemptTerminal,
              ExpireWorkLease, TypeOK, WorkStates
<1>3. ASSUME NEW r \in Reservations, NEW amount \in Amounts, StartActorAttempt(c, r, amount)
      PROVE  Kept
  BY <1>3, InsertReservationKeeps, MoneyAssumption DEF StartActorAttempt, AdmitsTaskWork
<1>4. CASE ClaimWorkItem(c) \/ AttestActorAttemptTerminal(c) \/ ExpireWorkLease(c)
  <2>1. UNCHANGED <<envelope, reservation>>
    BY <1>4 DEF ClaimWorkItem, AttestActorAttemptTerminal, ExpireWorkLease
  <2>2. Kept
    BY <1>1, <1>2, <2>1, MoneyUntouched DEF TypeOK, RowsLinked
  <2> QED BY <1>2, <2>2, OwnersUntouched, KeptMoney
<1> QED BY <1>2, <1>3, <1>4, OwnersUntouched, KeptMoney DEF NextWork

\* A session that moves between states and keeps its child and reservation
\* keeps its links.
LEMMA SessionMoveKeeps ==
  ASSUME MoneyInv, Kept, NEW c \in Cycles, session' \in [Cycles -> SessionRows],
         \A d \in Cycles : d # c => session'[d] = session[d],
         session'[c].child = session[c].child,
         session'[c].reservation = session[c].reservation,
         session'[c].state \in {"Ready", "TurnActive", "Quiescing"} => session[c].child # None,
         UNCHANGED <<work, child>>
  PROVE  MoneyInv'
<1>1. TypeOK /\ RowsLinked
  BY DEF MoneyInv
<1>2. \A d \in Cycles : session[d].reservation \in Reservations \cup {None}
  BY <1>1 DEF TypeOK, SessionRows
<1>3. \A k \in Children : child[k].cycle \in Cycles \cup {None}
  BY <1>1 DEF TypeOK, ChildRows
<1>4. \A d \in Cycles :
          /\ session'[d].state \in {"Ready", "TurnActive", "Quiescing"} =>
                 session'[d].child # None
          /\ session'[d].child # None => session'[d].reservation # None
          /\ session'[d].reservation # None =>
                 /\ reservation'[session'[d].reservation].state # "None"
                 /\ reservation'[session'[d].reservation].cycle = d
  <2> SUFFICES ASSUME NEW d \in Cycles
               PROVE  <1>4!(d)
    OBVIOUS
  <2>1. session'[d].child = session[d].child /\ session'[d].reservation = session[d].reservation
    OBVIOUS
  <2> QED BY <1>1, <1>2, <2>1 DEF Kept, RowsLinked
<1>5. OwnersKept
  BY <1>1, <1>3, <1>4 DEF OwnersKept, Kept, TypeOK, RowsLinked
<1> QED BY <1>5, KeptMoney

\* An Office session past its reservation is bound to one of its own cycle.
LEMMA SessionIsBound ==
  ASSUME MoneyInv, NEW c \in Cycles, session[c].state \in {"Ready", "TurnActive", "Quiescing"}
  PROVE  /\ session[c].child # None
         /\ session[c].reservation \in Reservations
         /\ reservation[session[c].reservation].state # "None"
         /\ reservation[session[c].reservation].cycle = c
  BY DEF MoneyInv, TypeOK, SessionRows, RowsLinked

\* Each Office command keeps MoneyInv.
LEMMA OfficeKeeps ==
  ASSUME MoneyInv, NEW c \in Cycles, NextOffice(c)
  PROVE  MoneyInv'
<1> DEFINE r == session[c].reservation
<1>1. TypeOK /\ RowsLinked /\ cycle[c].generation \in Nat
  BY DEF MoneyInv, TypeOK, CycleRows
<1>2. ASSUME UNCHANGED <<cycle, envelope, reservation, cancellation, postmortem>> PROVE Kept
  BY <1>1, <1>2, MoneyUntouched DEF TypeOK, RowsLinked
<1>3. ASSUME NEW to \in SessionStates, session' = [session EXCEPT ![c].state = to]
      PROVE  /\ session' \in [Cycles -> SessionRows]
             /\ \A d \in Cycles : d # c => session'[d] = session[d]
             /\ session'[c].child = session[c].child
             /\ session'[c].reservation = session[c].reservation
             /\ session'[c].state = to
  BY <1>1, <1>3 DEF TypeOK, SessionRows
<1>4. ASSUME NEW to \in SessionStates, NEW purpose \in {"None", "OrdinaryWork", "Closure"},
             session' = [session EXCEPT ![c].state = to, ![c].purpose = purpose,
                                        ![c].prompt = NoGeneration]
      PROVE  /\ session' \in [Cycles -> SessionRows]
             /\ \A d \in Cycles : d # c => session'[d] = session[d]
             /\ session'[c].child = session[c].child
             /\ session'[c].reservation = session[c].reservation
             /\ session'[c].state = to
  BY <1>1, <1>4, ZenonT(40) DEF TypeOK, SessionRows
<1>5. UNCHANGED <<work, child>>
  BY DEF NextOffice, RecordOfficeSessionReady, RecordOfficeSessionTerminal, OpenOfficeTurn,
         AuthorizePiOfficeTurnPrompt, SettleOfficeTurn, RecordPiOfficeTurnUsageFailure,
         AuthorizePiOfficeSessionDispose, RecordPiOfficeSessionDisposed,
         RecordPiOfficeSessionDisposeUsageFailure
<1>6. ASSUME Kept, UNCHANGED session PROVE MoneyInv'
  BY <1>1, <1>5, <1>6, OwnersUntouched, KeptMoney DEF TypeOK
<1>7. CASE RecordOfficeSessionReady(c)
  <2>1. session' = [session EXCEPT ![c].state = "Ready"] /\ Kept /\ session[c].child # None
    BY <1>2, <1>7 DEF RecordOfficeSessionReady, ChildIsOperational
  <2> QED BY <1>3, <1>5, <2>1, SessionMoveKeeps DEF SessionStates
<1>8. ASSUME NEW terminal \in {"Cancelled", "Failed"}, RecordOfficeSessionTerminal(c, terminal)
      PROVE  MoneyInv'
  <2>1. session' = [session EXCEPT ![c].state = terminal] /\ Kept
    BY <1>2, <1>8 DEF RecordOfficeSessionTerminal
  <2>2. terminal \in SessionStates /\ terminal \notin {"Ready", "TurnActive", "Quiescing"}
    BY DEF SessionStates
  <2> QED BY <1>3, <1>5, <2>1, <2>2, SessionMoveKeeps
<1>9. ASSUME NEW purpose \in {"OrdinaryWork", "Closure"}, OpenOfficeTurn(c, purpose)
      PROVE  MoneyInv'
  <2>1. /\ session' = [session EXCEPT ![c].state = "TurnActive", ![c].purpose = purpose,
                                      ![c].prompt = NoGeneration]
        /\ Kept /\ session[c].child # None
    BY <1>2, <1>9 DEF OpenOfficeTurn, ChildIsOperational
  <2> QED BY <1>4, <1>5, <2>1, SessionMoveKeeps DEF SessionStates
<1>10. CASE AuthorizePiOfficeTurnPrompt(c)
  <2>1. /\ session' = [session EXCEPT ![c].prompt = cycle[c].generation]
        /\ Kept /\ session[c].child # None
    BY <1>2, <1>10 DEF AuthorizePiOfficeTurnPrompt, ChildIsOperational
  <2>2. /\ session' \in [Cycles -> SessionRows]
        /\ \A d \in Cycles : d # c => session'[d] = session[d]
        /\ session'[c].child = session[c].child
        /\ session'[c].reservation = session[c].reservation
    BY <1>1, <2>1 DEF TypeOK, SessionRows
  <2> QED BY <1>5, <2>1, <2>2, SessionMoveKeeps
<1>11. ASSUME NEW observed \in Observations, SettleOfficeTurn(c, observed)
       PROVE  MoneyInv'
  <2>1. /\ r \in Reservations /\ reservation[r].cycle = c /\ reservation[r].state = "Reserved"
        /\ session[c].child # None /\ observed \in Nat
        /\ reservation[r].amount \in Nat /\ reservation[r].charged \in Nat
        /\ observed >= reservation[r].charged
    BY <1>1, <1>11, SessionIsBound, MoneyAssumption
       DEF SettleOfficeTurn, HasActiveTurn, TypeOK, ReservationRows
  <2> DEFINE delta == observed - reservation[r].charged
  <2>2. CASE observed > reservation[r].amount
    <3>1. Freeze(r, "KnownOverrun", observed) /\ UNCHANGED session
      BY <1>11, <2>1, <2>2 DEF SettleOfficeTurn
    <3> QED BY <1>6, <2>1, <2>2, <3>1, FreezeKeeps
  <2>3. CASE ~(observed > reservation[r].amount)
    <3>1. /\ delta <= reservation[r].held /\ Charge(c, delta, delta)
          /\ reservation' = [reservation EXCEPT ![r].charged = @ + delta, ![r].held = @ - delta]
          /\ session' = [session EXCEPT ![c].state = "Ready", ![c].purpose = "None",
                                        ![c].prompt = NoGeneration]
          /\ UNCHANGED <<cycle, cancellation, postmortem>>
      BY <1>11, <2>1, <2>3 DEF SettleOfficeTurn
    <3>2. delta \in Nat
      BY <2>1
    <3> HIDE DEF delta
    <3>3. Kept
      BY <2>1, <3>1, <3>2, SettleTurnKeeps
    <3> QED BY <1>4, <1>5, <2>1, <3>1, <3>3, SessionMoveKeeps DEF SessionStates
  <2> QED BY <2>2, <2>3
<1>12. CASE RecordPiOfficeTurnUsageFailure(c)
  BY <1>6, <1>12, SessionIsBound, FreezeKeeps DEF RecordPiOfficeTurnUsageFailure, HasActiveTurn
<1>13. CASE AuthorizePiOfficeSessionDispose(c)
  <2>1. session' = [session EXCEPT ![c].state = "Quiescing"] /\ Kept /\ session[c].child # None
    BY <1>2, <1>13 DEF AuthorizePiOfficeSessionDispose, ChildIsOperational
  <2> QED BY <1>3, <1>5, <2>1, SessionMoveKeeps DEF SessionStates
<1>14. ASSUME NEW observed \in Observations, RecordPiOfficeSessionDisposed(c, observed)
       PROVE  MoneyInv'
  <2>1. /\ r \in Reservations /\ reservation[r].state = "Reserved"
        /\ observed \in Nat /\ observed >= reservation[r].charged
        /\ reservation[r].amount \in Nat
    BY <1>1, <1>14, SessionIsBound, MoneyAssumption
       DEF RecordPiOfficeSessionDisposed, TypeOK, ReservationRows
  <2>2. CASE observed > reservation[r].amount
    <3>1. Freeze(r, "KnownOverrun", observed) /\ session' = [session EXCEPT ![c].state = "Cancelled"]
      BY <1>14, <2>1, <2>2 DEF RecordPiOfficeSessionDisposed
    <3>2. Kept
      BY <2>1, <2>2, <3>1, FreezeKeeps
    <3> QED BY <1>3, <1>5, <3>1, <3>2, SessionMoveKeeps DEF SessionStates
  <2>3. CASE ~(observed > reservation[r].amount)
    <3>1. SettleKnown(r, observed, 0) /\ session' = [session EXCEPT ![c].state = "Closed"]
      BY <1>14, <2>1, <2>3 DEF RecordPiOfficeSessionDisposed
    <3>2. Kept
      BY <2>1, <2>3, <3>1, SettleKnownKeeps
    <3> QED BY <1>3, <1>5, <3>1, <3>2, SessionMoveKeeps DEF SessionStates
  <2> QED BY <2>2, <2>3
<1>15. CASE RecordPiOfficeSessionDisposeUsageFailure(c)
  BY <1>6, <1>15, SessionIsBound, FreezeKeeps DEF RecordPiOfficeSessionDisposeUsageFailure
<1> QED BY <1>7, <1>8, <1>9, <1>10, <1>11, <1>12, <1>13, <1>14, <1>15 DEF NextOffice

\* Each native child receipt keeps MoneyInv.
LEMMA ChildKeeps ==
  ASSUME MoneyInv, NEW k \in Children, NextChild(k)
  PROVE  MoneyInv'
<1>1. TypeOK /\ RowsLinked
  BY DEF MoneyInv
<1>2. UNCHANGED <<cycle, envelope, reservation, cancellation, postmortem, work>>
  BY DEF NextChild, AdmitPiChildSpawn, RecordInertChildSpawn, RecordNativeChildNotSpawned,
         AuthorizePiCreateSession, RecordPiSessionReady, RecordChildCustody, SetChild
<1>3. Kept
  BY <1>1, <1>2, MoneyUntouched DEF TypeOK, RowsLinked
<1>4. ASSUME NEW state \in ChildStates, SetChild(k, state) PROVE MoneyInv'
  <2>1. /\ child' \in [Children -> ChildRows]
        /\ \A x \in Children : child'[x].cycle = child[x].cycle
    BY <1>1, <1>4 DEF SetChild, TypeOK, ChildRows
  <2>2. OwnersKept
    BY <1>1, <1>2, <1>4, <2>1 DEF SetChild, OwnersKept, TypeOK, RowsLinked
  <2> QED BY <1>3, <2>2, KeptMoney
<1>5. ASSUME NEW c \in Cycles, NEW r \in Reservations, NEW owner \in {"Session", "Qualification"},
             AdmitPiChildSpawn(k, c, r, owner)
      PROVE  MoneyInv'
  <2>1. /\ cycle[c].state = "Running" /\ reservation[r].cycle = c
        /\ reservation[r].state = "Reserved" /\ cycle[c].generation \in Nat
    BY <1>1, <1>5 DEF AdmitPiChildSpawn, TypeOK, CycleRows
  <2> DEFINE row == [state |-> "Admitted", cycle |-> c, owner |-> owner, reservation |-> r,
                     generation |-> cycle[c].generation]
  <2>2. child' = [child EXCEPT ![k] = row] /\ row \in ChildRows /\ row.cycle = c
    BY <1>5, <2>1 DEF AdmitPiChildSpawn, ChildRows, ChildStates
  <2> HIDE DEF row
  <2>3. /\ child' \in [Children -> ChildRows]
        /\ \A x \in Children : child'[x].cycle # None => cycle'[child'[x].cycle].state # "None"
    BY <1>1, <1>2, <2>1, <2>2 DEF TypeOK, RowsLinked
  <2>4. \/ session' = session
        \/ session' = [session EXCEPT ![c].child = k, ![c].reservation = r]
    BY <1>5 DEF AdmitPiChildSpawn
  <2>5. CASE session' = session
    BY <1>1, <1>2, <1>3, <2>3, <2>5, KeptMoney DEF OwnersKept, TypeOK, RowsLinked
  <2>6. CASE session' = [session EXCEPT ![c].child = k, ![c].reservation = r]
    <3>1. /\ session' \in [Cycles -> SessionRows]
          /\ \A d \in Cycles : d # c => session'[d] = session[d]
          /\ session'[c].child = k /\ session'[c].reservation = r
      BY <1>1, <2>6, ZenonT(40) DEF TypeOK, SessionRows
    <3>2. r # None /\ k # None
      BY NoneAssumption
    <3>3. \A d \in Cycles :
            /\ session'[d].state \in {"Ready", "TurnActive", "Quiescing"} =>
                   session'[d].child # None
            /\ session'[d].child # None => session'[d].reservation # None
            /\ session'[d].reservation # None =>
                   /\ reservation'[session'[d].reservation].state # "None"
                   /\ reservation'[session'[d].reservation].cycle = d
      BY <1>1, <1>2, <2>1, <3>1, <3>2 DEF RowsLinked
    <3> QED BY <1>1, <1>2, <1>3, <2>3, <3>1, <3>3, KeptMoney DEF OwnersKept, TypeOK
  <2> QED BY <2>4, <2>5, <2>6
<1>6. ASSUME NEW state \in {"Ending", "LostParentage", "ContainmentFailed", "Finalized"},
             RecordChildCustody(k, state)
      PROVE  MoneyInv'
  BY <1>4, <1>6 DEF RecordChildCustody, ChildStates
<1>7. CASE \/ RecordInertChildSpawn(k) \/ RecordNativeChildNotSpawned(k)
           \/ AuthorizePiCreateSession(k) \/ RecordPiSessionReady(k)
  BY <1>4, <1>7 DEF RecordInertChildSpawn, RecordNativeChildNotSpawned,
                    AuthorizePiCreateSession, RecordPiSessionReady, ChildStates
<1> QED BY <1>5, <1>6, <1>7 DEF NextChild

\* MoneyInv is inductive.
LEMMA MoneyInductive == MoneyInv /\ [Next]_vars => MoneyInv'
<1> SUFFICES ASSUME MoneyInv, [Next]_vars PROVE MoneyInv'
  OBVIOUS
<1>1. CASE UNCHANGED vars
  <2>1. Kept
    BY <1>1, MoneyUntouched DEF vars, MoneyInv, TypeOK, RowsLinked
  <2>2. OwnersKept
    BY <1>1, <2>1, OwnersUntouched DEF vars, MoneyInv, TypeOK
  <2> QED BY <2>1, <2>2, KeptMoney
<1>2. CASE Next
  BY <1>2, CycleKeeps, OfficeKeeps, WorkKeeps, BudgetKeeps, CancellationKeeps, ChildKeeps
     DEF Next
<1> QED BY <1>1, <1>2

\* The invariant holds of a bootstrapped society.
LEMMA InitMoney == Init => MoneyInv
<1> SUFFICES ASSUME Init PROVE MoneyInv
  OBVIOUS
<1>1. TypeOK
  BY MoneyAssumption
     DEF Init, TypeOK, CycleRows, EnvelopeRows, ReservationRows, CancellationRows,
         PostmortemRows, SessionRows, ChildRows, WorkStates, CycleStates, SessionStates,
         ChildStates, NoCycle, NoReservation, NoRequest, NoPostmortem, NoSession, NoChild,
         NoGeneration, Envelopes
<1>2. RowsLinked
  BY DEF Init, RowsLinked, NoReservation, NoRequest, NoPostmortem, NoSession, NoChild
<1>3. ReservationHold /\ PostmortemMatches /\ ResolvedCostIsCharged
  BY DEF Init, ReservationHold, PostmortemMatches, ResolvedCostIsCharged, NoReservation, NoPostmortem
<1>4. CeilingHeld
  BY MoneyAssumption DEF Init, CeilingHeld, Envelopes
<1> QED BY <1>1, <1>2, <1>3, <1>4 DEF MoneyInv

\* Every reachable state satisfies MoneyInv.
THEOREM MoneyInvariant == Spec => []MoneyInv
  BY InitMoney, MoneyInductive, PTL DEF Spec

\* Every table keeps rows of its type in every reachable state: no settlement,
\* freeze or Postmortem makes an amount negative (spent, charged and held
\* micro-USD stay natural numbers, as the storage CHECKs demand).
THEOREM TypeCorrect == Spec => []TypeOK
  BY MoneyInvariant, PTL DEF MoneyInv

\* Budgets are hard ceilings, whatever the ceilings, amounts and reported costs
\* and however many cycles share the society's envelope.
THEOREM CeilingsHold == Spec => []CeilingHeld
  BY MoneyInvariant, PTL DEF MoneyInv

\* A live reservation's charge rows hold exactly the uncharged rest of it.
THEOREM ReservationsHold == Spec => []ReservationHold
  BY MoneyInvariant, PTL DEF MoneyInv

\* An unknown cost never becomes zero: its resolved Postmortem charged the
\* whole authorisation.
THEOREM ResolvedCostsAreCharged == Spec => []ResolvedCostIsCharged
  BY MoneyInvariant, PTL DEF MoneyInv

-----------------------------------------------------------------------------
(* Sums.  SumFunctionOnSet draws the elements of a finite set one after    *)
(* another; these lemmas say that the order does not matter.  They go by   *)
(* induction on the size of the set: the least size for which a lemma      *)
(* fails would make it fail for a smaller one.                             *)

\* A set of naturals has a least element.
LEMMA LeastNatural ==
  ASSUME NEW T \in SUBSET Nat, T # {}
  PROVE  \E n \in T : \A m \in T : n <= m
<1> DEFINE R == {ss \in Nat \X Nat : ss[1] < ss[2]}
<1>1. IsWellFoundedOn(R, Nat)
  BY NatLessThanWellFounded DEF OpToRel
<1>2. PICK n \in T : \A m \in T : ~(<<m, n>> \in R)
  BY <1>1, WFMin
<1>3. \A m \in T : ~(m < n)
  BY <1>2
<1> QED BY <1>3

\* The element the sum draws from s, and what is left.
Drawn(s) == CHOOSE x \in s : TRUE
Rest(s) == s \ {Drawn(s)}

\* The sums of f over the sets of a family D.
SumsOver(g, f, D) ==
    g = [s \in D |-> IF s = {} THEN 0 ELSE f[Drawn(s)] + g[Rest(s)]]

\* Drawing makes a finite set smaller.
LEMMA RestSmaller ==
  ASSUME NEW s, IsFiniteSet(s), s # {}
  PROVE  /\ Drawn(s) \in s /\ IsFiniteSet(Rest(s)) /\ s = Rest(s) \cup {Drawn(s)}
         /\ Drawn(s) \notin Rest(s)
         /\ Cardinality(Rest(s)) \in Nat /\ Cardinality(s) = Cardinality(Rest(s)) + 1
<1>1. Drawn(s) \in s
  BY DEF Drawn
<1>2. IsFiniteSet(Rest(s)) /\ Cardinality(Rest(s)) = Cardinality(s) - 1
  BY <1>1, FS_RemoveElement DEF Rest
<1>3. Cardinality(Rest(s)) \in Nat /\ Cardinality(s) \in Nat
  BY <1>2, FS_CardinalityType
<1> QED BY <1>1, <1>2, <1>3 DEF Rest

\* A sum is the last of the sums over the subsets.
LEMMA SumIsChosen ==
  ASSUME NEW f, NEW S
  PROVE  SumFunctionOnSet(f, S) = (CHOOSE g : SumsOver(g, f, SUBSET S))[S]
BY DEF SumFunctionOnSet, FoldFunctionOnSet, MapThenFoldSet, SumsOver, Drawn, Rest

\* The sums over the subsets of a finite set exist.
LEMMA SumsExist ==
  ASSUME NEW f, NEW S, IsFiniteSet(S)
  PROVE  \E g : SumsOver(g, f, SUBSET S)
<1> DEFINE D(n) == {s \in SUBSET S : Cardinality(s) <= n}
           T == {n \in Nat : ~\E g : SumsOver(g, f, D(n))}
<1>1. \A s \in SUBSET S : IsFiniteSet(s) /\ Cardinality(s) \in Nat /\ Cardinality(s) <= Cardinality(S)
  BY FS_Subset, FS_CardinalityType
<1>2. T = {}
  <2>1. SUFFICES ASSUME T # {} PROVE FALSE
    OBVIOUS
  <2>2. PICK n \in T : \A m \in T : n <= m
    BY <2>1, LeastNatural
  <2>3. n \in Nat /\ ~\E g : SumsOver(g, f, D(n))
    OBVIOUS
  <2>4. CASE n = 0
    <3>1. \A s \in D(0) : s = {}
      BY <1>1, FS_EmptySet
    <3>2. SumsOver([s \in D(0) |-> 0], f, D(0))
      BY <3>1 DEF SumsOver
    <3> QED BY <2>3, <2>4, <3>2
  <2>5. CASE n # 0
    <3>1. n - 1 \in Nat /\ ~(n <= n - 1)
      BY <2>3, <2>5
    <3>2. PICK g : SumsOver(g, f, D(n - 1))
      BY <2>2, <3>1
    <3> DEFINE h == [s \in D(n) |-> IF s = {} THEN 0 ELSE f[Drawn(s)] + g[Rest(s)]]
    <3>3. ASSUME NEW s \in D(n), s # {} PROVE h[Rest(s)] = g[Rest(s)]
      <4>1. Rest(s) \in SUBSET S /\ Cardinality(Rest(s)) \in Nat
            /\ Cardinality(s) = Cardinality(Rest(s)) + 1 /\ Cardinality(s) <= n
        BY <1>1, <3>3, RestSmaller DEF Rest
      <4>2. Rest(s) \in D(n - 1) /\ Rest(s) \in D(n)
        BY <2>3, <4>1
      <4>3. g[Rest(s)] = IF Rest(s) = {} THEN 0 ELSE f[Drawn(Rest(s))] + g[Rest(Rest(s))]
        BY <3>2, <4>2 DEF SumsOver
      <4> QED BY <4>2, <4>3
    <3>4. h = [s \in D(n) |-> IF s = {} THEN 0 ELSE f[Drawn(s)] + h[Rest(s)]]
      BY <3>3
    <3> HIDE DEF h
    <3>5. SumsOver(h, f, D(n))
      BY <3>4 DEF SumsOver
    <3> QED BY <2>3, <3>5
  <2> QED BY <2>4, <2>5
<1>3. Cardinality(S) \in Nat /\ D(Cardinality(S)) = SUBSET S
  BY <1>1, FS_CardinalityType
<1> HIDE DEF D
<1>4. \E g : SumsOver(g, f, D(Cardinality(S)))
  BY <1>2, <1>3
<1> QED BY <1>3, <1>4

\* Sums of functions that agree on a set agree on it, whatever the families.
LEMMA SumsAgree ==
  ASSUME NEW f, NEW g, NEW S, NEW h, NEW k, NEW R,
         SumsOver(g, f, SUBSET S), SumsOver(h, k, SUBSET R),
         NEW U \in SUBSET (S \cap R), IsFiniteSet(U), \A x \in U : f[x] = k[x]
  PROVE  g[U] = h[U]
<1> DEFINE T == {n \in Nat : \E s \in SUBSET U : Cardinality(s) = n /\ g[s] # h[s]}
<1>1. \A s \in SUBSET U : IsFiniteSet(s) /\ Cardinality(s) \in Nat
  BY FS_Subset, FS_CardinalityType
<1>2. T = {}
  <2>1. SUFFICES ASSUME T # {} PROVE FALSE
    OBVIOUS
  <2>2. PICK n \in T : \A m \in T : n <= m
    BY <2>1, LeastNatural
  <2>3. PICK s \in SUBSET U : Cardinality(s) = n /\ g[s] # h[s]
    OBVIOUS
  <2>4. /\ g[s] = IF s = {} THEN 0 ELSE f[Drawn(s)] + g[Rest(s)]
        /\ h[s] = IF s = {} THEN 0 ELSE k[Drawn(s)] + h[Rest(s)]
    BY DEF SumsOver
  <2>5. s # {}
    BY <2>3, <2>4
  <2>6. /\ Drawn(s) \in U /\ Rest(s) \in SUBSET U
        /\ Cardinality(Rest(s)) \in Nat /\ n = Cardinality(Rest(s)) + 1
    BY <1>1, <2>3, <2>5, RestSmaller DEF Rest
  <2>7. g[Rest(s)] = h[Rest(s)]
    <3>1. ~(n <= Cardinality(Rest(s)))
      BY <2>6
    <3>2. Cardinality(Rest(s)) \notin T
      BY <2>2, <3>1
    <3> QED BY <2>6, <3>2
  <2> QED BY <2>3, <2>4, <2>5, <2>6, <2>7
<1> QED BY <1>1, <1>2

\* What a sum is: nothing over the empty set, and else an element and the rest.
LEMMA SumByDrawing ==
  ASSUME NEW f, NEW S, IsFiniteSet(S)
  PROVE  SumFunctionOnSet(f, S) =
           IF S = {} THEN 0 ELSE f[Drawn(S)] + SumFunctionOnSet(f, Rest(S))
<1> DEFINE G(U) == CHOOSE g : SumsOver(g, f, SUBSET U)
<1>1. ASSUME NEW U, IsFiniteSet(U) PROVE SumsOver(G(U), f, SUBSET U)
  BY <1>1, SumsExist
<1>2. \A U : SumFunctionOnSet(f, U) = G(U)[U]
  BY SumIsChosen
<1>3. SumsOver(G(S), f, SUBSET S)
  BY <1>1
<1> HIDE DEF G
<1>4. G(S)[S] = IF S = {} THEN 0 ELSE f[Drawn(S)] + G(S)[Rest(S)]
  BY <1>3 DEF SumsOver
<1>5. ASSUME S # {} PROVE G(S)[Rest(S)] = G(Rest(S))[Rest(S)]
  <2>1. IsFiniteSet(Rest(S)) /\ Rest(S) \in SUBSET (S \cap Rest(S))
    BY <1>5, RestSmaller DEF Rest
  <2>2. SumsOver(G(Rest(S)), f, SUBSET Rest(S))
    BY <1>1, <2>1
  <2> QED BY <1>3, <2>1, <2>2, SumsAgree, SMTT(30)
<1> QED BY <1>2, <1>4, <1>5

\* A sum only depends on the values it adds.
LEMMA SumCongruent ==
  ASSUME NEW f, NEW k, NEW S, IsFiniteSet(S), \A x \in S : f[x] = k[x]
  PROVE  SumFunctionOnSet(f, S) = SumFunctionOnSet(k, S)
<1> DEFINE G(v) == CHOOSE g : SumsOver(g, v, SUBSET S)
<1>1. SumsOver(G(f), f, SUBSET S) /\ SumsOver(G(k), k, SUBSET S)
  BY SumsExist
<1>2. SumFunctionOnSet(f, S) = G(f)[S] /\ SumFunctionOnSet(k, S) = G(k)[S]
  BY SumIsChosen
<1> HIDE DEF G
<1>3. S \in SUBSET (S \cap S)
  OBVIOUS
<1> QED BY <1>1, <1>2, <1>3, SumsAgree

\* A sum of integers is one.
LEMMA SumIsInteger ==
  ASSUME NEW f, NEW S, IsFiniteSet(S), \A x \in S : f[x] \in Int
  PROVE  SumFunctionOnSet(f, S) \in Int
<1> DEFINE T == {n \in Nat : \E s \in SUBSET S :
                   Cardinality(s) = n /\ SumFunctionOnSet(f, s) \notin Int}
<1>1. \A s \in SUBSET S : IsFiniteSet(s) /\ Cardinality(s) \in Nat
  BY FS_Subset, FS_CardinalityType
<1>2. T = {}
  <2>1. SUFFICES ASSUME T # {} PROVE FALSE
    OBVIOUS
  <2>2. PICK n \in T : \A m \in T : n <= m
    BY <2>1, LeastNatural
  <2>3. PICK s \in SUBSET S : Cardinality(s) = n /\ SumFunctionOnSet(f, s) \notin Int
    OBVIOUS
  <2>4. SumFunctionOnSet(f, s) =
          IF s = {} THEN 0 ELSE f[Drawn(s)] + SumFunctionOnSet(f, Rest(s))
    BY <1>1, SumByDrawing
  <2>5. s # {}
    BY <2>3, <2>4
  <2>6. /\ Drawn(s) \in S /\ Rest(s) \in SUBSET S
        /\ Cardinality(Rest(s)) \in Nat /\ n = Cardinality(Rest(s)) + 1
    BY <1>1, <2>3, <2>5, RestSmaller DEF Rest
  <2>7. SumFunctionOnSet(f, Rest(s)) \in Int
    <3>1. ~(n <= Cardinality(Rest(s)))
      BY <2>6
    <3>2. Cardinality(Rest(s)) \notin T
      BY <2>2, <3>1
    <3> QED BY <2>6, <3>2
  <2>8. f[Drawn(s)] + SumFunctionOnSet(f, Rest(s)) \in Int
    BY <2>6, <2>7
  <2> QED BY <2>3, <2>4, <2>5, <2>8
<1> QED BY <1>1, <1>2

\* An element more adds its value.
LEMMA SumWithElement ==
  ASSUME NEW f, NEW S, IsFiniteSet(S), NEW a, a \notin S, \A x \in S \cup {a} : f[x] \in Int
  PROVE  SumFunctionOnSet(f, S \cup {a}) = SumFunctionOnSet(f, S) + f[a]
<1> DEFINE W == S \cup {a}
           Sum(s) == SumFunctionOnSet(f, s)
           T == {n \in Nat : \E s \in SUBSET W : \E b \in W :
                   b \notin s /\ Cardinality(s) = n /\ Sum(s \cup {b}) # Sum(s) + f[b]}
<1>0. IsFiniteSet(W)
  BY FS_AddElement
<1>1. \A s \in SUBSET W : IsFiniteSet(s) /\ Cardinality(s) \in Nat /\ Sum(s) \in Int
  BY <1>0, FS_Subset, FS_CardinalityType, SumIsInteger
<1>2. \A s \in SUBSET W : s # {} => Sum(s) = f[Drawn(s)] + Sum(Rest(s))
  BY <1>1, SumByDrawing
<1> HIDE DEF Sum
<1>3. T = {}
  <2>1. SUFFICES ASSUME T # {} PROVE FALSE
    OBVIOUS
  <2>2. PICK n \in T : \A m \in T : n <= m
    BY <2>1, LeastNatural
  <2>3. PICK s \in SUBSET W, b \in W :
           b \notin s /\ Cardinality(s) = n /\ Sum(s \cup {b}) # Sum(s) + f[b]
    OBVIOUS
  <2> DEFINE u == s \cup {b}
             c == Drawn(u)
             t == s \ {c}
  <2>4. u \in SUBSET W /\ u # {} /\ IsFiniteSet(u)
    BY <1>1
  <2>5. c \in u /\ Sum(u) = f[c] + Sum(Rest(u)) /\ Rest(u) = u \ {c}
    BY <1>2, <2>4, RestSmaller DEF Rest
  <2> HIDE DEF c
  <2>6. c # b
    <3>1. ASSUME c = b PROVE FALSE
      <4>1. Rest(u) = s
        BY <2>3, <2>5, <3>1
      <4>2. Sum(s) \in Int /\ f[b] \in Int
        BY <1>1
      <4> QED BY <2>3, <2>5, <3>1, <4>1, <4>2
    <3> QED BY <3>1
  <2>7. /\ c \in s /\ t \in SUBSET W /\ b \notin t /\ c \notin t /\ c \in W
        /\ s = t \cup {c} /\ Rest(u) = t \cup {b}
    BY <2>3, <2>5, <2>6
  <2>8. Cardinality(t) \in Nat /\ n = Cardinality(t) + 1
    <3>1. IsFiniteSet(s) /\ IsFiniteSet(t) /\ Cardinality(t) \in Nat
      BY <1>1, <2>7
    <3>2. Cardinality(t \cup {c}) = Cardinality(t) + 1
      BY <2>7, <3>1, FS_AddElement
    <3> QED BY <2>3, <2>7, <3>1, <3>2
  <2> HIDE DEF t, u
  <2>9. Cardinality(t) \notin T
    <3>1. ~(n <= Cardinality(t))
      BY <2>8
    <3> QED BY <2>2, <3>1
  <2>10. Sum(t \cup {c}) = Sum(t) + f[c] /\ Sum(t \cup {b}) = Sum(t) + f[b]
    BY <2>7, <2>8, <2>9
  <2>11. Sum(t) \in Int /\ f[b] \in Int /\ f[c] \in Int
    BY <1>1, <2>7
  <2>12. Sum(s) = Sum(t) + f[c] /\ Sum(u) = f[c] + (Sum(t) + f[b])
    BY <2>5, <2>7, <2>10
  <2> QED BY <2>3, <2>11, <2>12 DEF u
<1>4. S \in SUBSET W /\ a \in W /\ Cardinality(S) \in Nat /\ Cardinality(S) \notin T
  BY <1>1, <1>3
<1>5. Sum(S \cup {a}) = Sum(S) + f[a]
  BY <1>4
<1> QED BY <1>5 DEF Sum

\* Changing one of the values changes the sum by the difference.
LEMMA SumWithChange ==
  ASSUME NEW f, NEW k, NEW S, IsFiniteSet(S), NEW a \in S,
         \A x \in S : f[x] \in Int /\ k[x] \in Int, \A x \in S : x # a => k[x] = f[x]
  PROVE  SumFunctionOnSet(k, S) = SumFunctionOnSet(f, S) - f[a] + k[a]
<1> DEFINE t == S \ {a}
<1>1. IsFiniteSet(t) /\ a \notin t /\ S = t \cup {a}
  BY FS_RemoveElement
<1> HIDE DEF t
<1>2. SumFunctionOnSet(k, t) = SumFunctionOnSet(f, t)
  BY <1>1, SumCongruent
<1>3. /\ SumFunctionOnSet(f, S) = SumFunctionOnSet(f, t) + f[a]
      /\ SumFunctionOnSet(k, S) = SumFunctionOnSet(k, t) + k[a]
  BY <1>1, SumWithElement
<1>4. SumFunctionOnSet(f, t) \in Int /\ f[a] \in Int /\ k[a] \in Int
  BY <1>1, SumIsInteger
<1> QED BY <1>2, <1>3, <1>4

-----------------------------------------------------------------------------
(* The accounts.  A step either leaves the money alone, proposes a cycle,  *)
(* freezes a reservation or posts to one reservation and its envelopes.    *)

\* Besides EnvelopeAccounting: a reservation that was not inserted was not
\* charged, and finitely many were inserted.
AccountInv ==
    /\ EnvelopeAccounting
    /\ \A r \in Reservations : reservation[r].state = "None" => reservation[r].charged = 0
    /\ IsFiniteSet(ChargedTo(Society))

\* The step that CostIsFinal demands.
CostFinalStep ==
    /\ \A e \in Envelopes : envelope'[e].spent >= envelope[e].spent
    /\ \A r \in Reservations :
         /\ reservation'[r].charged >= reservation[r].charged
         /\ reservation[r].state = "Reconciled" => reservation'[r] = reservation[r]

\* The reservation r of cycle c, new or live, gives up released of what it
\* holds and is charged spent, and both its envelopes with it.
Posted(r, c, released, spent) ==
    /\ Charge(c, released, spent)
    /\ \A x \in Reservations : x # r => reservation'[x] = reservation[x]
    /\ reservation'[r].state # "None" /\ reservation'[r].cycle = c
    /\ reservation[r].state # "Reconciled"
    /\ reservation[r].state # "None" => reservation[r].cycle = c
    /\ Holdings'[r] = Holdings[r] - released
    /\ Charges'[r] = Charges[r] + spent

\* What the rows of the accounts are.
LEMMA AccountRows ==
  ASSUME MoneyInv, AccountInv
  PROVE  /\ \A e : IsFiniteSet(ChargedTo(e)) /\ ChargedTo(e) \subseteq Reservations
         /\ \A r \in Reservations :
              /\ Holdings[r] \in Nat /\ Charges[r] \in Nat /\ Charges[r] = reservation[r].charged
              /\ reservation[r].state = "None" => Holdings[r] = 0 /\ Charges[r] = 0
         /\ \A e \in Envelopes :
              envelope[e].reserved \in Int /\ envelope[e].spent \in Nat
<1>1. TypeOK
  BY DEF MoneyInv
<1>2. \A e : ChargedTo(e) \subseteq ChargedTo(Society) /\ ChargedTo(e) \subseteq Reservations
  BY DEF ChargedTo
<1>3. \A e : IsFiniteSet(ChargedTo(e))
  BY <1>2, FS_Subset DEF AccountInv
<1>4. \A r \in Reservations : reservation[r].held \in Nat /\ reservation[r].charged \in Nat
  BY <1>1 DEF TypeOK, ReservationRows
<1>5. \A e \in Envelopes : envelope[e].reserved \in Int /\ envelope[e].spent \in Nat
  BY <1>1 DEF TypeOK, EnvelopeRows
<1> QED BY <1>2, <1>3, <1>4, <1>5 DEF Holdings, Charges, AccountInv

\* A value posted to an account changes its sum by as much, also when it is
\* the account's first.
LEMMA SumPosted ==
  ASSUME NEW f, NEW k, NEW S, IsFiniteSet(S), NEW a, f[a] \in Int, k[a] \in Int,
         \A x \in S : f[x] \in Int /\ k[x] \in Int, \A x \in S : x # a => k[x] = f[x],
         a \notin S => f[a] = 0
  PROVE  SumFunctionOnSet(k, S \cup {a}) = SumFunctionOnSet(f, S) + (k[a] - f[a])
<1>1. SumFunctionOnSet(f, S) \in Int
  BY SumIsInteger
<1>2. CASE a \in S
  <2>1. S \cup {a} = S
    BY <1>2
  <2>2. SumFunctionOnSet(k, S) = SumFunctionOnSet(f, S) - f[a] + k[a]
    BY <1>2, SumWithChange
  <2> QED BY <1>1, <2>1, <2>2
<1>3. CASE a \notin S
  <2>1. SumFunctionOnSet(k, S) = SumFunctionOnSet(f, S)
    BY <1>3, SumCongruent
  <2>2. SumFunctionOnSet(k, S \cup {a}) = SumFunctionOnSet(k, S) + k[a]
    BY <1>3, SumWithElement
  <2> QED BY <1>1, <1>3, <2>1, <2>2
<1> QED BY <1>2, <1>3

\* A posting keeps the accounts, and takes nothing back.
LEMMA PostedAccounts ==
  ASSUME MoneyInv, AccountInv, MoneyInv', NEW r \in Reservations, NEW c \in Cycles,
         NEW released \in Int, NEW spent \in Nat, Posted(r, c, released, spent)
  PROVE  AccountInv' /\ CostFinalStep
<1>1. TypeOK /\ TypeOK' /\ Charge(c, released, spent)
  BY DEF MoneyInv, Posted
<1>2. /\ \A x \in Reservations : x # r => reservation'[x] = reservation[x]
      /\ reservation'[r].state # "None" /\ reservation'[r].cycle = c
      /\ reservation[r].state # "Reconciled"
      /\ reservation[r].state # "None" => reservation[r].cycle = c
      /\ Holdings'[r] = Holdings[r] - released /\ Charges'[r] = Charges[r] + spent
  BY DEF Posted
<1>3. \A x \in Reservations : x # r => Holdings'[x] = Holdings[x] /\ Charges'[x] = Charges[x]
  BY <1>2 DEF Holdings, Charges
<1>4. \A x \in Reservations : Holdings'[x] \in Int /\ Charges'[x] \in Int
  <2>1. \A x \in Reservations : reservation'[x].held \in Nat /\ reservation'[x].charged \in Nat
    BY <1>1 DEF TypeOK, ReservationRows
  <2> QED BY <2>1 DEF Holdings, Charges
<1>5. \A e \in Envelopes :
        /\ e \in {Society, c} =>
             /\ envelope'[e].reserved = envelope[e].reserved - released
             /\ envelope'[e].spent = envelope[e].spent + spent
             /\ ChargedTo(e)' = ChargedTo(e) \cup {r}
        /\ e \notin {Society, c} =>
             envelope'[e] = envelope[e] /\ ChargedTo(e)' = ChargedTo(e) /\ r \notin ChargedTo(e)
  <2>1. \A e \in Envelopes :
          /\ e \in {Society, c} =>
               /\ envelope'[e].reserved = envelope[e].reserved - released
               /\ envelope'[e].spent = envelope[e].spent + spent
          /\ e \notin {Society, c} => envelope'[e] = envelope[e]
    BY <1>1 DEF Charge
  <2>2. ASSUME NEW e \in {Society, c} PROVE ChargedTo(e)' = ChargedTo(e) \cup {r}
    BY <1>2 DEF ChargedTo
  <2>3. ASSUME NEW e \in Envelopes, e \notin {Society, c}
        PROVE  ChargedTo(e)' = ChargedTo(e) /\ r \notin ChargedTo(e)
    BY <1>2, <2>3 DEF ChargedTo
  <2> QED BY <2>1, <2>2, <2>3
<1>6. EnvelopeAccounting'
  <2>1. SUFFICES ASSUME NEW e \in Envelopes
                 PROVE  /\ envelope'[e].reserved = SumFunctionOnSet(Holdings', ChargedTo(e)')
                        /\ envelope'[e].spent = SumFunctionOnSet(Charges', ChargedTo(e)')
    BY DEF EnvelopeAccounting
  <2> DEFINE S == ChargedTo(e)
  <2>2. /\ IsFiniteSet(S) /\ S \subseteq Reservations
        /\ \A x \in Reservations : Holdings[x] \in Nat /\ Charges[x] \in Nat
        /\ envelope[e].reserved \in Int /\ envelope[e].spent \in Nat
    BY AccountRows
  <2>3. /\ envelope[e].reserved = SumFunctionOnSet(Holdings, S)
        /\ envelope[e].spent = SumFunctionOnSet(Charges, S)
    BY DEF AccountInv, EnvelopeAccounting
  <2>4. CASE e \in {Society, c}
    <3>1. r \notin S => Holdings[r] = 0 /\ Charges[r] = 0
      <4>1. r \notin S => reservation[r].state = "None"
        BY <1>2, <2>4 DEF ChargedTo
      <4> QED BY <4>1, AccountRows
    <3> HIDE DEF S
    <3>2. SumFunctionOnSet(Holdings', S \cup {r})
            = SumFunctionOnSet(Holdings, S) + (Holdings'[r] - Holdings[r])
      BY <1>3, <1>4, <2>2, <3>1, SumPosted, SMTT(30)
    <3>3. SumFunctionOnSet(Charges', S \cup {r})
            = SumFunctionOnSet(Charges, S) + (Charges'[r] - Charges[r])
      BY <1>3, <1>4, <2>2, <3>1, SumPosted, SMTT(30)
    <3>4. ChargedTo(e)' = S \cup {r}
      BY <1>5, <2>4 DEF S
    <3>5. /\ envelope'[e].reserved = envelope[e].reserved - released
          /\ envelope'[e].spent = envelope[e].spent + spent
      BY <1>5, <2>4
    <3>6. Holdings'[r] - Holdings[r] = -released /\ Charges'[r] - Charges[r] = spent
      BY <1>2, <2>2
    <3>7. SumFunctionOnSet(Holdings', S \cup {r}) = envelope[e].reserved - released
      BY <2>2, <2>3, <3>2, <3>6
    <3>8. SumFunctionOnSet(Charges', S \cup {r}) = envelope[e].spent + spent
      BY <2>2, <2>3, <3>3, <3>6
    <3> QED BY <3>4, <3>5, <3>7, <3>8
  <2>5. CASE e \notin {Society, c}
    <3>1. ChargedTo(e)' = S /\ r \notin S /\ envelope'[e] = envelope[e]
      BY <1>5, <2>5
    <3> HIDE DEF S
    <3>2. /\ SumFunctionOnSet(Holdings', S) = SumFunctionOnSet(Holdings, S)
          /\ SumFunctionOnSet(Charges', S) = SumFunctionOnSet(Charges, S)
      BY <1>3, <2>2, <3>1, SumCongruent
    <3> QED BY <2>3, <3>1, <3>2
  <2> QED BY <2>4, <2>5
<1>7. \A x \in Reservations : reservation'[x].state = "None" => reservation'[x].charged = 0
  BY <1>2 DEF AccountInv
<1>8. IsFiniteSet(ChargedTo(Society))'
  <2>1. IsFiniteSet(ChargedTo(Society) \cup {r})
    BY FS_AddElement DEF AccountInv
  <2> QED BY <1>5, <2>1 DEF Envelopes
<1>9. CostFinalStep
  <2>1. \A e \in Envelopes : envelope'[e].spent >= envelope[e].spent
    BY <1>5, AccountRows
  <2>2. reservation'[r].charged >= reservation[r].charged
    <3>1. /\ Charges'[r] = reservation'[r].charged /\ Charges[r] = reservation[r].charged
          /\ Charges[r] \in Nat
      BY AccountRows DEF Charges
    <3> QED BY <1>2, <3>1
  <2>3. \A x \in Reservations : reservation[x].charged \in Nat
    BY <1>1 DEF TypeOK, ReservationRows
  <2> QED BY <1>2, <2>1, <2>2, <2>3 DEF CostFinalStep
<1> QED BY <1>6, <1>7, <1>8, <1>9 DEF AccountInv

\* So does a step that changes neither what is held nor what was charged.
LEMMA QuietAccounts ==
  ASSUME MoneyInv, AccountInv, UNCHANGED envelope,
         \A x \in Reservations :
           /\ reservation'[x].state = "None" <=> reservation[x].state = "None"
           /\ reservation'[x].cycle = reservation[x].cycle
           /\ reservation'[x].charged = reservation[x].charged
           /\ Holdings'[x] = Holdings[x]
           /\ reservation[x].state = "Reconciled" => reservation'[x] = reservation[x]
  PROVE  AccountInv' /\ CostFinalStep
<1>1. \A e : ChargedTo(e)' = ChargedTo(e)
  BY DEF ChargedTo
<1>2. Holdings' = Holdings /\ Charges' = Charges
  BY DEF Holdings, Charges
<1>3. EnvelopeAccounting'
  BY <1>1, <1>2 DEF AccountInv, EnvelopeAccounting
<1>4. AccountInv'
  BY <1>1, <1>3 DEF AccountInv
<1>5. /\ \A e \in Envelopes : envelope[e].spent \in Nat
      /\ \A x \in Reservations : reservation[x].charged \in Nat
  BY DEF MoneyInv, TypeOK, EnvelopeRows, ReservationRows
<1> QED BY <1>4, <1>5 DEF CostFinalStep

\* A freeze holds what it froze.
LEMMA FreezeAccounts ==
  ASSUME MoneyInv, AccountInv, NEW r \in Reservations, reservation[r].state = "Reserved",
         NEW cause, NEW observed, Freeze(r, cause, observed)
  PROVE  AccountInv' /\ CostFinalStep
<1>1. /\ reservation' = [reservation EXCEPT ![r].state = "Frozen"] /\ UNCHANGED envelope
      /\ reservation \in [Reservations -> ReservationRows]
  BY DEF Freeze, MoneyInv, TypeOK
<1>2. /\ \A x \in Reservations : x # r => reservation'[x] = reservation[x]
      /\ reservation'[r].state = "Frozen" /\ reservation'[r].cycle = reservation[r].cycle
      /\ reservation'[r].charged = reservation[r].charged
      /\ reservation'[r].held = reservation[r].held
  BY <1>1 DEF ReservationRows
<1>3. \A x \in Reservations : Holdings'[x] = Holdings[x]
  BY <1>2 DEF Holdings
<1> QED BY <1>1, <1>2, <1>3, QuietAccounts

\* A proposed cycle starts with an empty account: nothing was charged to it.
LEMMA ProposeAccounts ==
  ASSUME MoneyInv, AccountInv, NEW c \in Cycles, NEW treatment, NEW ceiling,
         ProposeOperatingCycle(c, treatment, ceiling)
  PROVE  AccountInv' /\ CostFinalStep
<1>1. /\ cycle[c].state = "None" /\ UNCHANGED reservation
      /\ envelope' = [envelope EXCEPT ![c] = [ceiling |-> ceiling, reserved |-> 0, spent |-> 0]]
      /\ envelope \in [Envelopes -> EnvelopeRows]
  BY DEF ProposeOperatingCycle, MoneyInv, TypeOK
<1>2. ChargedTo(c) = {}
  BY <1>1, SocietyAssumption DEF ChargedTo, MoneyInv, RowsLinked
<1>3. \A f : SumFunctionOnSet(f, {}) = 0
  BY FS_EmptySet, SumByDrawing
<1>4. /\ c \in Envelopes /\ envelope'[c].reserved = 0 /\ envelope'[c].spent = 0
      /\ \A e \in Envelopes : e # c => envelope'[e] = envelope[e]
  BY <1>1 DEF Envelopes
<1>5. envelope[c].spent = 0
  BY <1>2, <1>3, <1>4 DEF AccountInv, EnvelopeAccounting
<1>6. Holdings' = Holdings /\ Charges' = Charges /\ \A e : ChargedTo(e)' = ChargedTo(e)
  BY <1>1 DEF Holdings, Charges, ChargedTo
<1>7. EnvelopeAccounting'
  <2>1. SUFFICES ASSUME NEW e \in Envelopes
                 PROVE  /\ envelope'[e].reserved = SumFunctionOnSet(Holdings', ChargedTo(e)')
                        /\ envelope'[e].spent = SumFunctionOnSet(Charges', ChargedTo(e)')
    BY DEF EnvelopeAccounting
  <2>2. CASE e = c
    BY <1>2, <1>3, <1>4, <1>6, <2>2
  <2>3. CASE e # c
    BY <1>4, <1>6, <2>3 DEF AccountInv, EnvelopeAccounting
  <2> QED BY <2>2, <2>3
<1>8. AccountInv'
  BY <1>1, <1>6, <1>7 DEF AccountInv
<1>9. /\ \A e \in Envelopes : envelope[e].spent \in Nat
      /\ \A x \in Reservations : reservation[x].charged \in Nat
  BY DEF MoneyInv, TypeOK, EnvelopeRows, ReservationRows
<1> QED BY <1>1, <1>4, <1>5, <1>8, <1>9 DEF CostFinalStep

\* The rows of a posting: only r's changes, and what it holds and was charged
\* move by what its envelopes do.
LEMMA PostedRow ==
  ASSUME MoneyInv, AccountInv, NEW r \in Reservations, NEW c \in Cycles,
         NEW released \in Int, NEW spent \in Nat, Charge(c, released, spent),
         NEW row \in ReservationRows, reservation' = [reservation EXCEPT ![r] = row],
         row.state # "None", row.cycle = c, reservation[r].state # "Reconciled",
         reservation[r].state # "None" => reservation[r].cycle = c,
         (IF row.state \in {"Reserved", "Frozen"} THEN row.held ELSE 0) = Holdings[r] - released,
         row.charged = reservation[r].charged + spent
  PROVE  Posted(r, c, released, spent)
<1>1. reservation \in [Reservations -> ReservationRows]
  BY DEF MoneyInv, TypeOK
<1>2. reservation'[r] = row /\ \A x \in Reservations : x # r => reservation'[x] = reservation[x]
  BY <1>1
<1>3. /\ Holdings'[r] = IF row.state \in {"Reserved", "Frozen"} THEN row.held ELSE 0
      /\ Charges'[r] = row.charged /\ Charges[r] = reservation[r].charged
  BY <1>2 DEF Holdings, Charges
<1> QED BY <1>2, <1>3 DEF Posted

\* reserve_budget posts the amount as held.
LEMMA InsertPosts ==
  ASSUME MoneyInv, AccountInv, NEW r \in Reservations, NEW c \in Cycles, NEW amount \in Nat,
         InsertReservation(r, c, amount)
  PROVE  Posted(r, c, -amount, 0)
<1> DEFINE row == [state |-> "Reserved", cycle |-> c, amount |-> amount, charged |-> 0,
                   held |-> amount]
<1>1. /\ reservation' = [reservation EXCEPT ![r] = row] /\ Charge(c, -amount, 0)
      /\ reservation[r].state = "None"
  BY DEF InsertReservation
<1>2. /\ row \in ReservationRows /\ row.state = "Reserved" /\ row.cycle = c /\ row.held = amount
      /\ row.charged = 0
  BY DEF ReservationRows
<1>3. Holdings[r] = 0 /\ reservation[r].charged = 0 /\ -amount \in Int
  BY <1>1, AccountRows DEF AccountInv
<1> HIDE DEF row
<1>4. /\ (IF row.state \in {"Reserved", "Frozen"} THEN row.held ELSE 0) = Holdings[r] - (-amount)
      /\ row.charged = reservation[r].charged + 0
  BY <1>2, <1>3
<1> QED BY <1>1, <1>2, <1>3, <1>4, PostedRow

\* A settlement posts what is still held as released.
LEMMA SettlePosts ==
  ASSUME MoneyInv, AccountInv, NEW r \in Reservations, reservation[r].state \in {"Reserved", "Frozen"},
         NEW spent \in Nat, Charge(reservation[r].cycle, reservation[r].held, spent),
         NEW row \in ReservationRows, reservation' = [reservation EXCEPT ![r] = row],
         row.state = "Reconciled", row.cycle = reservation[r].cycle,
         row.charged = reservation[r].charged + spent
  PROVE  /\ reservation[r].cycle \in Cycles /\ reservation[r].held \in Int
         /\ Posted(r, reservation[r].cycle, reservation[r].held, spent)
<1>1. reservation[r].held \in Int /\ Holdings[r] = reservation[r].held
  BY DEF Holdings, MoneyInv, TypeOK, ReservationRows
<1>2. reservation[r].cycle \in Cycles
  BY DEF MoneyInv, RowsLinked
<1>3. (IF row.state \in {"Reserved", "Frozen"} THEN row.held ELSE 0) = Holdings[r] - reservation[r].held
  BY <1>1
<1> QED BY <1>1, <1>2, <1>3, PostedRow

\* What a step does to the accounts.
AccountStep ==
    \/ UNCHANGED <<envelope, reservation>>
    \/ \E c \in Cycles : \E treatment \in Treatments : \E ceiling \in Ceilings :
         ProposeOperatingCycle(c, treatment, ceiling)
    \/ \E r \in Reservations : \E cause : \E observed :
         reservation[r].state = "Reserved" /\ Freeze(r, cause, observed)
    \/ \E r \in Reservations : \E c \in Cycles : \E released \in Int : \E spent \in Nat :
         Posted(r, c, released, spent)

\* A known cost within the amount is posted.
LEMMA SettleKnownPosts ==
  ASSUME MoneyInv, AccountInv, NEW r \in Reservations, reservation[r].state = "Reserved",
         NEW observed \in Nat, NEW left \in Nat, observed >= reservation[r].charged,
         SettleKnown(r, observed, left)
  PROVE  AccountStep
<1> DEFINE spent == observed - reservation[r].charged
           row == [reservation[r] EXCEPT !.state = "Reconciled", !.charged = observed, !.held = left]
<1>1. reservation \in [Reservations -> ReservationRows] /\ reservation[r] \in ReservationRows
  BY DEF MoneyInv, TypeOK
<1>2. reservation[r].charged \in Nat
  BY <1>1 DEF ReservationRows
<1>3. spent \in Nat /\ observed = reservation[r].charged + spent
  BY <1>2
<1>4. /\ Charge(reservation[r].cycle, reservation[r].held, spent)
      /\ reservation' = [reservation EXCEPT ![r] = row]
  BY <1>1 DEF SettleKnown
<1>5. /\ row \in ReservationRows /\ row.state = "Reconciled" /\ row.charged = observed
      /\ row.cycle = reservation[r].cycle
  BY <1>1 DEF ReservationRows
<1> HIDE DEF spent, row
<1>6. row.charged = reservation[r].charged + spent
  BY <1>3, <1>5
<1>7. /\ reservation[r].cycle \in Cycles /\ reservation[r].held \in Int
      /\ Posted(r, reservation[r].cycle, reservation[r].held, spent)
  BY <1>3, <1>4, <1>5, <1>6, SettlePosts
<1> QED BY <1>3, <1>7 DEF AccountStep

\* An incremental charge of a turn is posted.
LEMMA SettleTurnPosts ==
  ASSUME MoneyInv, AccountInv, NEW r \in Reservations, reservation[r].state = "Reserved",
         NEW delta \in Nat, delta <= reservation[r].held,
         Charge(reservation[r].cycle, delta, delta),
         reservation' = [reservation EXCEPT ![r].charged = @ + delta, ![r].held = @ - delta]
  PROVE  AccountStep
<1> DEFINE row == [reservation[r] EXCEPT !.charged = reservation[r].charged + delta,
                                         !.held = reservation[r].held - delta]
<1>1. reservation \in [Reservations -> ReservationRows] /\ reservation[r] \in ReservationRows
  BY DEF MoneyInv, TypeOK
<1>2. reservation[r].charged \in Nat /\ reservation[r].held \in Nat /\ reservation[r].cycle \in Cycles
  BY <1>1 DEF ReservationRows, MoneyInv, RowsLinked
<1>3. reservation[r].charged + delta \in Nat /\ reservation[r].held - delta \in Nat /\ delta \in Int
  BY <1>2
<1>4. reservation' = [reservation EXCEPT ![r] = row]
  BY <1>1
<1>5. /\ row \in ReservationRows /\ row.state = "Reserved"
      /\ row.charged = reservation[r].charged + delta
      /\ row.held = reservation[r].held - delta /\ row.cycle = reservation[r].cycle
  BY <1>1, <1>3 DEF ReservationRows
<1>6. Holdings[r] = reservation[r].held
  BY DEF Holdings
<1> HIDE DEF row
<1>7. (IF row.state \in {"Reserved", "Frozen"} THEN row.held ELSE 0) = Holdings[r] - delta
  BY <1>5, <1>6
<1>8. Posted(r, reservation[r].cycle, delta, delta)
  BY <1>2, <1>3, <1>4, <1>5, <1>7, PostedRow
<1> QED BY <1>2, <1>3, <1>8 DEF AccountStep

\* The resolution of a Postmortem is posted.
LEMMA ClosePostmortemPosts ==
  ASSUME MoneyInv, AccountInv, NEW r \in Reservations, CloseCostPostmortem(r)
  PROVE  AccountStep
<1> DEFINE charged == PostmortemCharge(r)
           row == [reservation[r] EXCEPT !.state = "Reconciled",
                                         !.charged = reservation[r].charged + charged]
<1>1. /\ reservation \in [Reservations -> ReservationRows] /\ reservation[r] \in ReservationRows
      /\ reservation[r].state = "Frozen" /\ postmortem[r].state = "Open"
  BY DEF MoneyInv, TypeOK, CloseCostPostmortem
<1>2. /\ reservation[r].amount \in Nat /\ reservation[r].charged \in Nat
      /\ reservation[r].held \in Nat
      /\ reservation[r].held = reservation[r].amount - reservation[r].charged
      /\ postmortem[r].reserved = reservation[r].held
      /\ postmortem[r].observed \in Nat
      /\ postmortem[r].cause = "KnownOverrun" =>
             postmortem[r].observed > reservation[r].amount
  BY <1>1 DEF MoneyInv, ReservationHold, PostmortemMatches, TypeOK, ReservationRows,
              PostmortemRows
<1>3. charged \in Nat /\ reservation[r].charged + charged \in Nat
  BY <1>2 DEF PostmortemCharge
<1>4. /\ reservation' = [reservation EXCEPT ![r] = row]
      /\ Charge(reservation[r].cycle, reservation[r].held, charged)
  BY <1>1 DEF CloseCostPostmortem
<1> HIDE DEF charged
<1>5. /\ row \in ReservationRows /\ row.state = "Reconciled"
      /\ row.charged = reservation[r].charged + charged
      /\ row.cycle = reservation[r].cycle
  BY <1>1, <1>3 DEF ReservationRows
<1> HIDE DEF row
<1>6. /\ reservation[r].cycle \in Cycles /\ reservation[r].held \in Int
      /\ Posted(r, reservation[r].cycle, reservation[r].held, charged)
  BY <1>1, <1>3, <1>4, <1>5, SettlePosts
<1> QED BY <1>3, <1>6 DEF AccountStep

\* Every step is one of the four.
LEMMA StepAccounts ==
  ASSUME MoneyInv, AccountInv, Next
  PROVE  AccountStep
<1>1. TypeOK
  BY DEF MoneyInv
<1>2. ASSUME NEW r \in Reservations, NEW c \in Cycles, NEW amount \in Amounts,
             InsertReservation(r, c, amount)
      PROVE  AccountStep
  <2>1. amount \in Nat
    BY MoneyAssumption
  <2>2. Posted(r, c, -amount, 0) /\ -amount \in Int /\ 0 \in Nat
    BY <1>2, <2>1, InsertPosts
  <2> QED BY <2>2 DEF AccountStep
<1>3. ASSUME NEW r \in Reservations, reservation[r].state = "Reserved",
             NEW cause, NEW observed, Freeze(r, cause, observed)
      PROVE  AccountStep
  BY <1>3 DEF AccountStep
<1>4. ASSUME NEW c \in Cycles, NextCycle(c) PROVE AccountStep
  BY <1>4 DEF AccountStep, NextCycle, AdmitOperatingCycle, StartRootAuthorityOfficeSession,
     StartNativeExecutionProfileQualification, QuiesceOperatingCycle, RecordCycleDrained,
     ResumeOperatingCycle, ReconcileOperatingCycle, CloseOperatingCycle
<1>5. ASSUME NEW c \in Cycles, NextWork(c) PROVE AccountStep
  <2>1. \/ UNCHANGED <<envelope, reservation>>
        \/ \E r \in Reservations, amount \in Amounts : InsertReservation(r, c, amount)
    BY <1>5 DEF NextWork, ClaimWorkItem, StartActorAttempt, AttestActorAttemptTerminal,
       ExpireWorkLease
  <2> QED BY <1>2, <2>1 DEF AccountStep
<1>6. ASSUME NEW r \in Reservations, NextBudget(r) PROVE AccountStep
  <2>1. reservation[r].held \in Nat /\ reservation[r].charged \in Nat /\ reservation[r].amount \in Nat
    BY <1>1 DEF TypeOK, ReservationRows
  <2>2. ASSUME NEW observed \in Observations, ReconcileKnownBudget(r, observed) PROVE AccountStep
    <3>1. /\ observed \in Nat /\ reservation[r].state = "Reserved"
          /\ observed >= reservation[r].charged
          /\ Freeze(r, "KnownOverrun", observed) \/ SettleKnown(r, observed, reservation[r].held)
      BY <2>2, MoneyAssumption DEF ReconcileKnownBudget
    <3> QED BY <1>3, <2>1, <3>1, SettleKnownPosts
  <2>3. CASE ReconcileUnknownBudget(r)
    BY <1>3, <2>3 DEF ReconcileUnknownBudget
  <2>4. CASE CloseCostPostmortem(r)
    BY <2>4, ClosePostmortemPosts
  <2>5. ASSUME NEW c \in Cycles, NEW amount \in Amounts, ReserveBudget(r, c, amount)
        PROVE  AccountStep
    BY <1>2, <2>5 DEF ReserveBudget
  <2> QED BY <1>6, <2>2, <2>3, <2>4, <2>5 DEF NextBudget
<1>7. ASSUME NEW q \in Requests, NextCancellation(q) PROVE AccountStep
  BY <1>7 DEF AccountStep, NextCancellation, RequestCancellation, BeginCancellationPropagation,
     ReconcileCancellationPropagation, ReconcileCancellation
<1>8. ASSUME NEW k \in Children, NextChild(k) PROVE AccountStep
  BY <1>8 DEF AccountStep, NextChild, AdmitPiChildSpawn, RecordInertChildSpawn,
     RecordNativeChildNotSpawned, AuthorizePiCreateSession, RecordPiSessionReady,
     RecordChildCustody, SetChild
<1>9. ASSUME NEW c \in Cycles, NextOffice(c) PROVE AccountStep
  <2> DEFINE r == session[c].reservation
  <2>1. ASSUME session[c].state \in {"Ready", "TurnActive", "Quiescing"}
        PROVE  /\ r \in Reservations /\ reservation[r].cycle = c
               /\ reservation[r].charged \in Nat /\ reservation[r].amount \in Nat
    BY <1>1, <2>1, SessionIsBound DEF TypeOK, ReservationRows
  <2>2. ASSUME NEW observed \in Observations, SettleOfficeTurn(c, observed) PROVE AccountStep
    <3> DEFINE delta == observed - reservation[r].charged
    <3>1. /\ session[c].state = "TurnActive" /\ observed \in Nat
          /\ reservation[r].state = "Reserved" /\ observed >= reservation[r].charged
          /\ \/ Freeze(r, "KnownOverrun", observed)
             \/ /\ delta <= reservation[r].held /\ Charge(c, delta, delta)
                /\ reservation' = [reservation EXCEPT ![r].charged = @ + delta, ![r].held = @ - delta]
      BY <2>2, MoneyAssumption DEF SettleOfficeTurn, HasActiveTurn
    <3>2. delta \in Nat /\ r \in Reservations /\ reservation[r].cycle = c
      BY <2>1, <3>1
    <3> HIDE DEF delta, r
    <3> QED BY <1>3, <3>1, <3>2, SettleTurnPosts
  <2>3. ASSUME NEW observed \in Observations, RecordPiOfficeSessionDisposed(c, observed)
        PROVE  AccountStep
    <3>1. /\ session[c].state = "Quiescing" /\ observed \in Nat
          /\ reservation[r].state = "Reserved" /\ observed >= reservation[r].charged
          /\ Freeze(r, "KnownOverrun", observed) \/ SettleKnown(r, observed, 0)
      BY <2>3, MoneyAssumption DEF RecordPiOfficeSessionDisposed
    <3>2. r \in Reservations /\ 0 \in Nat
      BY <2>1, <3>1
    <3> HIDE DEF r
    <3> QED BY <1>3, <3>1, <3>2, SettleKnownPosts
  <2>4. CASE RecordPiOfficeTurnUsageFailure(c) \/ RecordPiOfficeSessionDisposeUsageFailure(c)
    <3>1. /\ session[c].state \in {"TurnActive", "Quiescing"} /\ reservation[r].state = "Reserved"
          /\ Freeze(r, "UnknownCost", 0)
      BY <2>4 DEF RecordPiOfficeTurnUsageFailure, RecordPiOfficeSessionDisposeUsageFailure,
         HasActiveTurn
    <3>2. r \in Reservations
      BY <2>1, <3>1
    <3> HIDE DEF r
    <3> QED BY <1>3, <3>1, <3>2
  <2>5. CASE \/ RecordOfficeSessionReady(c) \/ AuthorizePiOfficeTurnPrompt(c)
             \/ \E terminal \in {"Cancelled", "Failed"} : RecordOfficeSessionTerminal(c, terminal)
             \/ \E purpose \in {"OrdinaryWork", "Closure"} : OpenOfficeTurn(c, purpose)
             \/ AuthorizePiOfficeSessionDispose(c)
    BY <2>5 DEF AccountStep, RecordOfficeSessionReady, RecordOfficeSessionTerminal, OpenOfficeTurn,
       AuthorizePiOfficeTurnPrompt, AuthorizePiOfficeSessionDispose
  <2> QED BY <1>9, <2>2, <2>3, <2>4, <2>5 DEF NextOffice
<1> QED BY <1>4, <1>5, <1>6, <1>7, <1>8, <1>9 DEF Next

\* The accounts are kept, and nothing is taken back.
LEMMA AccountInductive ==
  ASSUME MoneyInv, AccountInv, [Next]_vars
  PROVE  AccountInv' /\ [CostFinalStep]_vars
<1>1. CASE UNCHANGED vars
  <2>1. \A x \in Reservations : Holdings'[x] = Holdings[x]
    BY <1>1 DEF vars, Holdings
  <2>2. AccountInv' /\ CostFinalStep
    BY <1>1, <2>1, QuietAccounts DEF vars
  <2> QED BY <2>2
<1>2. CASE Next
  <2>1. MoneyInv'
    BY <1>2, MoneyInductive
  <2>2. AccountStep
    BY <1>2, StepAccounts
  <2>3. CASE UNCHANGED <<envelope, reservation>>
    <3>1. \A x \in Reservations : Holdings'[x] = Holdings[x]
      BY <2>3 DEF Holdings
    <3>2. AccountInv' /\ CostFinalStep
      BY <2>3, <3>1, QuietAccounts
    <3> QED BY <3>2
  <2> QED BY <2>1, <2>2, <2>3, ProposeAccounts, FreezeAccounts, PostedAccounts DEF AccountStep
<1> QED BY <1>1, <1>2

\* A bootstrapped society has empty accounts.
LEMMA InitAccounts == Init => AccountInv
<1> SUFFICES ASSUME Init PROVE AccountInv
  OBVIOUS
<1>1. \A e : ChargedTo(e) = {}
  BY DEF Init, ChargedTo, NoReservation
<1>2. \A f : SumFunctionOnSet(f, {}) = 0
  BY FS_EmptySet, SumByDrawing
<1>3. EnvelopeAccounting
  BY <1>1, <1>2 DEF Init, EnvelopeAccounting
<1> QED BY <1>1, <1>3, FS_EmptySet DEF Init, AccountInv, NoReservation

\* Every reachable state has the accounts in order.
THEOREM AccountInvariant == Spec => []AccountInv
<1>1. MoneyInv /\ AccountInv /\ [Next]_vars => AccountInv'
  BY AccountInductive
<1> QED BY <1>1, InitAccounts, MoneyInvariant, PTL DEF Spec

\* Known cost reconciles exactly, whatever the order of turns, settlements,
\* freezes and Postmortems: both counters of every envelope are the sums over
\* its reservations of what they hold and were charged.
THEOREM EnvelopesAccount == Spec => []EnvelopeAccounting
  BY AccountInvariant, PTL DEF AccountInv

\* No step lowers what an envelope spent or a reservation was charged, and a
\* reconciled reservation is never written again.
THEOREM CostsAreFinal == Spec => CostIsFinal
<1>1. MoneyInv /\ AccountInv /\ [Next]_vars => [CostFinalStep]_vars
  BY AccountInductive
<1> QED BY <1>1, MoneyInvariant, AccountInvariant, PTL DEF Spec, CostIsFinal, CostFinalStep

=============================================================================
