----------------------------- MODULE StudyProofs -----------------------------
(***************************************************************************)
(* What Study checks on two arms and a fork, for every set of episodes,    *)
(* roles and slots and for every budget.                                   *)
(*                                                                         *)
(* The invariant speaks of rows: of an episode and the length of its       *)
(* thread, of a message and its episode, of an obligation, its episode and *)
(* its child, of a pair and its arms.  A step that changes one row is      *)
(* judged on that row alone (EpisodeStep, ObligationStep, ChildStep); the  *)
(* steps that write to a thread are taken one by one.                      *)
(***************************************************************************)
EXTENDS Study, FiniteSetTheorems, TLAPS

-----------------------------------------------------------------------------
(* The inductive invariant.                                                *)

Corrected == {"CorrectionReleased", "SuccessorActive", "Closed"}
Handed == {"SourceReconciled", "SuccessorAdmitted"} \cup Corrected

Typed ==
    /\ revisions \subseteq {"Protocol", "World", "Measurement", "Institution"}
    /\ populations \in 0..2
    /\ pairs \subseteq Episodes \X Episodes
    /\ run \in [state : RunStates, registered : SUBSET pairs]
    /\ episode \in [Episodes -> EpisodeRows]
    /\ thread \in [Episodes -> Seq(Messages)]
    /\ obligation \in [Seats -> ObligationRows]
    /\ allocated \subseteq Seats /\ children \in Seq(ChildRows)
    /\ events \in 0..MaxEvents

\* An episode row x whose thread has n messages: a head is frozen before the
\* handover and nothing is added to it before the correction; the reveal and
\* the measurements come after the correction.
EpisodeSound(x, n) ==
    /\ x.state = "None" => x = NoEpisode
    /\ x.state \in Handed => x.frozen # NoHead
    /\ x.frozen # NoHead => x.state \in Handed \cup {"SourceActive"} /\ x.frozen <= n
    /\ x.frozen # NoHead /\ x.state \notin Corrected => n = x.frozen
    /\ x.state \in Corrected => x.frozen < n
    /\ x.revealed => x.state \in Corrected
    /\ x.measured # {} => x.revealed
    /\ x.state = "Closed" => x.measured = Slots

\* Message i of episode e, whose row is x: the source population writes up to
\* the frozen head, the service right after it, the successors later.
MessageSound(e, x, i, m) ==
    /\ m.author # Service => EpisodeOf(m.author) = e
    /\ m.author # Service /\ PhaseOf(m.author) = "Source" /\ x.frozen # NoHead => i <= x.frozen
    /\ m.author # Service /\ PhaseOf(m.author) = "Successor" => x.frozen # NoHead /\ i > x.frozen
    /\ m.author = Service => x.state \in Corrected /\ i = x.frozen + 1

\* Who replies was exposed to what they reply to.
TargetSound(m) ==
    m.author # Service /\ m.target # 0 =>
        obligation[m.author].from # 0 /\ m.target >= obligation[m.author].from

ExposureOf(x) == IF x.treatment = "Reset" THEN x.frozen + 1 ELSE 1

\* The row r of the seat o, in an episode x whose thread has n messages.
SeatSound(o, r, x, n) ==
    /\ r.state = "None" => r = NoObligation
    /\ r.state # "None" => x.treatment # "None" /\ x.state \notin {"None", "Admitted"}
    /\ r.state = "Active" /\ PhaseOf(o) = "Source" => x.frozen = NoHead
    /\ r.state # "None" /\ PhaseOf(o) = "Successor" => x.state \in {"SuccessorAdmitted"} \cup Corrected
    /\ r.through <= n /\ r.decision <= n
    /\ r.from # 0 /\ PhaseOf(o) = "Successor" =>
         r.from = ExposureOf(x) /\ (x.state \in Corrected => r.through > x.frozen)
    /\ \A k \in DOMAIN r.reads : r.from # 0 /\ r.reads[k].first >= r.from
    /\ PhaseOf(o) = "Successor" /\ x.treatment = "Reset" /\ r.decision \notin {0, NoDecision} =>
         r.decision > x.frozen
    /\ r.state = "Active" => ~x.revealed /\ x.state # "Closed"

\* The row r of the seat o and the children: a binding is of the seat's own
\* child or of an Office's, and ends with it.
RuntimeSound(o, r, cs) ==
    /\ (r.child # 0) = (r.binding # "None") /\ r.child <= Len(cs)
    /\ r.state \in {"Completed", "Failed"} => r.binding # "Bound"
    /\ r.child # 0 => cs[r.child].for \in {o, Office}
    /\ r.binding = "Reconciled" => cs[r.child].state = "Finalized"
    /\ r.binding = "RecoverySettled" => cs[r.child].state = "Lost"

\* A pair is one retained and one reset arm, of no other pair, corrected together.
PairsSound ==
    /\ \A p \in pairs :
         /\ episode[p[1]].treatment = "Retained" /\ episode[p[2]].treatment = "Reset"
         /\ episode[p[1]].state \in Corrected <=> episode[p[2]].state \in Corrected
    /\ \A p, q \in pairs : p[1] = q[1] \/ p[2] = q[2] => p = q
    /\ \A e \in Episodes : episode[e].state \in Corrected => \E p \in pairs : e \in {p[1], p[2]}

EpisodesSound == \A e \in Episodes : EpisodeSound(episode[e], Len(thread[e]))
MessagesSound ==
    \A e \in Episodes : \A i \in DOMAIN thread[e] :
        MessageSound(e, episode[e], i, thread[e][i]) /\ TargetSound(thread[e][i])
CorrectionsPlaced ==
    \A e \in Episodes : episode[e].state \in Corrected =>
        thread[e][episode[e].frozen + 1].author = Service
SeatsSound ==
    \A o \in Seats :
        SeatSound(o, obligation[o], episode[EpisodeOf(o)], Len(thread[EpisodeOf(o)]))
RuntimesSound == \A o \in Seats : RuntimeSound(o, obligation[o], children)
ChildrenDistinct ==
    \A o, q \in Seats : o # q /\ obligation[o].child # 0 => obligation[q].child # obligation[o].child
RunSound == run.state = "Completed" => RegisteredPairsClosed

StudyInv ==
    /\ Typed /\ EpisodesSound /\ MessagesSound /\ CorrectionsPlaced
    /\ SeatsSound /\ RuntimesSound /\ ChildrenDistinct /\ PairsSound /\ RunSound

-----------------------------------------------------------------------------
(* Rows.                                                                   *)

\* The parts of a seat; a seat is neither the service nor an Office.
LEMMA SeatParts ==
  ASSUME NEW o \in Seats
  PROVE  EpisodeOf(o) \in Episodes /\ PhaseOf(o) \in Phases /\ o # Service /\ o # Office
<1>1. PICK e \in Episodes, ph \in Phases, ro \in Roles : o = <<e, ph, ro>>
  BY DEF Seats
<1>2. Len(o) = 3 /\ Len(Service) = 0 /\ Len(Office) = 0
  BY <1>1 DEF Service, Office
<1> QED BY <1>1, <1>2 DEF EpisodeOf, PhaseOf

\* The parts of an episode's row.
LEMMA EpisodeParts ==
  ASSUME NEW x \in EpisodeRows
  PROVE  /\ x.state \in EpisodeStates \cup {"None"} /\ x.treatment \in Treatments \cup {"None"}
         /\ x.frozen \in Int /\ x.frozen >= NoHead
         /\ x.frozen # NoHead => x.frozen \in Nat
         /\ x.replaced \in BOOLEAN /\ x.revealed \in BOOLEAN /\ x.measured \subseteq Slots
BY DEF EpisodeRows, NoHead

\* The parts of an obligation's row.
LEMMA ObligationParts ==
  ASSUME NEW r \in ObligationRows
  PROVE  /\ r.state \in {"None", "Active", "Completed", "Failed"}
         /\ r.charged \in 0..UnitBudget /\ r.from \in Nat /\ r.through \in Nat
         /\ r.reads \in Seq([first : Nat, through : Nat, shown : SUBSET Nat])
         /\ r.decision \in Int /\ r.decision >= NoDecision
         /\ r.decision # NoDecision => r.decision \in Nat
         /\ r.claimed \in BOOLEAN /\ r.child \in Nat
         /\ r.binding \in {"None", "Bound", "Reconciled", "RecoverySettled"}
BY DEF ObligationRows, NoDecision

\* The rows of the tables.
LEMMA TypedRows ==
  ASSUME Typed
  PROVE  /\ \A e \in Episodes :
              episode[e] \in EpisodeRows /\ thread[e] \in Seq(Messages) /\ Len(thread[e]) \in Nat
              /\ DOMAIN thread[e] = 1..Len(thread[e])
         /\ \A o \in Seats : obligation[o] \in ObligationRows
         /\ Len(children) \in Nat /\ DOMAIN children = 1..Len(children)
BY DEF Typed

\* The parts of a message.
LEMMA MessageParts ==
  ASSUME Typed, NEW e \in Episodes, NEW i \in DOMAIN thread[e]
  PROVE  /\ thread[e][i] \in Messages /\ i \in Nat /\ i >= 1 /\ i <= Len(thread[e])
         /\ thread[e][i].author \in Seats \cup {Service} /\ thread[e][i].target \in Nat
<1>1. thread[e] \in Seq(Messages)
  BY DEF Typed
<1>2. thread[e][i] \in Messages /\ i \in Nat /\ i >= 1 /\ i <= Len(thread[e])
  BY <1>1
<1> QED BY <1>2 DEF Messages

\* Children may be added, and a child that has ended stays as it ended.
Grows(cs, ds) ==
    /\ ds \in Seq(ChildRows) /\ Len(ds) >= Len(cs)
    /\ \A c \in DOMAIN cs :
         ds[c].for = cs[c].for /\ (cs[c].state # "Live" => ds[c].state = cs[c].state)

-----------------------------------------------------------------------------
(* Steps that change one row.                                              *)

\* No arm is corrected or changes its treatment, and a closed one stays closed.
LEMMA PairsKeep ==
  ASSUME StudyInv, UNCHANGED <<run, pairs>>,
         \A f \in Episodes :
           /\ episode'[f].state \in Corrected <=> episode[f].state \in Corrected
           /\ episode[f].treatment # "None" => episode'[f].treatment = episode[f].treatment
           /\ episode[f].state = "Closed" => episode'[f].state = "Closed"
  PROVE  PairsSound' /\ RunSound'
<1>1. /\ \A p \in pairs : p[1] \in Episodes /\ p[2] \in Episodes
      /\ run.registered \subseteq pairs
  BY DEF StudyInv, Typed
<1>2. PairsSound'
  BY <1>1 DEF StudyInv, PairsSound
<1>3. \A p \in run.registered : \A k \in {1, 2} : p[k] \in Episodes
  BY <1>1
<1>4. RunSound'
  BY <1>3 DEF StudyInv, RunSound, RegisteredPairsClosed
<1> QED BY <1>2, <1>4

\* The row of one episode changes.
LEMMA EpisodeStep ==
  ASSUME StudyInv, NEW e \in Episodes, NEW y \in EpisodeRows,
         episode' = [episode EXCEPT ![e] = y],
         UNCHANGED <<revisions, populations, run, pairs, thread, obligation, allocated, children>>,
         events' \in 0..MaxEvents,
         EpisodeSound(y, Len(thread[e])),
         \A i \in DOMAIN thread[e] : MessageSound(e, y, i, thread[e][i]),
         \A o \in Seats : EpisodeOf(o) = e => SeatSound(o, obligation[o], y, Len(thread[e])),
         y.state \in Corrected <=> episode[e].state \in Corrected,
         y.state \in Corrected => y.frozen = episode[e].frozen,
         episode[e].treatment # "None" => y.treatment = episode[e].treatment,
         episode[e].state = "Closed" => y.state = "Closed"
  PROVE  StudyInv'
<1>1. episode \in [Episodes -> EpisodeRows]
  BY DEF StudyInv, Typed
<1>2. /\ episode'[e] = y /\ \A f \in Episodes : f # e => episode'[f] = episode[f]
      /\ episode' \in [Episodes -> EpisodeRows]
  BY <1>1
<1>3. Typed'
  BY <1>2 DEF StudyInv, Typed
<1>4. EpisodesSound'
  BY <1>2 DEF StudyInv, EpisodesSound
<1>5. MessagesSound'
  <2>1. SUFFICES ASSUME NEW f \in Episodes, NEW i \in DOMAIN thread[f]
                 PROVE  /\ MessageSound(f, episode'[f], i, thread[f][i])
                        /\ TargetSound(thread[f][i])'
    BY DEF MessagesSound
  <2>2. MessageSound(f, episode[f], i, thread[f][i]) /\ TargetSound(thread[f][i])
    BY DEF StudyInv, MessagesSound
  <2>3. TargetSound(thread[f][i])'
    BY <2>2 DEF TargetSound
  <2> QED BY <1>2, <2>2, <2>3
<1>6. CorrectionsPlaced'
  BY <1>2 DEF StudyInv, CorrectionsPlaced
<1>7. SeatsSound'
  BY <1>2, SeatParts DEF StudyInv, SeatsSound
<1>8. RuntimesSound' /\ ChildrenDistinct'
  BY DEF StudyInv, RuntimesSound, ChildrenDistinct
<1>9. \A f \in Episodes :
        /\ episode'[f].state \in Corrected <=> episode[f].state \in Corrected
        /\ episode[f].treatment # "None" => episode'[f].treatment = episode[f].treatment
        /\ episode[f].state = "Closed" => episode'[f].state = "Closed"
  BY <1>2
<1>10. PairsSound' /\ RunSound'
  BY <1>9, PairsKeep
<1> QED BY <1>3, <1>4, <1>5, <1>6, <1>7, <1>8, <1>10 DEF StudyInv

\* The row of one obligation changes, and perhaps children are added or end.
LEMMA ObligationStep ==
  ASSUME StudyInv, NEW o \in Seats, NEW r \in ObligationRows,
         obligation' = [obligation EXCEPT ![o] = r],
         UNCHANGED <<revisions, populations, run, pairs, episode, thread, allocated>>,
         events' \in 0..MaxEvents, Grows(children, children'),
         SeatSound(o, r, episode[EpisodeOf(o)], Len(thread[EpisodeOf(o)])),
         RuntimeSound(o, r, children'),
         \A q \in Seats : q # o /\ r.child # 0 => obligation[q].child # r.child,
         obligation[o].from # 0 => r.from = obligation[o].from
  PROVE  StudyInv'
<1>1. obligation \in [Seats -> ObligationRows] /\ children \in Seq(ChildRows)
  BY DEF StudyInv, Typed
<1>2. /\ obligation'[o] = r /\ \A q \in Seats : q # o => obligation'[q] = obligation[q]
      /\ obligation' \in [Seats -> ObligationRows]
  BY <1>1
<1>3. Typed'
  BY <1>2 DEF StudyInv, Typed, Grows
<1>4. EpisodesSound' /\ CorrectionsPlaced' /\ PairsSound' /\ RunSound'
  BY DEF StudyInv, EpisodesSound, CorrectionsPlaced, PairsSound, RunSound, RegisteredPairsClosed
<1>5. MessagesSound'
  <2>1. SUFFICES ASSUME NEW f \in Episodes, NEW i \in DOMAIN thread[f]
                 PROVE  /\ MessageSound(f, episode[f], i, thread[f][i])
                        /\ TargetSound(thread[f][i])'
    BY DEF MessagesSound
  <2>2. MessageSound(f, episode[f], i, thread[f][i]) /\ TargetSound(thread[f][i])
    BY DEF StudyInv, MessagesSound
  <2>3. thread[f][i].author \in Seats \cup {Service}
    BY MessageParts DEF StudyInv
  <2>4. TargetSound(thread[f][i])'
    BY <1>2, <2>2, <2>3 DEF TargetSound
  <2> QED BY <2>2, <2>4
<1>6. SeatsSound'
  BY <1>2 DEF StudyInv, SeatsSound
<1>7. RuntimesSound'
  <2>1. SUFFICES ASSUME NEW q \in Seats, q # o PROVE RuntimeSound(q, obligation[q], children')
    BY <1>2 DEF RuntimesSound
  <2>2. RuntimeSound(q, obligation[q], children) /\ obligation[q] \in ObligationRows
    BY <1>1 DEF StudyInv, RuntimesSound
  <2>3. /\ Len(children) \in Nat /\ Len(children') \in Nat /\ obligation[q].child \in Nat
        /\ Len(children') >= Len(children)
    BY <1>1, <2>2, ObligationParts DEF Grows
  <2>4. obligation[q].child # 0 => obligation[q].child \in DOMAIN children
    BY <1>1, <2>2, <2>3 DEF RuntimeSound
  <2>5. obligation[q].child <= Len(children')
    BY <2>2, <2>3 DEF RuntimeSound
  <2> QED BY <2>2, <2>4, <2>5 DEF RuntimeSound, Grows
<1>8. ChildrenDistinct'
  BY <1>2 DEF StudyInv, ChildrenDistinct
<1> QED BY <1>3, <1>4, <1>5, <1>6, <1>7, <1>8 DEF StudyInv

\* Children are added or end, or work is allocated.
LEMMA ChildStep ==
  ASSUME StudyInv, Grows(children, children'), allocated' \subseteq Seats,
         UNCHANGED <<revisions, populations, run, pairs, episode, thread, obligation>>,
         events' \in 0..MaxEvents
  PROVE  StudyInv'
<1>1. obligation \in [Seats -> ObligationRows] /\ children \in Seq(ChildRows)
  BY DEF StudyInv, Typed
<1>2. Typed'
  BY DEF StudyInv, Typed, Grows
<1>3. EpisodesSound' /\ CorrectionsPlaced' /\ PairsSound' /\ RunSound'
  BY DEF StudyInv, EpisodesSound, CorrectionsPlaced, PairsSound, RunSound, RegisteredPairsClosed
<1>4. MessagesSound' /\ SeatsSound' /\ ChildrenDistinct'
  BY DEF StudyInv, MessagesSound, TargetSound, SeatsSound, ChildrenDistinct
<1>5. RuntimesSound'
  <2>1. SUFFICES ASSUME NEW q \in Seats PROVE RuntimeSound(q, obligation[q], children')
    BY DEF RuntimesSound
  <2>2. RuntimeSound(q, obligation[q], children) /\ obligation[q] \in ObligationRows
    BY <1>1 DEF StudyInv, RuntimesSound
  <2>3. /\ Len(children) \in Nat /\ Len(children') \in Nat /\ obligation[q].child \in Nat
        /\ Len(children') >= Len(children)
    BY <1>1, <2>2, ObligationParts DEF Grows
  <2>4. obligation[q].child # 0 => obligation[q].child \in DOMAIN children
    BY <1>1, <2>2, <2>3 DEF RuntimeSound
  <2>5. obligation[q].child <= Len(children')
    BY <2>2, <2>3 DEF RuntimeSound
  <2> QED BY <2>2, <2>4, <2>5 DEF RuntimeSound, Grows
<1> QED BY <1>2, <1>3, <1>4, <1>5 DEF StudyInv

-----------------------------------------------------------------------------
(* Episodes.                                                               *)

\* A seat that no obligation was admitted to says nothing of its episode.
LEMMA EmptySeat ==
  ASSUME NEW o, NEW y, NEW n \in Nat
  PROVE  SeatSound(o, NoObligation, y, n)
<1>1. /\ NoObligation.state = "None" /\ NoObligation.from = 0 /\ NoObligation.through = 0
      /\ NoObligation.decision = NoDecision /\ DOMAIN NoObligation.reads = {}
  BY DEF NoObligation
<1>2. 0 <= n /\ NoDecision <= n
  BY DEF NoDecision
<1> QED BY <1>1, <1>2 DEF SeatSound

\* What a step may do to the row x of an episode e, to make it y.
Moves(e, x, y) ==
    /\ EpisodeSound(y, Len(thread[e]))
    /\ y.state \in Corrected <=> x.state \in Corrected
    /\ x.frozen # NoHead => y.frozen = x.frozen
    /\ x.frozen = NoHead /\ y.frozen # NoHead => y.frozen = Len(thread[e]) /\ SourceTerminal(e)
    /\ x.treatment # "None" => y.treatment = x.treatment
    /\ x.state \notin {"None", "Admitted"} =>
         y.treatment = x.treatment /\ y.state \notin {"None", "Admitted"}
    /\ x.state \in {"SuccessorAdmitted"} \cup Corrected => y.state \in {"SuccessorAdmitted"} \cup Corrected
    /\ x.state = "Closed" => y.state = "Closed"
    /\ y.revealed \/ y.state = "Closed" => x.revealed \/ x.state = "Closed" \/ AllTerminal(e)

\* It leaves the episode's messages sound.
LEMMA MovedMessage ==
  ASSUME StudyInv, NEW e \in Episodes, NEW y \in EpisodeRows, Moves(e, episode[e], y),
         NEW i \in DOMAIN thread[e]
  PROVE  MessageSound(e, y, i, thread[e][i])
<1> DEFINE x == episode[e]
           n == Len(thread[e])
<1>1. x \in EpisodeRows /\ n \in Nat /\ EpisodeSound(x, n) /\ Typed
  BY TypedRows DEF StudyInv, EpisodesSound
<1>2. x.frozen \in Int /\ y.frozen \in Int
  BY <1>1, EpisodeParts
<1>3. MessageSound(e, x, i, thread[e][i]) /\ i \in Nat /\ i <= n
  BY <1>1, MessageParts DEF StudyInv, MessagesSound
<1>4. x.state \in Corrected => x.frozen # NoHead
  BY <1>1 DEF EpisodeSound, Handed
<1>5. /\ x.frozen # NoHead => y.frozen = x.frozen
      /\ x.frozen = NoHead /\ y.frozen # NoHead => y.frozen = n
      /\ y.state \in Corrected <=> x.state \in Corrected
  BY DEF Moves
<1> QED BY <1>3, <1>4, <1>5 DEF MessageSound

\* And its seats.
LEMMA MovedSeat ==
  ASSUME StudyInv, NEW o \in Seats, NEW y \in EpisodeRows,
         Moves(EpisodeOf(o), episode[EpisodeOf(o)], y)
  PROVE  SeatSound(o, obligation[o], y, Len(thread[EpisodeOf(o)]))
<1> DEFINE e == EpisodeOf(o)
           x == episode[e]
           n == Len(thread[e])
<1>1. /\ x \in EpisodeRows /\ n \in Nat /\ EpisodeSound(x, n) /\ Typed
      /\ SeatSound(o, obligation[o], x, n) /\ obligation[o] \in ObligationRows
  BY TypedRows, SeatParts DEF StudyInv, EpisodesSound, SeatsSound
<1>2. CASE obligation[o].state = "None"
  BY <1>1, <1>2, EmptySeat DEF SeatSound
<1>3. ASSUME obligation[o].state # "None" PROVE SeatSound(o, obligation[o], y, n)
  <2>1. /\ x.treatment # "None" /\ y.treatment = x.treatment
        /\ y.state \notin {"None", "Admitted"}
    BY <1>1, <1>3 DEF SeatSound, Moves
  <2>2. PhaseOf(o) = "Successor" =>
          x.frozen # NoHead /\ y.frozen = x.frozen /\ y.state \in {"SuccessorAdmitted"} \cup Corrected
    BY <1>1, <1>3 DEF SeatSound, Moves, EpisodeSound, Handed
  <2>3. obligation[o].state = "Active" /\ PhaseOf(o) = "Source" => y.frozen = NoHead
    BY <1>1 DEF SeatSound, Moves, SourceTerminal, SeatsOf, Terminal
  <2>4. obligation[o].state = "Active" => ~y.revealed /\ y.state # "Closed"
    BY <1>1 DEF SeatSound, Moves, AllTerminal, SeatsOf, Terminal
  <2>5. y.state \in Corrected <=> x.state \in Corrected
    BY DEF Moves
  <2>6. PhaseOf(o) = "Successor" => ExposureOf(y) = ExposureOf(x)
    BY <2>1, <2>2 DEF ExposureOf
  <2> HIDE DEF x, n
  <2> QED BY <1>1, <1>3, <2>1, <2>2, <2>3, <2>4, <2>5, <2>6 DEF SeatSound
<1> QED BY <1>2, <1>3

\* Such a step keeps the invariant.
LEMMA EpisodeMoves ==
  ASSUME StudyInv, NEW e \in Episodes, NEW y \in EpisodeRows, Moves(e, episode[e], y),
         episode' = [episode EXCEPT ![e] = y],
         UNCHANGED <<revisions, populations, run, pairs, thread, obligation, allocated, children>>,
         events' \in 0..MaxEvents
  PROVE  StudyInv'
<1>1. \A i \in DOMAIN thread[e] : MessageSound(e, y, i, thread[e][i])
  BY MovedMessage
<1>2. \A o \in Seats : EpisodeOf(o) = e => SeatSound(o, obligation[o], y, Len(thread[e]))
  BY MovedSeat
<1>3. EpisodeSound(episode[e], Len(thread[e]))
  BY DEF StudyInv, EpisodesSound
<1>4. y.state \in Corrected => y.frozen = episode[e].frozen
  BY <1>3 DEF Moves, EpisodeSound, Handed
<1>5. /\ EpisodeSound(y, Len(thread[e]))
      /\ y.state \in Corrected <=> episode[e].state \in Corrected
      /\ episode[e].treatment # "None" => y.treatment = episode[e].treatment
      /\ episode[e].state = "Closed" => y.state = "Closed"
  BY DEF Moves
<1> QED BY <1>1, <1>2, <1>4, <1>5, EpisodeStep

\* admit_episode
LEMMA AdmitEpisodeKeeps ==
  ASSUME StudyInv, NEW e \in Episodes, events' \in 0..MaxEvents, AdmitEpisode(e)
  PROVE  StudyInv'
<1> DEFINE x == episode[e]
           y == [NoEpisode EXCEPT !.state = "Admitted"]
<1>1. x \in EpisodeRows /\ EpisodeSound(x, Len(thread[e])) /\ Len(thread[e]) \in Nat
  BY TypedRows DEF StudyInv, EpisodesSound
<1>2. /\ episode' = [episode EXCEPT ![e] = y]
      /\ UNCHANGED <<revisions, populations, run, pairs, thread, obligation, allocated, children>>
      /\ x.state = "None"
  BY DEF AdmitEpisode, SetEpisode, studyUnchanged, runtimeUnchanged
<1>3. y \in EpisodeRows
  BY <1>1, <1>2 DEF EpisodeRows, EpisodeStates, Treatments, NoEpisode, NoHead
<1>4. /\ y.state = "Admitted" /\ y.treatment = "None" /\ y.frozen = NoHead /\ ~y.revealed
      /\ y.measured = {} /\ x.treatment = "None" /\ x.frozen = NoHead
  BY <1>1, <1>2 DEF EpisodeSound, EpisodeRows, NoEpisode
<1> HIDE DEF y
<1>5. Moves(e, x, y)
  BY <1>1, <1>2, <1>4 DEF Moves, EpisodeSound, Handed, Corrected
<1> QED BY <1>2, <1>3, <1>5, EpisodeMoves

\* assign_treatment
LEMMA AssignTreatmentKeeps ==
  ASSUME StudyInv, NEW e \in Episodes, NEW t \in Treatments, events' \in 0..MaxEvents, AssignTreatment(e, t)
  PROVE  StudyInv'
<1> DEFINE x == episode[e]
           y == [x EXCEPT !.treatment = t]
<1>1. x \in EpisodeRows /\ EpisodeSound(x, Len(thread[e])) /\ Len(thread[e]) \in Nat
  BY TypedRows DEF StudyInv, EpisodesSound
<1>2. /\ episode' = [episode EXCEPT ![e] = y]
      /\ UNCHANGED <<revisions, populations, run, pairs, thread, obligation, allocated, children>>
      /\ x.state = "Admitted" /\ x.treatment = "None"
  BY DEF AssignTreatment, SetEpisode, studyUnchanged, runtimeUnchanged
<1>3. y \in EpisodeRows
  BY <1>1, <1>2 DEF EpisodeRows, EpisodeStates, Treatments, NoEpisode, NoHead
<1>4. /\ y.state = x.state /\ y.treatment = t /\ y.frozen = x.frozen
      /\ y.revealed = x.revealed /\ y.measured = x.measured
  BY <1>1, <1>2 DEF EpisodeRows, NoEpisode
<1> HIDE DEF y
<1>5. Moves(e, x, y)
  BY <1>1, <1>2, <1>4 DEF Moves, EpisodeSound, Handed, Corrected
<1> QED BY <1>2, <1>3, <1>5, EpisodeMoves

\* create_episode_forum
LEMMA CreateEpisodeForumKeeps ==
  ASSUME StudyInv, NEW e \in Episodes, events' \in 0..MaxEvents, CreateEpisodeForum(e)
  PROVE  StudyInv'
<1> DEFINE x == episode[e]
           y == [x EXCEPT !.forum = "Open"]
<1>1. x \in EpisodeRows /\ EpisodeSound(x, Len(thread[e])) /\ Len(thread[e]) \in Nat
  BY TypedRows DEF StudyInv, EpisodesSound
<1>2. /\ episode' = [episode EXCEPT ![e] = y]
      /\ UNCHANGED <<revisions, populations, run, pairs, thread, obligation, allocated, children>>
      /\ x.state # "None"
  BY DEF CreateEpisodeForum, SetEpisode, studyUnchanged, runtimeUnchanged
<1>3. y \in EpisodeRows
  BY <1>1, <1>2 DEF EpisodeRows, EpisodeStates, Treatments, NoEpisode, NoHead
<1>4. /\ y.state = x.state /\ y.treatment = x.treatment /\ y.frozen = x.frozen
      /\ y.revealed = x.revealed /\ y.measured = x.measured
  BY <1>1, <1>2 DEF EpisodeRows, NoEpisode
<1> HIDE DEF y
<1>5. Moves(e, x, y)
  BY <1>1, <1>2, <1>4 DEF Moves, EpisodeSound
<1> QED BY <1>2, <1>3, <1>5, EpisodeMoves

\* open_forum_thread
LEMMA OpenForumThreadKeeps ==
  ASSUME StudyInv, NEW e \in Episodes, events' \in 0..MaxEvents, OpenForumThread(e)
  PROVE  StudyInv'
<1> DEFINE x == episode[e]
           y == [x EXCEPT !.forum = "Threaded"]
<1>1. x \in EpisodeRows /\ EpisodeSound(x, Len(thread[e])) /\ Len(thread[e]) \in Nat
  BY TypedRows DEF StudyInv, EpisodesSound
<1>2. /\ episode' = [episode EXCEPT ![e] = y]
      /\ UNCHANGED <<revisions, populations, run, pairs, thread, obligation, allocated, children>>
      /\ x.forum = "Open"
  BY DEF OpenForumThread, SetEpisode, studyUnchanged, runtimeUnchanged
<1>3. y \in EpisodeRows
  BY <1>1, <1>2 DEF EpisodeRows, EpisodeStates, Treatments, NoEpisode, NoHead
<1>4. /\ y.state = x.state /\ y.treatment = x.treatment /\ y.frozen = x.frozen
      /\ y.revealed = x.revealed /\ y.measured = x.measured
  BY <1>1, <1>2 DEF EpisodeRows, NoEpisode
<1>6. x.state # "None"
  BY <1>1, <1>2 DEF EpisodeSound, NoEpisode
<1> HIDE DEF y
<1>5. Moves(e, x, y)
  BY <1>1, <1>4, <1>6 DEF Moves, EpisodeSound
<1> QED BY <1>2, <1>3, <1>5, EpisodeMoves

\* freeze_forum_head
LEMMA FreezeForumHeadKeeps ==
  ASSUME StudyInv, NEW e \in Episodes, events' \in 0..MaxEvents, FreezeForumHead(e)
  PROVE  StudyInv'
<1> DEFINE x == episode[e]
           y == [x EXCEPT !.frozen = Len(thread[e])]
<1>1. x \in EpisodeRows /\ EpisodeSound(x, Len(thread[e])) /\ Len(thread[e]) \in Nat
  BY TypedRows DEF StudyInv, EpisodesSound
<1>2. /\ episode' = [episode EXCEPT ![e] = y]
      /\ UNCHANGED <<revisions, populations, run, pairs, thread, obligation, allocated, children>>
      /\ x.state = "SourceActive" /\ x.frozen = NoHead /\ SourceTerminal(e)
  BY DEF FreezeForumHead, HeadOf, Frozen, SetEpisode, studyUnchanged, runtimeUnchanged
<1>3. y \in EpisodeRows
  BY <1>1, <1>2 DEF EpisodeRows, EpisodeStates, Treatments, NoEpisode, NoHead
<1>4. /\ y.state = x.state /\ y.treatment = x.treatment /\ y.frozen = Len(thread[e])
      /\ y.revealed = x.revealed /\ y.measured = x.measured
  BY <1>1, <1>2 DEF EpisodeRows, NoEpisode
<1> HIDE DEF y
<1>5. Moves(e, x, y)
  BY <1>1, <1>2, <1>4 DEF Moves, EpisodeSound, Handed, Corrected, NoHead
<1> QED BY <1>2, <1>3, <1>5, EpisodeMoves

\* replace_population
LEMMA ReplacePopulationKeeps ==
  ASSUME StudyInv, NEW e \in Episodes, events' \in 0..MaxEvents, ReplacePopulation(e)
  PROVE  StudyInv'
<1> DEFINE x == episode[e]
           y == [x EXCEPT !.state = "SourceReconciled", !.replaced = TRUE]
<1>1. x \in EpisodeRows /\ EpisodeSound(x, Len(thread[e])) /\ Len(thread[e]) \in Nat
  BY TypedRows DEF StudyInv, EpisodesSound
<1>2. /\ episode' = [episode EXCEPT ![e] = y]
      /\ UNCHANGED <<revisions, populations, run, pairs, thread, obligation, allocated, children>>
      /\ x.state = "SourceActive" /\ x.frozen # NoHead
  BY DEF ReplacePopulation, Frozen, SetEpisode, studyUnchanged, runtimeUnchanged
<1>3. y \in EpisodeRows
  BY <1>1, <1>2 DEF EpisodeRows, EpisodeStates, Treatments, NoEpisode, NoHead
<1>4. /\ y.state = "SourceReconciled" /\ y.treatment = x.treatment /\ y.frozen = x.frozen
      /\ y.revealed = x.revealed /\ y.measured = x.measured
  BY <1>1, <1>2 DEF EpisodeRows, NoEpisode
<1> HIDE DEF y
<1>5. Moves(e, x, y)
  BY <1>1, <1>2, <1>4 DEF Moves, EpisodeSound, Handed, Corrected
<1> QED BY <1>2, <1>3, <1>5, EpisodeMoves

\* reveal_ground_truth
LEMMA RevealGroundTruthKeeps ==
  ASSUME StudyInv, NEW e \in Episodes, events' \in 0..MaxEvents, RevealGroundTruth(e)
  PROVE  StudyInv'
<1> DEFINE x == episode[e]
           y == [x EXCEPT !.revealed = TRUE]
<1>1. x \in EpisodeRows /\ EpisodeSound(x, Len(thread[e])) /\ Len(thread[e]) \in Nat
  BY TypedRows DEF StudyInv, EpisodesSound
<1>2. /\ episode' = [episode EXCEPT ![e] = y]
      /\ UNCHANGED <<revisions, populations, run, pairs, thread, obligation, allocated, children>>
      /\ x.state \in Corrected /\ AllTerminal(e)
  BY DEF RevealGroundTruth, Released, Corrected, SetEpisode, studyUnchanged, runtimeUnchanged
<1>3. y \in EpisodeRows
  BY <1>1, <1>2 DEF EpisodeRows, EpisodeStates, Treatments, NoEpisode, NoHead
<1>4. /\ y.state = x.state /\ y.treatment = x.treatment /\ y.frozen = x.frozen
      /\ y.revealed /\ y.measured = x.measured
  BY <1>1, <1>2 DEF EpisodeRows, NoEpisode
<1> HIDE DEF y
<1>5. Moves(e, x, y)
  BY <1>1, <1>2, <1>4 DEF Moves, EpisodeSound, Handed, Corrected
<1> QED BY <1>2, <1>3, <1>5, EpisodeMoves

\* record_measurement_result
LEMMA RecordMeasurementResultKeeps ==
  ASSUME StudyInv, NEW e \in Episodes, NEW slot \in Slots, events' \in 0..MaxEvents, RecordMeasurementResult(e, slot)
  PROVE  StudyInv'
<1> DEFINE x == episode[e]
           y == [x EXCEPT !.measured = @ \cup {slot}]
<1>1. x \in EpisodeRows /\ EpisodeSound(x, Len(thread[e])) /\ Len(thread[e]) \in Nat
  BY TypedRows DEF StudyInv, EpisodesSound
<1>2. /\ episode' = [episode EXCEPT ![e] = y]
      /\ UNCHANGED <<revisions, populations, run, pairs, thread, obligation, allocated, children>>
      /\ x.state \in Corrected /\ x.state # "Closed" /\ AllTerminal(e) /\ x.revealed
  BY DEF RecordMeasurementResult, Released, Corrected, SetEpisode, studyUnchanged, runtimeUnchanged
<1>3. y \in EpisodeRows
  BY <1>1, <1>2 DEF EpisodeRows, EpisodeStates, Treatments, NoEpisode, NoHead
<1>4. /\ y.state = x.state /\ y.treatment = x.treatment /\ y.frozen = x.frozen
      /\ y.revealed = x.revealed
  BY <1>1, <1>2 DEF EpisodeRows, NoEpisode
<1> HIDE DEF y
<1>5. Moves(e, x, y)
  BY <1>1, <1>2, <1>4 DEF Moves, EpisodeSound, Handed, Corrected
<1> QED BY <1>2, <1>3, <1>5, EpisodeMoves

\* close_episode
LEMMA CloseEpisodeKeeps ==
  ASSUME StudyInv, NEW e \in Episodes, events' \in 0..MaxEvents, CloseEpisode(e)
  PROVE  StudyInv'
<1> DEFINE x == episode[e]
           y == [x EXCEPT !.state = "Closed", !.forum = "Closed"]
<1>1. x \in EpisodeRows /\ EpisodeSound(x, Len(thread[e])) /\ Len(thread[e]) \in Nat
  BY TypedRows DEF StudyInv, EpisodesSound
<1>2. /\ episode' = [episode EXCEPT ![e] = y]
      /\ UNCHANGED <<revisions, populations, run, pairs, thread, obligation, allocated, children>>
      /\ x.state \in Corrected /\ AllTerminal(e) /\ x.measured = Slots
  BY DEF CloseEpisode, Released, Corrected, SetEpisode, studyUnchanged, runtimeUnchanged
<1>3. y \in EpisodeRows
  BY <1>1, <1>2 DEF EpisodeRows, EpisodeStates, Treatments, NoEpisode, NoHead
<1>4. /\ y.state = "Closed" /\ y.treatment = x.treatment /\ y.frozen = x.frozen
      /\ y.revealed = x.revealed /\ y.measured = x.measured
  BY <1>1, <1>2 DEF EpisodeRows, NoEpisode
<1> HIDE DEF y
<1>5. Moves(e, x, y)
  BY <1>1, <1>2, <1>4 DEF Moves, EpisodeSound, Handed, Corrected
<1> QED BY <1>2, <1>3, <1>5, EpisodeMoves

\* fork_episode
LEMMA ForkEpisodeKeeps ==
  ASSUME StudyInv, NEW s \in Episodes, NEW e \in Episodes, events' \in 0..MaxEvents, ForkEpisode(s, e)
  PROVE  StudyInv'
<1> DEFINE x == episode[e]
           y == [NoEpisode EXCEPT !.state = "Admitted", !.origin = "Fork",
                    !.treatment = IF episode[s].treatment = "Reset" THEN "Retained" ELSE "Reset"]
<1>1. x \in EpisodeRows /\ EpisodeSound(x, Len(thread[e])) /\ Len(thread[e]) \in Nat
  BY TypedRows DEF StudyInv, EpisodesSound
<1>2. /\ episode' = [episode EXCEPT ![e] = y]
      /\ UNCHANGED <<revisions, populations, run, pairs, thread, obligation, allocated, children>>
      /\ x.state = "None"
  BY DEF ForkEpisode, SetEpisode, studyUnchanged, runtimeUnchanged
<1>3. y \in EpisodeRows
  BY <1>1, <1>2 DEF EpisodeRows, EpisodeStates, Treatments, NoEpisode, NoHead
<1>4. /\ y.state = "Admitted" /\ y.frozen = NoHead /\ ~y.revealed
      /\ y.measured = {} /\ x.treatment = "None" /\ x.frozen = NoHead
  BY <1>1, <1>2 DEF EpisodeSound, EpisodeRows, NoEpisode
<1> HIDE DEF y
<1>5. Moves(e, x, y)
  BY <1>1, <1>2, <1>4 DEF Moves, EpisodeSound, Handed, Corrected
<1> QED BY <1>2, <1>3, <1>5, EpisodeMoves

-----------------------------------------------------------------------------
(* Revisions, pairs and the run.                                           *)

\* A revision or a population is admitted.
LEMMA RevisionKeeps ==
  ASSUME StudyInv, events' \in 0..MaxEvents,
         NEW kind \in {"Protocol", "World", "Measurement", "Institution"},
         AdmitRevision(kind) \/ AdmitPopulationSnapshot
  PROVE  StudyInv'
<1>1. /\ UNCHANGED <<run, pairs, episode, thread, obligation, allocated, children>>
      /\ revisions' \subseteq {"Protocol", "World", "Measurement", "Institution"}
  BY DEF AdmitRevision, AdmitPopulationSnapshot, forumUnchanged, runtimeUnchanged, StudyInv, Typed
<1>2. populations' \in 0..2
  BY DEF AdmitRevision, AdmitPopulationSnapshot, StudyInv, Typed
<1>3. Typed'
  BY <1>1, <1>2 DEF StudyInv, Typed
<1>4. EpisodesSound' /\ CorrectionsPlaced' /\ PairsSound' /\ RunSound'
  BY <1>1 DEF StudyInv, EpisodesSound, CorrectionsPlaced, PairsSound, RunSound,
              RegisteredPairsClosed
<1>5. MessagesSound' /\ SeatsSound' /\ RuntimesSound' /\ ChildrenDistinct'
  BY <1>1 DEF StudyInv, MessagesSound, TargetSound, SeatsSound, RuntimesSound, ChildrenDistinct
<1> QED BY <1>3, <1>4, <1>5 DEF StudyInv

\* admit_matched_pair: an arm that was corrected has its pair already.
LEMMA AdmitMatchedPairKeeps ==
  ASSUME StudyInv, NEW a \in Episodes, NEW b \in Episodes, events' \in 0..MaxEvents,
         AdmitMatchedPair(a, b)
  PROVE  StudyInv'
<1>1. /\ UNCHANGED <<revisions, populations, run, episode, thread, obligation, allocated, children>>
      /\ episode[a].treatment = "Retained" /\ episode[b].treatment = "Reset"
      /\ \A p \in pairs : p[1] # a /\ p[2] # b
      /\ pairs' = pairs \cup {<<a, b>>}
  BY DEF AdmitMatchedPair, forumUnchanged, runtimeUnchanged
<1>2. Typed'
  BY <1>1 DEF StudyInv, Typed
<1>3. episode[a].state \notin Corrected /\ episode[b].state \notin Corrected
  BY <1>1 DEF StudyInv, PairsSound
<1>4. PairsSound'
  <2>1. <<a, b>>[1] = a /\ <<a, b>>[2] = b
    OBVIOUS
  <2>2. \A p \in pairs' :
          /\ episode[p[1]].treatment = "Retained" /\ episode[p[2]].treatment = "Reset"
          /\ episode[p[1]].state \in Corrected <=> episode[p[2]].state \in Corrected
    BY <1>1, <1>3, <2>1 DEF StudyInv, PairsSound
  <2>3. \A p, q \in pairs' : p[1] = q[1] \/ p[2] = q[2] => p = q
    BY <1>1, <2>1 DEF StudyInv, PairsSound
  <2>4. \A e \in Episodes : episode[e].state \in Corrected => \E p \in pairs' : e \in {p[1], p[2]}
    BY <1>1 DEF StudyInv, PairsSound
  <2> QED BY <1>1, <2>2, <2>3, <2>4 DEF PairsSound
<1>5. EpisodesSound' /\ CorrectionsPlaced' /\ RunSound'
  BY <1>1 DEF StudyInv, EpisodesSound, CorrectionsPlaced, RunSound, RegisteredPairsClosed
<1>6. MessagesSound' /\ SeatsSound' /\ RuntimesSound' /\ ChildrenDistinct'
  BY <1>1 DEF StudyInv, MessagesSound, TargetSound, SeatsSound, RuntimesSound, ChildrenDistinct
<1> QED BY <1>2, <1>4, <1>5, <1>6 DEF StudyInv

\* The study run is admitted, given its pair, started or completed.
LEMMA RunKeeps ==
  ASSUME StudyInv, events' \in 0..MaxEvents,
         \/ AdmitStudyRun \/ StartStudyRun \/ CompleteStudyRun
         \/ \E p \in pairs : RegisterStudyRunPair(p)
  PROVE  StudyInv'
<1>1. UNCHANGED <<revisions, populations, pairs, episode, thread, obligation, allocated, children>>
  BY DEF AdmitStudyRun, StartStudyRun, CompleteStudyRun, RegisterStudyRunPair, forumUnchanged,
         runtimeUnchanged
<1>2. run' \in [state : RunStates, registered : SUBSET pairs]
  <2>1. run \in [state : RunStates, registered : SUBSET pairs]
    BY DEF StudyInv, Typed
  <2>2. ASSUME NEW t \in RunStates, run' = [run EXCEPT !.state = t]
        PROVE  run' \in [state : RunStates, registered : SUBSET pairs]
    BY <2>1, <2>2
  <2>3. ASSUME NEW p \in pairs, run' = [state |-> "Ready", registered |-> run.registered \cup {p}]
        PROVE  run' \in [state : RunStates, registered : SUBSET pairs]
    BY <2>1, <2>3 DEF RunStates
  <2> QED BY <2>2, <2>3 DEF AdmitStudyRun, StartStudyRun, CompleteStudyRun, RegisterStudyRunPair,
                            RunStates
<1>3. RunSound'
  <2>1. \/ run'.state # "Completed"
        \/ run'.registered = run.registered /\ RegisteredPairsClosed
    BY DEF AdmitStudyRun, StartStudyRun, CompleteStudyRun, RegisterStudyRunPair, StudyInv, Typed
  <2> QED BY <1>1, <2>1 DEF RunSound, RegisteredPairsClosed
<1>4. Typed'
  BY <1>1, <1>2 DEF StudyInv, Typed
<1>5. EpisodesSound' /\ CorrectionsPlaced' /\ PairsSound'
  BY <1>1 DEF StudyInv, EpisodesSound, CorrectionsPlaced, PairsSound
<1>6. MessagesSound' /\ SeatsSound' /\ RuntimesSound' /\ ChildrenDistinct'
  BY <1>1 DEF StudyInv, MessagesSound, TargetSound, SeatsSound, RuntimesSound, ChildrenDistinct
<1> QED BY <1>3, <1>4, <1>5, <1>6 DEF StudyInv

-----------------------------------------------------------------------------
(* Children and work.                                                      *)

\* A child is spawned, ends or is settled, or work is allocated to a seat.
LEMMA ChildKeeps ==
  ASSUME StudyInv, events' \in 0..MaxEvents,
         \/ \E o \in Seats : SpawnTaskAttempt(o) \/ AllocateStudyActorWork(o)
         \/ \E c \in DOMAIN children :
              RecordTerminalReceipt(c) \/ \E st \in {"Finalized", "Lost"} : EndChild(c, st)
  PROVE  StudyInv'
<1>1. /\ UNCHANGED <<revisions, populations, run, pairs, episode, thread, obligation>>
      /\ allocated' \subseteq Seats
  BY DEF SpawnTaskAttempt, AllocateStudyActorWork, RecordTerminalReceipt, EndChild,
         studyUnchanged, forumUnchanged, StudyInv, Typed
<1>2. children \in Seq(ChildRows)
  BY DEF StudyInv, Typed
<1>3. Grows(children, children')
  <2>1. CASE UNCHANGED children
    BY <1>2, <2>1 DEF Grows
  <2>2. ASSUME NEW o \in Seats,
               children' = Append(children, [for |-> o, state |-> "Live", settled |-> FALSE])
        PROVE  Grows(children, children')
    <3>1. [for |-> o, state |-> "Live", settled |-> FALSE] \in ChildRows
      BY DEF ChildRows
    <3> QED BY <1>2, <2>2, <3>1 DEF Grows
  <2>3. ASSUME NEW c \in DOMAIN children, NEW d \in ChildRows, d.for = children[c].for,
               children[c].state = "Live", children' = [children EXCEPT ![c] = d]
        PROVE  Grows(children, children')
    BY <1>2, <2>3 DEF Grows
  <2>4. ASSUME NEW c \in DOMAIN children, RecordTerminalReceipt(c)
        PROVE  Grows(children, children')
    <3>1. children[c] \in ChildRows
      BY <1>2
    <3>2. [children[c] EXCEPT !.settled = TRUE] \in ChildRows
          /\ [children[c] EXCEPT !.settled = TRUE].for = children[c].for
      BY <3>1 DEF ChildRows
    <3> QED BY <2>3, <2>4, <3>2 DEF RecordTerminalReceipt
  <2>5. ASSUME NEW c \in DOMAIN children, NEW st \in {"Finalized", "Lost"}, EndChild(c, st)
        PROVE  Grows(children, children')
    <3>1. children[c] \in ChildRows
      BY <1>2
    <3>2. [children[c] EXCEPT !.state = st] \in ChildRows
          /\ [children[c] EXCEPT !.state = st].for = children[c].for
      BY <3>1 DEF ChildRows
    <3> QED BY <2>3, <2>5, <3>2 DEF EndChild
  <2> QED BY <2>1, <2>2, <2>4, <2>5 DEF SpawnTaskAttempt, AllocateStudyActorWork
<1> QED BY <1>1, <1>3, ChildStep

-----------------------------------------------------------------------------
(* Obligations.                                                            *)

\* A step that is neither exposure, read nor decision keeps the seat sound.
LEMMA QuietSeat ==
  ASSUME NEW o, NEW r, NEW z, NEW x, NEW n, SeatSound(o, r, x, n),
         z.from = r.from, z.through = r.through, z.reads = r.reads, z.decision = r.decision,
         r.state # "None", z.state # "None", z.state = "Active" => r.state = "Active"
  PROVE  SeatSound(o, z, x, n)
BY DEF SeatSound

\* What is known of a seat.
LEMMA SeatFacts ==
  ASSUME StudyInv, NEW o \in Seats
  PROVE  /\ obligation[o] \in ObligationRows /\ EpisodeOf(o) \in Episodes
         /\ SeatSound(o, obligation[o], episode[EpisodeOf(o)], Len(thread[EpisodeOf(o)]))
         /\ RuntimeSound(o, obligation[o], children)
         /\ Len(children) \in Nat /\ DOMAIN children = 1..Len(children)
         /\ children \in Seq(ChildRows) /\ Grows(children, children)
         /\ episode[EpisodeOf(o)] \in EpisodeRows /\ Len(thread[EpisodeOf(o)]) \in Nat
         /\ EpisodeSound(episode[EpisodeOf(o)], Len(thread[EpisodeOf(o)]))
         /\ \A q \in Seats : q # o /\ obligation[o].child # 0 => obligation[q].child # obligation[o].child
<1>1. /\ obligation[o] \in ObligationRows /\ EpisodeOf(o) \in Episodes
      /\ Len(children) \in Nat /\ DOMAIN children = 1..Len(children)
      /\ children \in Seq(ChildRows)
      /\ episode[EpisodeOf(o)] \in EpisodeRows /\ Len(thread[EpisodeOf(o)]) \in Nat
  BY SeatParts, TypedRows DEF StudyInv, Typed
<1>2. Grows(children, children)
  BY <1>1 DEF Grows
<1> QED BY <1>1, <1>2 DEF StudyInv, SeatsSound, RuntimesSound, EpisodesSound, ChildrenDistinct

\* complete_actor_obligation, fail_actor_obligation and the launch claim
LEMMA ObligationEndsKeeps ==
  ASSUME StudyInv, NEW o \in Seats, events' \in 0..MaxEvents,
         \/ \E charge \in 0..UnitBudget : CompleteActorObligation(o, charge)
         \/ FailActorObligation(o) \/ ClaimStudyActorTaskAttemptLaunch(o)
  PROVE  StudyInv'
<1> DEFINE r == obligation[o]
<1>1. /\ UNCHANGED <<revisions, populations, run, pairs, episode, thread, allocated, children>>
      /\ r.state = "Active" /\ r \in ObligationRows
  BY SeatFacts DEF CompleteActorObligation, FailActorObligation, ClaimStudyActorTaskAttemptLaunch,
     studyUnchanged, runtimeUnchanged, Active
<1>2. PICK z : /\ obligation' = [obligation EXCEPT ![o] = z]
               /\ \/ /\ z.state # "Active" /\ r.binding # "Bound"
                     /\ \/ \E charge \in 0..UnitBudget :
                             z = [r EXCEPT !.state = "Completed", !.charged = charge]
                        \/ z = [r EXCEPT !.state = "Failed"]
                  \/ z = [r EXCEPT !.claimed = TRUE]
  <2>1. CASE \E charge \in 0..UnitBudget : CompleteActorObligation(o, charge)
    <3>1. PICK charge \in 0..UnitBudget : CompleteActorObligation(o, charge)
      BY <2>1
    <3>2. [r EXCEPT !.state = "Completed", !.charged = charge].state # "Active" /\ r.binding # "Bound"
      BY <1>1, <3>1 DEF CompleteActorObligation, RuntimeAllows, ObligationRows
    <3> QED BY <3>1, <3>2 DEF CompleteActorObligation, SetObligation
  <2>2. CASE FailActorObligation(o)
    <3>1. [r EXCEPT !.state = "Failed"].state # "Active" /\ r.binding # "Bound"
      BY <1>1, <2>2 DEF FailActorObligation, RuntimeAllows, ObligationRows
    <3> QED BY <2>2, <3>1 DEF FailActorObligation, SetObligation
  <2>3. CASE ClaimStudyActorTaskAttemptLaunch(o)
    BY <2>3 DEF ClaimStudyActorTaskAttemptLaunch, SetObligation
  <2> QED BY <2>1, <2>2, <2>3
<1>3. z \in ObligationRows
  BY <1>1, <1>2 DEF ObligationRows
<1>4. /\ z.from = r.from /\ z.through = r.through /\ z.reads = r.reads /\ z.decision = r.decision
      /\ z.child = r.child /\ z.binding = r.binding /\ z.state # "None"
      /\ z.state = "Active" \/ r.binding # "Bound"
  BY <1>1, <1>2 DEF ObligationRows
<1>5. SeatSound(o, z, episode[EpisodeOf(o)], Len(thread[EpisodeOf(o)]))
  BY <1>1, <1>4, SeatFacts, QuietSeat
<1>6. RuntimeSound(o, z, children')
  BY <1>1, <1>4, SeatFacts DEF RuntimeSound
<1>7. /\ Grows(children, children')
      /\ \A q \in Seats : q # o /\ z.child # 0 => obligation[q].child # z.child
  BY <1>1, <1>4, SeatFacts
<1> QED BY <1>1, <1>2, <1>3, <1>4, <1>5, <1>6, <1>7, ObligationStep

\* The binding of a runtime to an obligation, by the runner or by the root, its
\* reconciliation and its settlement after recovery.
LEMMA BindingKeeps ==
  ASSUME StudyInv, NEW o \in Seats, events' \in 0..MaxEvents,
         UNCHANGED <<revisions, populations, run, pairs, episode, thread, allocated>>,
         Grows(children, children'), NEW b \in {"Bound", "Reconciled", "RecoverySettled"},
         NEW c \in Nat \ {0},
         obligation' = [obligation EXCEPT ![o] = [obligation[o] EXCEPT !.binding = b, !.child = c]],
         obligation[o].state # "None", b = "Bound" => obligation[o].state = "Active",
         c <= Len(children'), children'[c].for \in {o, Office},
         b = "Reconciled" => children'[c].state = "Finalized",
         b = "RecoverySettled" => children'[c].state = "Lost",
         \A q \in Seats : q # o => obligation[q].child # c
  PROVE  StudyInv'
<1> DEFINE r == obligation[o]
           z == [r EXCEPT !.binding = b, !.child = c]
<1>1. r \in ObligationRows
  BY SeatFacts
<1>2. z \in ObligationRows
  BY <1>1 DEF ObligationRows
<1>3. /\ z.from = r.from /\ z.through = r.through /\ z.reads = r.reads /\ z.decision = r.decision
      /\ z.child = c /\ z.binding = b /\ z.state = r.state
  BY <1>1 DEF ObligationRows
<1> HIDE DEF z
<1>4. SeatSound(o, z, episode[EpisodeOf(o)], Len(thread[EpisodeOf(o)]))
  BY <1>3, SeatFacts, QuietSeat
<1>5. RuntimeSound(o, z, children')
  BY <1>3 DEF RuntimeSound
<1>6. \A q \in Seats : q # o /\ z.child # 0 => obligation[q].child # z.child
  BY <1>3
<1>7. obligation' = [obligation EXCEPT ![o] = z]
  BY DEF z
<1>8. obligation[o].from # 0 => z.from = obligation[o].from
  BY <1>3
<1> QED BY <1>2, <1>4, <1>5, <1>6, <1>7, <1>8, ObligationStep

\* bind_actor_runtime: an Office's child
LEMMA BindActorRuntimeKeeps ==
  ASSUME StudyInv, NEW o \in Seats, NEW st \in {"Live", "Lost"}, events' \in 0..MaxEvents,
         BindActorRuntime(o, st)
  PROVE  StudyInv'
<1> DEFINE d == [for |-> Office, state |-> st, settled |-> FALSE]
           c == Len(children) + 1
<1>1. /\ UNCHANGED <<revisions, populations, run, pairs, episode, thread, allocated>>
      /\ obligation[o].state = "Active" /\ children' = Append(children, d)
      /\ obligation' = [obligation EXCEPT ![o] = [obligation[o] EXCEPT !.binding = "Bound", !.child = c]]
  BY DEF BindActorRuntime, MayBind, Active, SetObligation, studyUnchanged
<1>2. d \in ChildRows /\ d.for = Office
  BY DEF ChildRows
<1>3. children \in Seq(ChildRows) /\ Len(children) \in Nat
  BY SeatFacts
<1>4. Grows(children, children') /\ c \in Nat \ {0} /\ c <= Len(children') /\ children'[c] = d
  <2> HIDE DEF d
  <2> QED BY <1>1, <1>2, <1>3 DEF Grows
<1>5. ASSUME NEW q \in Seats PROVE obligation[q].child # c
  <2>1. obligation[q].child \in Nat /\ obligation[q].child <= Len(children)
    BY SeatFacts, ObligationParts DEF RuntimeSound
  <2> QED BY <1>3, <2>1
<1> HIDE DEF c, d
<1> QED BY <1>1, <1>2, <1>4, <1>5, BindingKeeps

\* bind_actor_task_attempt_runtime: the child of the attempt
LEMMA BindTaskAttemptKeeps ==
  ASSUME StudyInv, NEW o \in Seats, NEW c \in DOMAIN children, events' \in 0..MaxEvents,
         BindActorTaskAttemptRuntime(o, c)
  PROVE  StudyInv'
<1>1. /\ UNCHANGED <<revisions, populations, run, pairs, episode, thread, allocated, children>>
      /\ obligation[o].state = "Active" /\ children[c].for = o
      /\ obligation' = [obligation EXCEPT ![o] = [obligation[o] EXCEPT !.binding = "Bound", !.child = c]]
  BY DEF BindActorTaskAttemptRuntime, MayBind, Active, SetObligation, studyUnchanged,
         runtimeUnchanged
<1>2. c \in Nat \ {0} /\ c <= Len(children')
  BY <1>1, SeatFacts
<1>3. ASSUME NEW q \in Seats, q # o PROVE obligation[q].child # c
  <2>1. RuntimeSound(q, obligation[q], children)
    BY SeatFacts
  <2> QED BY <1>1, <1>2, <1>3, <2>1, SeatParts DEF RuntimeSound
<1>4. Grows(children, children')
  BY <1>1, SeatFacts
<1> QED BY <1>1, <1>2, <1>3, <1>4, BindingKeeps

\* reconcile_actor_runtime
LEMMA ReconcileKeeps ==
  ASSUME StudyInv, NEW o \in Seats, events' \in 0..MaxEvents, ReconcileActorRuntime(o)
  PROVE  StudyInv'
<1> DEFINE r == obligation[o]
<1>1. /\ UNCHANGED <<revisions, populations, run, pairs, episode, thread, allocated, children>>
      /\ r.binding = "Bound" /\ children[r.child].state = "Finalized"
      /\ obligation' = [obligation EXCEPT ![o] = [r EXCEPT !.binding = "Reconciled"]]
  BY DEF ReconcileActorRuntime, SetObligation, studyUnchanged, runtimeUnchanged
<1>2. /\ r \in ObligationRows /\ RuntimeSound(o, r, children) /\ Grows(children, children')
      /\ SeatSound(o, r, episode[EpisodeOf(o)], Len(thread[EpisodeOf(o)]))
  BY <1>1, SeatFacts
<1>3. r.child \in Nat \ {0} /\ r.child <= Len(children') /\ children'[r.child].for \in {o, Office}
  BY <1>1, <1>2, ObligationParts DEF RuntimeSound
<1>4. r.state # "None"
  BY <1>1, <1>2 DEF SeatSound, NoObligation
<1>5. [r EXCEPT !.binding = "Reconciled"] = [r EXCEPT !.binding = "Reconciled", !.child = r.child]
  BY <1>2 DEF ObligationRows
<1>6. \A q \in Seats : q # o => obligation[q].child # r.child
  BY <1>3, SeatFacts
<1>7. /\ obligation' = [obligation EXCEPT ![o] = [r EXCEPT !.binding = "Reconciled", !.child = r.child]]
      /\ children'[r.child].state = "Finalized"
  BY <1>1, <1>5
<1> QED BY <1>1, <1>2, <1>3, <1>4, <1>6, <1>7, BindingKeeps

\* settle_actor_task_attempt_after_recovery
LEMMA SettleKeeps ==
  ASSUME StudyInv, NEW o \in Seats, events' \in 0..MaxEvents,
         SettleActorTaskAttemptAfterRecovery(o)
  PROVE  StudyInv'
<1> DEFINE r == obligation[o]
           c == r.child
<1>1. /\ UNCHANGED <<revisions, populations, run, pairs, episode, thread, allocated>>
      /\ r.binding = "Bound" /\ children[c].state = "Lost" /\ r.state = "Active"
      /\ obligation' = [obligation EXCEPT ![o] = [r EXCEPT !.binding = "RecoverySettled"]]
      /\ children' = [children EXCEPT ![c].settled = TRUE]
  BY DEF SettleActorTaskAttemptAfterRecovery, SetObligation, studyUnchanged, Active
<1>2. r \in ObligationRows /\ RuntimeSound(o, r, children) /\ children \in Seq(ChildRows)
  BY SeatFacts
<1>3. /\ c \in Nat \ {0} /\ c <= Len(children) /\ children[c].for \in {o, Office}
      /\ c \in DOMAIN children
  BY <1>1, <1>2, ObligationParts DEF RuntimeSound
<1>4. children[c] \in ChildRows
  BY <1>2, <1>3
<1>5. /\ [children[c] EXCEPT !.settled = TRUE] \in ChildRows
      /\ [children[c] EXCEPT !.settled = TRUE].for = children[c].for
      /\ [children[c] EXCEPT !.settled = TRUE].state = children[c].state
  BY <1>4 DEF ChildRows
<1>6. /\ Grows(children, children') /\ c <= Len(children') /\ children'[c].state = "Lost"
      /\ children'[c].for = children[c].for
  <2>1. ASSUME NEW d \in ChildRows, d.for = children[c].for, d.state = children[c].state,
               children' = [children EXCEPT ![c] = d]
        PROVE  /\ Grows(children, children') /\ c <= Len(children') /\ children'[c].state = "Lost"
               /\ children'[c].for = children[c].for
    BY <1>1, <1>2, <1>3, <2>1 DEF Grows
  <2> QED BY <1>1, <1>5, <2>1
<1>7. [r EXCEPT !.binding = "RecoverySettled"] = [r EXCEPT !.binding = "RecoverySettled", !.child = c]
  BY <1>2 DEF ObligationRows
<1>8. \A q \in Seats : q # o => obligation[q].child # c
  BY <1>3, SeatFacts
<1> QED BY <1>1, <1>3, <1>6, <1>7, <1>8, BindingKeeps, ZenonT(40)

\* A row whose exposure, reads or decision change keeps its runtime.
LEMMA ForumRowKeeps ==
  ASSUME StudyInv, NEW o \in Seats, NEW z \in ObligationRows, events' \in 0..MaxEvents,
         obligation' = [obligation EXCEPT ![o] = z],
         UNCHANGED <<revisions, populations, run, pairs, episode, thread, allocated, children>>,
         SeatSound(o, z, episode[EpisodeOf(o)], Len(thread[EpisodeOf(o)])),
         z.state = obligation[o].state, z.binding = obligation[o].binding,
         z.child = obligation[o].child,
         obligation[o].from # 0 => z.from = obligation[o].from
  PROVE  StudyInv'
<1>1. RuntimeSound(o, z, children')
  BY SeatFacts DEF RuntimeSound
<1>2. Grows(children, children')
  BY SeatFacts
<1>3. \A q \in Seats : q # o /\ z.child # 0 => obligation[q].child # z.child
  BY SeatFacts
<1> QED BY <1>1, <1>2, <1>3, ObligationStep

\* admit_forum_exposure: a reset successor begins after the frozen head.
LEMMA AdmitForumExposureKeeps ==
  ASSUME StudyInv, NEW o \in Seats, events' \in 0..MaxEvents, AdmitForumExposure(o)
  PROVE  StudyInv'
<1> DEFINE r == obligation[o]
           e == EpisodeOf(o)
           x == episode[e]
           n == Len(thread[e])
           z == [r EXCEPT !.from = ExposureStart(o), !.through = n]
<1>1. /\ UNCHANGED <<revisions, populations, run, pairs, episode, thread, allocated, children>>
      /\ r.state = "Active" /\ r.from = 0 /\ obligation' = [obligation EXCEPT ![o] = z]
  BY DEF AdmitForumExposure, Active, Exposed, HeadOf, SetObligation, studyUnchanged,
         runtimeUnchanged
<1>2. /\ r \in ObligationRows /\ x \in EpisodeRows /\ n \in Nat
      /\ SeatSound(o, r, x, n) /\ EpisodeSound(x, n)
  BY SeatFacts
<1>3. PhaseOf(o) = "Successor" => x.frozen # NoHead
  BY <1>1, <1>2 DEF SeatSound, EpisodeSound, Handed
<1>4. /\ x.frozen \in Int
      /\ x.frozen # NoHead => x.frozen \in Nat
  BY <1>2, EpisodeParts
<1>5. /\ ExposureStart(o) \in Nat \ {0}
      /\ PhaseOf(o) = "Successor" => ExposureStart(o) = ExposureOf(x)
  BY <1>3, <1>4 DEF ExposureStart, ExposureOf
<1>6. z \in ObligationRows
  BY <1>2, <1>5 DEF ObligationRows
<1>7. /\ z.state = r.state /\ z.binding = r.binding /\ z.child = r.child
      /\ z.from = ExposureStart(o) /\ z.through = n /\ z.reads = r.reads /\ z.decision = r.decision
  BY <1>2 DEF ObligationRows
<1>8. x.state \in Corrected => n > x.frozen
  BY <1>2, <1>4 DEF EpisodeSound
<1>9. DOMAIN z.reads = {}
  BY <1>1, <1>2, <1>7 DEF SeatSound
<1> HIDE DEF z, r, x, n
<1>10. SeatSound(o, z, x, n)
  BY <1>1, <1>2, <1>5, <1>7, <1>8, <1>9 DEF SeatSound
<1> QED BY <1>1, <1>6, <1>7, <1>10, ForumRowKeeps DEF r, x, n

\* A read of the Forum is of an exposure.
LEMMA ReadForumKeeps ==
  ASSUME StudyInv, NEW o \in Seats, NEW first \in DOMAIN thread[EpisodeOf(o)],
         NEW through \in DOMAIN thread[EpisodeOf(o)], events' \in 0..MaxEvents,
         ReadForum(o, first, through)
  PROVE  StudyInv'
<1> DEFINE r == obligation[o]
           x == episode[EpisodeOf(o)]
           n == Len(thread[EpisodeOf(o)])
           seen == [first |-> first, through |-> through,
                    shown |-> Rendering(EpisodeOf(o), first, through)]
           z == [r EXCEPT !.reads = Append(@, seen)]
<1>1. /\ UNCHANGED <<revisions, populations, run, pairs, episode, thread, allocated, children>>
      /\ r.state = "Active" /\ r.from # 0 /\ r.from <= first
      /\ obligation' = [obligation EXCEPT ![o] = z]
  BY DEF ReadForum, Active, Exposed, SetObligation, studyUnchanged, runtimeUnchanged
<1>2. r \in ObligationRows /\ SeatSound(o, r, x, n) /\ EpisodeOf(o) \in Episodes
  BY SeatFacts
<1>3. first \in Nat /\ through \in Nat
  BY <1>2, MessageParts DEF StudyInv
<1>4. seen \in [first : Nat, through : Nat, shown : SUBSET Nat] /\ seen.first = first
  <2>1. Rendering(EpisodeOf(o), first, through) \subseteq Nat
    BY <1>3 DEF Rendering
  <2> QED BY <1>3, <2>1
<1>5. r.reads \in Seq([first : Nat, through : Nat, shown : SUBSET Nat]) /\ r.from \in Nat
  BY <1>2, ObligationParts
<1> HIDE DEF seen
<1>6. Append(r.reads, seen) \in Seq([first : Nat, through : Nat, shown : SUBSET Nat])
  BY <1>4, <1>5
<1>7. z \in ObligationRows
  BY <1>2, <1>6 DEF ObligationRows
<1>8. /\ z.state = r.state /\ z.binding = r.binding /\ z.child = r.child /\ z.from = r.from
      /\ z.through = r.through /\ z.reads = Append(r.reads, seen) /\ z.decision = r.decision
  BY <1>2 DEF ObligationRows
<1>9. ASSUME NEW k \in DOMAIN z.reads PROVE z.reads[k].first >= r.from
  <2>1. \A j \in DOMAIN r.reads : r.reads[j].first >= r.from
    BY <1>2 DEF SeatSound
  <2>2. k \in 1..(Len(r.reads) + 1) /\ Len(r.reads) \in Nat
    BY <1>4, <1>5, <1>8, <1>9
  <2>3. CASE k = Len(r.reads) + 1
    <3>1. z.reads[k] = seen
      BY <1>4, <1>5, <1>8, <2>3
    <3> QED BY <1>1, <1>3, <1>4, <1>5, <3>1
  <2>4. CASE k \in 1..Len(r.reads)
    <3>1. z.reads[k] = r.reads[k] /\ k \in DOMAIN r.reads
      BY <1>4, <1>5, <1>8, <2>4
    <3> QED BY <2>1, <3>1
  <2> QED BY <2>2, <2>3, <2>4
<1> HIDE DEF z, r, x, n
<1>10. SeatSound(o, z, x, n)
  BY <1>1, <1>2, <1>8, <1>9 DEF SeatSound
<1> QED BY <1>1, <1>7, <1>8, <1>10, ForumRowKeeps DEF r, x, n

\* A read begins at some message.
LEMMA ReadParts ==
  ASSUME NEW q \in Seq([first : Nat, through : Nat, shown : SUBSET Nat]), NEW k \in DOMAIN q
  PROVE  q[k].first \in Nat
<1>1. ASSUME NEW S, q \in Seq(S) PROVE q[k] \in S
  BY <1>1
<1>2. q[k] \in [first : Nat, through : Nat, shown : SUBSET Nat]
  BY <1>1
<1> QED BY <1>2

\* record_decision: a message cited was read, or is the actor's own.
LEMMA RecordDecisionKeeps ==
  ASSUME StudyInv, NEW o \in Seats, NEW cited \in DOMAIN thread[EpisodeOf(o)] \cup {0},
         events' \in 0..MaxEvents, RecordDecision(o, cited)
  PROVE  StudyInv'
<1> DEFINE r == obligation[o]
           e == EpisodeOf(o)
           x == episode[e]
           n == Len(thread[e])
           z == [r EXCEPT !.decision = cited]
<1>1. /\ UNCHANGED <<revisions, populations, run, pairs, episode, thread, allocated, children>>
      /\ r.state \in {"Active", "Completed"} /\ obligation' = [obligation EXCEPT ![o] = z]
      /\ cited # 0 => Cardinality(ReceiptsOf(o, cited)) = 1 \/ OwnPublished(o, cited)
  BY DEF RecordDecision, SetObligation, studyUnchanged, runtimeUnchanged
<1>2. /\ r \in ObligationRows /\ x \in EpisodeRows /\ n \in Nat /\ e \in Episodes
      /\ SeatSound(o, r, x, n) /\ EpisodeSound(x, n)
  BY SeatFacts
<1>3. cited \in Nat /\ cited <= n
  BY <1>2, MessageParts DEF StudyInv
<1>4. z \in ObligationRows
  BY <1>2, <1>3 DEF ObligationRows
<1>5. /\ z.state = r.state /\ z.binding = r.binding /\ z.child = r.child /\ z.from = r.from
      /\ z.through = r.through /\ z.reads = r.reads /\ z.decision = cited
  BY <1>2 DEF ObligationRows
<1>6. x.frozen \in Int /\ r.from \in Nat
  BY <1>2, EpisodeParts, ObligationParts
<1>7. ASSUME PhaseOf(o) = "Successor", x.treatment = "Reset", cited # 0 PROVE cited > x.frozen
  <2>1. CASE OwnPublished(o, cited)
    <3>1. /\ cited \in DOMAIN thread[e] /\ thread[e][cited].author = o
      BY <2>1 DEF OwnPublished
    <3>2. MessageSound(e, x, cited, thread[e][cited])
      BY <1>2, <3>1 DEF StudyInv, MessagesSound
    <3> QED BY <1>7, <3>1, <3>2, SeatParts DEF MessageSound
  <2>2. CASE Cardinality(ReceiptsOf(o, cited)) = 1
    <3>1. ReceiptsOf(o, cited) # {}
      BY <2>2, FS_EmptySet
    <3>2. PICK k \in DOMAIN r.reads : cited \in r.reads[k].first..r.reads[k].through
      BY <3>1 DEF ReceiptsOf
    <3>3. r.from # 0 /\ r.reads[k].first >= r.from /\ r.from = x.frozen + 1
      BY <1>2, <1>7 DEF SeatSound, ExposureOf
    <3>4. r.reads[k].first \in Nat
      <4>1. r.reads \in Seq([first : Nat, through : Nat, shown : SUBSET Nat])
        BY <1>2, ObligationParts
      <4> QED BY <4>1, ReadParts
    <3> QED BY <1>3, <1>6, <3>2, <3>3, <3>4
  <2> QED BY <1>1, <1>7, <2>1, <2>2
<1> HIDE DEF z, r, x, n
<1>8. SeatSound(o, z, x, n)
  BY <1>1, <1>2, <1>3, <1>5, <1>7 DEF SeatSound
<1> QED BY <1>1, <1>4, <1>5, <1>8, ForumRowKeeps DEF r, x, n

\* admit_actor_obligation: the seat is filled and its episode moves on.
LEMMA AdmitActorObligationKeeps ==
  ASSUME StudyInv, NEW o \in Seats, events' \in 0..MaxEvents, AdmitActorObligation(o)
  PROVE  StudyInv'
<1> DEFINE e == EpisodeOf(o)
           x == episode[e]
           n == Len(thread[e])
           z == [NoObligation EXCEPT !.state = "Active"]
           y == [x EXCEPT !.state = IF PhaseOf(o) = "Source" THEN "SourceActive"
                                    ELSE "SuccessorAdmitted"]
<1>1. /\ UNCHANGED <<revisions, populations, run, pairs, thread, allocated, children>>
      /\ obligation[o].state = "None" /\ x.treatment # "None"
      /\ obligation' = [obligation EXCEPT ![o] = z] /\ episode' = [episode EXCEPT ![e] = y]
      /\ PhaseOf(o) = "Source" => x.state \in {"Admitted", "SourceActive"} /\ x.frozen = NoHead
      /\ PhaseOf(o) # "Source" => x.state \in {"SourceReconciled", "SuccessorAdmitted"}
  BY DEF AdmitActorObligation, AdmissionAllowed, Frozen, SetObligation, SetEpisode,
         studyUnchanged, runtimeUnchanged
<1>2. /\ x \in EpisodeRows /\ n \in Nat /\ EpisodeSound(x, n) /\ e \in Episodes
      /\ SeatSound(o, obligation[o], x, n) /\ PhaseOf(o) \in {"Source", "Successor"}
      /\ episode \in [Episodes -> EpisodeRows] /\ obligation \in [Seats -> ObligationRows]
  BY SeatFacts, SeatParts DEF Phases, StudyInv, Typed
<1>3. obligation[o] = NoObligation
  BY <1>1, <1>2 DEF SeatSound
<1>4. z \in ObligationRows
  <2>1. 0 \in 0..UnitBudget
    BY StudyAssumption
  <2>2. <<>> \in Seq([first : Nat, through : Nat, shown : SUBSET Nat])
    OBVIOUS
  <2> QED BY <2>1, <2>2 DEF ObligationRows, NoObligation, NoDecision
<1>5. /\ z.state = "Active" /\ z.from = 0 /\ z.through = 0 /\ z.decision = NoDecision
      /\ DOMAIN z.reads = {} /\ z.child = 0 /\ z.binding = "None" /\ NoObligation.from = 0
      /\ NoObligation.child = 0
  BY DEF NoObligation
<1>6. y \in EpisodeRows
  BY <1>2 DEF EpisodeRows, EpisodeStates
<1>7. /\ y.treatment = x.treatment /\ y.frozen = x.frozen /\ y.revealed = x.revealed
      /\ y.measured = x.measured
      /\ y.state = IF PhaseOf(o) = "Source" THEN "SourceActive" ELSE "SuccessorAdmitted"
  BY <1>2 DEF EpisodeRows
<1> HIDE DEF z, y
<1>8. Moves(e, x, y)
  BY <1>1, <1>2, <1>7 DEF Moves, EpisodeSound, Handed, Corrected
<1>9. /\ episode'[e] = y /\ \A f \in Episodes : f # e => episode'[f] = episode[f]
      /\ episode' \in [Episodes -> EpisodeRows]
      /\ obligation'[o] = z /\ \A q \in Seats : q # o => obligation'[q] = obligation[q]
      /\ obligation' \in [Seats -> ObligationRows]
  BY <1>1, <1>2, <1>4, <1>6
<1>10. Typed'
  BY <1>1, <1>9 DEF StudyInv, Typed
<1>11. EpisodesSound'
  BY <1>1, <1>8, <1>9 DEF StudyInv, EpisodesSound, Moves
<1>12. MessagesSound'
  <2>1. SUFFICES ASSUME NEW f \in Episodes, NEW i \in DOMAIN thread[f]
                 PROVE  /\ MessageSound(f, episode'[f], i, thread[f][i])
                        /\ TargetSound(thread[f][i])'
    BY <1>1 DEF MessagesSound
  <2>2. MessageSound(f, episode[f], i, thread[f][i]) /\ TargetSound(thread[f][i])
    BY DEF StudyInv, MessagesSound
  <2>3. thread[f][i].author \in Seats \cup {Service}
    BY MessageParts DEF StudyInv
  <2>4. TargetSound(thread[f][i])'
    BY <1>1, <1>3, <1>5, <1>9, <2>2, <2>3 DEF TargetSound
  <2>5. MessageSound(f, episode'[f], i, thread[f][i])
    BY <1>2, <1>6, <1>8, <1>9, <2>2, MovedMessage
  <2> QED BY <2>4, <2>5
<1>13. x.state \notin Corrected /\ y.state \notin Corrected
  BY <1>1, <1>2, <1>7 DEF Corrected
<1>14. CorrectionsPlaced'
  BY <1>1, <1>9, <1>13 DEF StudyInv, CorrectionsPlaced
<1>15. SeatSound(o, z, y, n)
  <2>1. x.state # "Closed" /\ ~x.revealed
    BY <1>1, <1>2 DEF EpisodeSound, Corrected
  <2>2. 0 <= n /\ NoDecision <= n
    BY <1>2 DEF NoDecision
  <2> QED BY <1>1, <1>2, <1>5, <1>7, <2>1, <2>2 DEF SeatSound
<1>16. SeatsSound'
  <2>1. SUFFICES ASSUME NEW q \in Seats, q # o
                 PROVE  SeatSound(q, obligation[q], episode'[EpisodeOf(q)], Len(thread[EpisodeOf(q)]))
    BY <1>1, <1>9, <1>15 DEF SeatsSound
  <2>2. CASE EpisodeOf(q) = e
    BY <1>6, <1>8, <1>9, <2>2, MovedSeat
  <2>3. CASE EpisodeOf(q) # e
    BY <1>9, <2>3, SeatFacts
  <2> QED BY <2>2, <2>3
<1>17. RuntimesSound' /\ ChildrenDistinct'
  <2>1. RuntimeSound(o, z, children)
    BY <1>5, SeatFacts DEF RuntimeSound
  <2> QED BY <1>1, <1>5, <1>9, <2>1 DEF StudyInv, RuntimesSound, ChildrenDistinct
<1>18. PairsSound' /\ RunSound'
  BY <1>1, <1>7, <1>9, <1>13, PairsKeep DEF Corrected
<1> QED BY <1>10, <1>11, <1>12, <1>14, <1>16, <1>17, <1>18 DEF StudyInv

-----------------------------------------------------------------------------
(* The Forum.                                                              *)

\* A message m that may be added to the thread of e, whose row then is y: a
\* source's before the head is frozen, the service's once the successors are
\* admitted, a successor's after that.
Spoken(e, y, m) ==
    LET x == episode[e]
    IN  /\ y \in EpisodeRows /\ m \in Messages
        /\ y.treatment = x.treatment /\ y.frozen = x.frozen
        /\ y.revealed = x.revealed /\ y.measured = x.measured
        /\ \/ /\ x.state = "SourceActive" /\ y.state = "SourceActive" /\ x.frozen = NoHead
              /\ m.author # Service /\ PhaseOf(m.author) = "Source"
           \/ /\ x.state = "SuccessorAdmitted" /\ y.state = "CorrectionReleased"
              /\ m.author = Service
           \/ /\ {x.state, y.state} \subseteq {"CorrectionReleased", "SuccessorActive"}
              /\ m.author # Service /\ PhaseOf(m.author) = "Successor"
        /\ m.author # Service => EpisodeOf(m.author) = e
        /\ TargetSound(m)

\* The row z a message numbered h makes of the row r of its episode.
Advanced(r, z, h) ==
    /\ z \in ObligationRows
    /\ z.state = r.state /\ z.from = r.from /\ z.reads = r.reads /\ z.decision = r.decision
    /\ z.child = r.child /\ z.binding = r.binding /\ z.charged = r.charged
    /\ z.claimed = r.claimed
    /\ z.through = IF r.from # 0 /\ r.from <= h THEN h ELSE r.through

\* The thread stays divided by its frozen head.
LEMMA SpokenThread ==
  ASSUME StudyInv, NEW e \in Episodes, NEW y, NEW m, Spoken(e, y, m)
  PROVE  LET t == Append(thread[e], m)
         IN  /\ EpisodeSound(y, Len(t))
             /\ \A i \in DOMAIN t : MessageSound(e, y, i, t[i])
             /\ y.state \in Corrected => t[y.frozen + 1].author = Service
<1> DEFINE t == Append(thread[e], m)
           x == episode[e]
           n == Len(thread[e])
<1>1. /\ x \in EpisodeRows /\ n \in Nat /\ EpisodeSound(x, n) /\ thread[e] \in Seq(Messages)
      /\ x.frozen \in Int /\ m \in Messages /\ y.frozen = x.frozen
  BY TypedRows, EpisodeParts DEF StudyInv, EpisodesSound, Spoken
<1>2. /\ Len(t) = n + 1 /\ t[n + 1] = m /\ DOMAIN t = 1..(n + 1)
      /\ \A i \in 1..n : t[i] = thread[e][i]
  BY <1>1
<1>3. x.state \in Corrected => x.frozen \in Nat /\ x.frozen < n
  BY <1>1, EpisodeParts DEF EpisodeSound, Handed
<1>4. x.state = "SuccessorAdmitted" => x.frozen \in Nat /\ x.frozen = n
  BY <1>1, EpisodeParts DEF EpisodeSound, Handed, Corrected
<1>5. EpisodeSound(y, n + 1)
  <2>1. CASE x.state = "SourceActive" /\ y.state = "SourceActive" /\ x.frozen = NoHead
    BY <1>1, <2>1 DEF EpisodeSound, Spoken, Handed, Corrected
  <2>2. CASE x.state = "SuccessorAdmitted" /\ y.state = "CorrectionReleased"
    <3>1. x.frozen # NoHead /\ x.frozen < n + 1 /\ x.frozen <= n + 1
      BY <1>1, <1>4, <2>2 DEF NoHead
    <3> QED BY <1>1, <2>2, <3>1 DEF EpisodeSound, Spoken, Handed, Corrected
  <2>3. CASE {x.state, y.state} \subseteq {"CorrectionReleased", "SuccessorActive"}
    <3>1. x.frozen # NoHead /\ x.frozen < n + 1 /\ x.frozen <= n + 1
      BY <1>1, <1>3, <2>3 DEF NoHead, Corrected
    <3> QED BY <1>1, <2>3, <3>1 DEF EpisodeSound, Spoken, Handed, Corrected
  <2> QED BY <2>1, <2>2, <2>3 DEF Spoken
<1>6. ASSUME NEW i \in 1..n PROVE MessageSound(e, y, i, thread[e][i])
  <2>1. MessageSound(e, x, i, thread[e][i])
    BY <1>1 DEF StudyInv, MessagesSound
  <2> QED BY <2>1 DEF MessageSound, Spoken, Corrected
<1>7. MessageSound(e, y, n + 1, m)
  <2>1. CASE x.frozen = NoHead /\ m.author # Service /\ PhaseOf(m.author) = "Source"
    BY <1>1, <2>1 DEF MessageSound, Spoken
  <2>2. CASE x.state = "SuccessorAdmitted" /\ y.state = "CorrectionReleased" /\ m.author = Service
    BY <1>1, <1>4, <2>2 DEF MessageSound, Corrected
  <2>3. CASE x.state \in Corrected /\ m.author # Service /\ PhaseOf(m.author) = "Successor"
    <3>1. x.frozen # NoHead /\ n + 1 > x.frozen
      BY <1>1, <1>3, <2>3 DEF NoHead
    <3> QED BY <1>1, <2>3, <3>1 DEF MessageSound, Spoken
  <2> QED BY <2>1, <2>2, <2>3 DEF Spoken, Corrected
<1>8. \A i \in DOMAIN t : MessageSound(e, y, i, t[i])
  <2>1. SUFFICES ASSUME NEW i \in 1..(n + 1) PROVE MessageSound(e, y, i, t[i])
    BY <1>2
  <2>2. i \in 1..n \/ i = n + 1
    BY <1>1
  <2> QED BY <1>2, <1>6, <1>7, <2>2
<1>9. ASSUME y.state \in Corrected PROVE t[y.frozen + 1].author = Service
  <2>1. CASE x.state = "SuccessorAdmitted" /\ m.author = Service
    BY <1>1, <1>2, <1>4, <2>1
  <2>2. CASE x.state \in Corrected
    <3>1. thread[e][x.frozen + 1].author = Service
      BY <2>2 DEF StudyInv, CorrectionsPlaced
    <3>2. x.frozen + 1 \in 1..n
      BY <1>1, <1>3, <2>2
    <3> QED BY <1>1, <1>2, <3>1, <3>2
  <2> QED BY <1>9, <2>1, <2>2 DEF Spoken, Corrected
<1> QED BY <1>2, <1>5, <1>8, <1>9

\* Who was exposed sees the message.
LEMMA SpokenSeat ==
  ASSUME StudyInv, NEW q \in Seats, NEW y, NEW m, Spoken(EpisodeOf(q), y, m), NEW z,
         Advanced(obligation[q], z, Len(thread[EpisodeOf(q)]) + 1)
  PROVE  SeatSound(q, z, y, Len(thread[EpisodeOf(q)]) + 1)
<1> DEFINE e == EpisodeOf(q)
           x == episode[e]
           n == Len(thread[e])
           r == obligation[q]
<1>1. /\ x \in EpisodeRows /\ n \in Nat /\ EpisodeSound(x, n) /\ SeatSound(q, r, x, n)
      /\ r \in ObligationRows /\ z \in ObligationRows /\ y \in EpisodeRows
  BY SeatFacts DEF Advanced, Spoken
<1>2. /\ x.frozen \in Int /\ r.from \in Nat /\ r.through \in Nat /\ r.decision \in Int
      /\ r.decision # NoDecision => r.decision \in Nat
  BY <1>1, EpisodeParts, ObligationParts
<1>3. /\ z.state = r.state /\ z.from = r.from /\ z.reads = r.reads /\ z.decision = r.decision
      /\ z.through = IF r.from # 0 /\ r.from <= n + 1 THEN n + 1 ELSE r.through
  BY DEF Advanced
<1>4. /\ y.treatment = x.treatment /\ y.frozen = x.frozen /\ y.revealed = x.revealed
      /\ y.state \notin {"None", "Admitted", "Closed"}
      /\ x.state \in {"SuccessorAdmitted"} \cup Corrected => y.state \in Corrected
      /\ x.state \notin {"SuccessorAdmitted"} \cup Corrected => y.state \notin Corrected
  BY DEF Spoken, Corrected
<1>5. r.through <= n /\ r.decision <= n
  BY <1>1 DEF SeatSound
<1>6. z.through <= n + 1 /\ z.decision <= n + 1
  BY <1>1, <1>2, <1>3, <1>5
<1>7. r.state = "None" => z = NoObligation
  <2>1. ASSUME r.state = "None" PROVE z = NoObligation
    <3>1. r = NoObligation /\ r.from = 0 /\ z.through = r.through
      BY <1>1, <1>3, <2>1 DEF SeatSound, NoObligation
    <3>2. z = [state |-> z.state, charged |-> z.charged, from |-> z.from, through |-> z.through,
               reads |-> z.reads, decision |-> z.decision, claimed |-> z.claimed,
               binding |-> z.binding, child |-> z.child]
      BY <1>1 DEF ObligationRows
    <3>3. /\ z.state = r.state /\ z.charged = r.charged /\ z.from = r.from
          /\ z.through = r.through /\ z.reads = r.reads /\ z.decision = r.decision
          /\ z.claimed = r.claimed /\ z.binding = r.binding /\ z.child = r.child
      BY <1>3, <3>1 DEF Advanced
    <3>4. /\ r.state = "None" /\ r.charged = 0 /\ r.from = 0 /\ r.through = 0
          /\ r.reads = <<>> /\ r.decision = NoDecision /\ r.claimed = FALSE
          /\ r.binding = "None" /\ r.child = 0
      BY <3>1 DEF NoObligation
    <3> HIDE DEF r
    <3> QED BY <3>2, <3>3, <3>4 DEF NoObligation
  <2> QED BY <2>1
<1>8. ASSUME r.from # 0, PhaseOf(q) = "Successor"
      PROVE  r.from = ExposureOf(y) /\ (y.state \in Corrected => z.through > y.frozen)
  <2>1. r.from = ExposureOf(x) /\ ExposureOf(y) = ExposureOf(x)
    BY <1>1, <1>4, <1>8 DEF SeatSound, ExposureOf
  <2>2. r.state # "None"
    BY <1>1, <1>8 DEF SeatSound, NoObligation
  <2>3. x.frozen <= n
    BY <1>1, <1>8, <2>2 DEF SeatSound, EpisodeSound, Handed
  <2>4. r.from <= n + 1
    BY <1>1, <1>2, <2>1, <2>3 DEF ExposureOf
  <2>5. z.through > x.frozen
    BY <1>1, <1>2, <1>3, <1>8, <2>3, <2>4
  <2> QED BY <1>4, <2>1, <2>5
<1> HIDE DEF x, n, r
<1>9. SeatSound(q, z, y, n + 1)
  BY <1>1, <1>3, <1>4, <1>6, <1>7, <1>8 DEF SeatSound
<1> QED BY <1>9 DEF n

\* A message is added to the thread of each episode in W.
LEMMA SpeakStep ==
  ASSUME StudyInv, NEW W \in SUBSET Episodes, events' \in 0..MaxEvents,
         UNCHANGED <<revisions, populations, run, pairs, allocated, children>>,
         episode' \in [Episodes -> EpisodeRows], thread' \in [Episodes -> Seq(Messages)],
         obligation' \in [Seats -> ObligationRows],
         \A e \in W : \E m : Spoken(e, episode'[e], m) /\ thread'[e] = Append(thread[e], m),
         \A e \in Episodes \ W : episode'[e] = episode[e] /\ thread'[e] = thread[e],
         \A q \in Seats :
           IF EpisodeOf(q) \in W
           THEN Advanced(obligation[q], obligation'[q], Len(thread[EpisodeOf(q)]) + 1)
           ELSE obligation'[q] = obligation[q],
         PairsSound', RunSound'
  PROVE  StudyInv'
<1>1. Typed'
  BY DEF StudyInv, Typed
<1>2. ASSUME NEW e \in W
      PROVE  /\ EpisodeSound(episode'[e], Len(thread'[e]))
             /\ \A i \in DOMAIN thread'[e] : MessageSound(e, episode'[e], i, thread'[e][i])
             /\ episode'[e].state \in Corrected =>
                  thread'[e][episode'[e].frozen + 1].author = Service
             /\ Len(thread'[e]) = Len(thread[e]) + 1
             /\ \A i \in DOMAIN thread'[e] : TargetSound(thread'[e][i])
  <2>1. PICK m : Spoken(e, episode'[e], m) /\ thread'[e] = Append(thread[e], m)
    OBVIOUS
  <2>2. thread[e] \in Seq(Messages) /\ m \in Messages
    BY <2>1, TypedRows DEF StudyInv, Spoken
  <2>3. Len(thread'[e]) = Len(thread[e]) + 1
    BY <2>1, <2>2
  <2>4. ASSUME NEW i \in DOMAIN thread'[e] PROVE TargetSound(thread'[e][i])
    <3>1. \/ i \in DOMAIN thread[e] /\ thread'[e][i] = thread[e][i]
          \/ thread'[e][i] = m
      BY <2>1, <2>2, <2>4
    <3> QED BY <2>1, <3>1 DEF StudyInv, MessagesSound, Spoken
  <2>5. LET t == Append(thread[e], m)
        IN  /\ EpisodeSound(episode'[e], Len(t))
            /\ \A i \in DOMAIN t : MessageSound(e, episode'[e], i, t[i])
            /\ episode'[e].state \in Corrected => t[episode'[e].frozen + 1].author = Service
    <3>1. e \in Episodes
      OBVIOUS
    <3>2. ASSUME NEW y, Spoken(e, y, m)
          PROVE  LET t == Append(thread[e], m)
                 IN  /\ EpisodeSound(y, Len(t))
                     /\ \A i \in DOMAIN t : MessageSound(e, y, i, t[i])
                     /\ y.state \in Corrected => t[y.frozen + 1].author = Service
      BY <3>1, <3>2, SpokenThread, Zenon
    <3> QED BY <2>1, <3>2, Zenon
  <2> QED BY <2>1, <2>3, <2>4, <2>5
<1>3. EpisodesSound' /\ CorrectionsPlaced'
  BY <1>2 DEF StudyInv, EpisodesSound, CorrectionsPlaced
<1>4. \A q \in Seats : obligation'[q].from = obligation[q].from
  BY DEF Advanced
<1>5. MessagesSound'
  <2>1. SUFFICES ASSUME NEW e \in Episodes, NEW i \in DOMAIN thread'[e]
                 PROVE  /\ MessageSound(e, episode'[e], i, thread'[e][i])
                        /\ TargetSound(thread[e][i])'
    BY DEF MessagesSound
  <2>2. /\ MessageSound(e, episode'[e], i, thread'[e][i])
        /\ TargetSound(thread'[e][i])
    <3>1. CASE e \in W
      BY <1>2, <3>1
    <3>2. CASE e \notin W
      BY <3>2 DEF StudyInv, MessagesSound
    <3> QED BY <3>1, <3>2
  <2>3. thread'[e][i].author \in Seats \cup {Service}
    <3>1. thread'[e] \in Seq(Messages)
      OBVIOUS
    <3>2. thread'[e][i] \in Messages
      BY <3>1
    <3> QED BY <3>2 DEF Messages
  <2>4. TargetSound(thread[e][i])'
    BY <1>4, <2>2, <2>3 DEF TargetSound
  <2> QED BY <2>2, <2>4
<1>6. SeatsSound'
  <2>1. SUFFICES ASSUME NEW q \in Seats
                 PROVE  SeatSound(q, obligation'[q], episode'[EpisodeOf(q)], Len(thread'[EpisodeOf(q)]))
    BY DEF SeatsSound
  <2>2. CASE EpisodeOf(q) \in W
    BY <1>2, <2>2, SpokenSeat
  <2>3. CASE EpisodeOf(q) \notin W
    BY <2>3, SeatFacts
  <2> QED BY <2>2, <2>3
<1>7. \A q \in Seats : /\ obligation'[q].child = obligation[q].child
                       /\ obligation'[q].binding = obligation[q].binding
                       /\ obligation'[q].state = obligation[q].state
  BY DEF Advanced
<1>8. RuntimesSound' /\ ChildrenDistinct'
  BY <1>7 DEF StudyInv, RuntimesSound, RuntimeSound, ChildrenDistinct
<1> QED BY <1>1, <1>3, <1>5, <1>6, <1>8 DEF StudyInv

\* The rows that Advance makes.
LEMMA AdvanceRows ==
  ASSUME NEW rows \in [Seats -> ObligationRows], NEW e \in Episodes, Len(thread[e]) \in Nat
  PROVE  /\ Advance(rows, e) \in [Seats -> ObligationRows]
         /\ \A q \in Seats :
              IF EpisodeOf(q) = e THEN Advanced(rows[q], Advance(rows, e)[q], Len(thread[e]) + 1)
              ELSE Advance(rows, e)[q] = rows[q]
<1>1. ASSUME NEW q \in Seats
      PROVE  /\ Advance(rows, e)[q] \in ObligationRows
             /\ IF EpisodeOf(q) = e THEN Advanced(rows[q], Advance(rows, e)[q], Len(thread[e]) + 1)
                ELSE Advance(rows, e)[q] = rows[q]
  <2> DEFINE r == rows[q]
             h == Len(thread[e]) + 1
  <2>1. r \in ObligationRows /\ h \in Nat
    OBVIOUS
  <2>2. Advance(rows, e)[q] = IF EpisodeOf(q) = e /\ r.from # 0 /\ r.from <= h
                              THEN [r EXCEPT !.through = h] ELSE r
    BY DEF Advance, HeadOf
  <2>3. Advanced(r, [r EXCEPT !.through = h], h) \/ ~(r.from # 0 /\ r.from <= h)
    <3> HIDE DEF r, h
    <3>1. [r EXCEPT !.through = h] \in ObligationRows
      BY <2>1 DEF ObligationRows
    <3> QED BY <2>1, <3>1 DEF Advanced, ObligationRows
  <2>4. Advanced(r, r, h) \/ (r.from # 0 /\ r.from <= h)
    BY <2>1 DEF Advanced
  <2>5. Advance(rows, e)[q] \in ObligationRows
    <3> HIDE DEF r, h
    <3> QED BY <2>1, <2>2 DEF ObligationRows
  <2> HIDE DEF r, h
  <2>6. EpisodeOf(q) = e => Advanced(r, Advance(rows, e)[q], h)
    BY <2>2, <2>3, <2>4
  <2>7. EpisodeOf(q) # e => Advance(rows, e)[q] = r
    BY <2>2
  <2> QED BY <2>5, <2>6, <2>7 DEF r, h
<1>2. Advance(rows, e) \in [Seats -> ObligationRows]
  BY <1>1 DEF Advance
<1> QED BY <1>1, <1>2

\* publish_forum_message
LEMMA PublishKeeps ==
  ASSUME StudyInv, NEW o \in Seats, NEW target \in DOMAIN thread[EpisodeOf(o)] \cup {0},
         events' \in 0..MaxEvents, PublishForumMessage(o, target)
  PROVE  StudyInv'
<1> DEFINE e == EpisodeOf(o)
           x == episode[e]
           m == [author |-> o, published |-> TRUE, target |-> target]
           y == [x EXCEPT !.state = IF @ = "CorrectionReleased" THEN "SuccessorActive" ELSE @]
<1>1. /\ UNCHANGED <<revisions, populations, run, pairs, allocated, children>>
      /\ obligation[o].state = "Active" /\ obligation[o].from # 0
      /\ target # 0 => target >= obligation[o].from
      /\ thread' = [thread EXCEPT ![e] = Append(thread[e], m)]
      /\ obligation' = Advance(obligation, e) /\ episode' = [episode EXCEPT ![e] = y]
  BY DEF PublishForumMessage, Active, Exposed, Visible, SetEpisode, studyUnchanged,
         runtimeUnchanged
<1>2. \/ PhaseOf(o) = "Source" /\ x.state = "SourceActive" /\ x.frozen = NoHead
      \/ PhaseOf(o) = "Successor" /\ x.state \in {"CorrectionReleased", "SuccessorActive"}
  BY SeatParts DEF PublishForumMessage, PhaseMaySpeak, Released, Frozen, Phases
<1>3. /\ e \in Episodes /\ x \in EpisodeRows /\ o # Service
      /\ episode \in [Episodes -> EpisodeRows] /\ thread \in [Episodes -> Seq(Messages)]
      /\ obligation \in [Seats -> ObligationRows] /\ Len(thread[e]) \in Nat
  BY SeatFacts, SeatParts DEF StudyInv, Typed
<1>4. m \in Messages /\ m.author = o /\ m.target = target
  <2>1. target \in Nat
    BY <1>3, MessageParts DEF StudyInv
  <2> QED BY <2>1 DEF Messages
<1>5. y \in EpisodeRows
  BY <1>3 DEF EpisodeRows, EpisodeStates
<1>6. /\ y.treatment = x.treatment /\ y.frozen = x.frozen /\ y.revealed = x.revealed
      /\ y.measured = x.measured
      /\ y.state = IF x.state = "CorrectionReleased" THEN "SuccessorActive" ELSE x.state
  BY <1>3 DEF EpisodeRows
<1> HIDE DEF m, y
<1>7. Spoken(e, y, m)
  <2>1. TargetSound(m)
    BY <1>1, <1>4 DEF TargetSound
  <2> QED BY <1>2, <1>3, <1>4, <1>5, <1>6, <2>1 DEF Spoken
<1>8. /\ episode' \in [Episodes -> EpisodeRows] /\ episode'[e] = y
      /\ thread' \in [Episodes -> Seq(Messages)] /\ thread'[e] = Append(thread[e], m)
      /\ \A f \in Episodes : f # e => episode'[f] = episode[f] /\ thread'[f] = thread[f]
  <2>1. Append(thread[e], m) \in Seq(Messages)
    BY <1>3, <1>4
  <2> QED BY <1>1, <1>3, <1>5, <2>1
<1>9. /\ obligation' \in [Seats -> ObligationRows]
      /\ \A q \in Seats :
           IF EpisodeOf(q) \in {e} THEN Advanced(obligation[q], obligation'[q], Len(thread[EpisodeOf(q)]) + 1)
           ELSE obligation'[q] = obligation[q]
  BY <1>1, <1>3, AdvanceRows
<1>10. PairsSound' /\ RunSound'
  BY <1>1, <1>2, <1>6, <1>8, PairsKeep DEF Corrected
<1>11. /\ {e} \in SUBSET Episodes
       /\ \A f \in {e} : \E k : Spoken(f, episode'[f], k) /\ thread'[f] = Append(thread[f], k)
       /\ \A f \in Episodes \ {e} : episode'[f] = episode[f] /\ thread'[f] = thread[f]
  BY <1>3, <1>7, <1>8
<1> HIDE DEF e
<1> QED BY <1>1, <1>8, <1>9, <1>10, <1>11, SpeakStep

\* retract_forum_message: the message stays where it is, by whom it was.
LEMMA RetractKeeps ==
  ASSUME StudyInv, NEW o \in Seats, NEW i \in DOMAIN thread[EpisodeOf(o)],
         events' \in 0..MaxEvents, RetractForumMessage(o, i)
  PROVE  StudyInv'
<1> DEFINE e == EpisodeOf(o)
           m == [thread[e][i] EXCEPT !.published = FALSE]
<1>1. /\ UNCHANGED <<revisions, populations, run, pairs, allocated, children, episode, obligation>>
      /\ thread' = [thread EXCEPT ![e][i].published = FALSE]
  BY DEF RetractForumMessage, studyUnchanged, runtimeUnchanged
<1>2. e \in Episodes /\ thread \in [Episodes -> Seq(Messages)]
  BY SeatParts DEF StudyInv, Typed
<1>3. thread[e][i] \in Messages
  BY <1>2, MessageParts DEF StudyInv
<1>4. m \in Messages /\ m.author = thread[e][i].author /\ m.target = thread[e][i].target
  BY <1>3 DEF Messages
<1>5. thread' = [thread EXCEPT ![e] = [thread[e] EXCEPT ![i] = m]]
  BY <1>1, <1>2
<1> HIDE DEF m
<1>6. /\ [thread[e] EXCEPT ![i] = m] \in Seq(Messages)
      /\ DOMAIN [thread[e] EXCEPT ![i] = m] = DOMAIN thread[e]
      /\ Len([thread[e] EXCEPT ![i] = m]) = Len(thread[e])
  BY <1>2, <1>4
<1>7. /\ thread' \in [Episodes -> Seq(Messages)]
      /\ \A f \in Episodes : Len(thread'[f]) = Len(thread[f]) /\ DOMAIN thread'[f] = DOMAIN thread[f]
  BY <1>2, <1>5, <1>6
<1>8. \A f \in Episodes : \A j \in DOMAIN thread[f] :
        thread'[f][j].author = thread[f][j].author /\ thread'[f][j].target = thread[f][j].target
  BY <1>2, <1>4, <1>5
<1>9. Typed'
  BY <1>1, <1>7 DEF StudyInv, Typed
<1>10. EpisodesSound' /\ SeatsSound'
  BY <1>1, <1>7, SeatParts DEF StudyInv, EpisodesSound, SeatsSound
<1>11. MessagesSound'
  <2>1. SUFFICES ASSUME NEW f \in Episodes, NEW j \in DOMAIN thread'[f]
                 PROVE  /\ MessageSound(f, episode'[f], j, thread'[f][j])
                        /\ TargetSound(thread[f][j])'
    BY DEF MessagesSound
  <2>2. MessageSound(f, episode[f], j, thread[f][j]) /\ TargetSound(thread[f][j])
    BY <1>7 DEF StudyInv, MessagesSound
  <2>3. /\ thread'[f][j].author = thread[f][j].author
        /\ thread'[f][j].target = thread[f][j].target
    BY <1>7, <1>8
  <2> QED BY <1>1, <2>2, <2>3 DEF MessageSound, TargetSound
<1>12. CorrectionsPlaced'
  <2>1. SUFFICES ASSUME NEW f \in Episodes, episode[f].state \in Corrected
                 PROVE  thread'[f][episode[f].frozen + 1].author = Service
    BY <1>1 DEF CorrectionsPlaced
  <2>2. /\ episode[f] \in EpisodeRows /\ Len(thread[f]) \in Nat
        /\ DOMAIN thread[f] = 1..Len(thread[f])
        /\ EpisodeSound(episode[f], Len(thread[f]))
    BY TypedRows DEF StudyInv, EpisodesSound
  <2>3. episode[f].frozen \in Nat /\ episode[f].frozen < Len(thread[f])
    BY <2>1, <2>2, EpisodeParts DEF EpisodeSound, Handed
  <2>4. episode[f].frozen + 1 \in DOMAIN thread[f]
    BY <2>2, <2>3
  <2> QED BY <1>8, <2>1, <2>4 DEF StudyInv, CorrectionsPlaced
<1>13. RuntimesSound' /\ ChildrenDistinct' /\ PairsSound' /\ RunSound'
  BY <1>1 DEF StudyInv, RuntimesSound, ChildrenDistinct, PairsSound, RunSound, RegisteredPairsClosed
<1> QED BY <1>9, <1>10, <1>11, <1>12, <1>13 DEF StudyInv

\* release_matched_correction: both arms, or neither.
LEMMA ReleaseKeeps ==
  ASSUME StudyInv, NEW p \in pairs, events' \in 0..MaxEvents, ReleaseMatchedCorrection(p)
  PROVE  StudyInv'
<1> DEFINE W == {p[1], p[2]}
           m == [author |-> Service, published |-> TRUE, target |-> 0]
           y(e) == [episode[e] EXCEPT !.state = "CorrectionReleased"]
<1>1. /\ UNCHANGED <<revisions, populations, run, pairs, allocated, children>>
      /\ \A e \in W : episode[e].state = "SuccessorAdmitted"
      /\ thread' = [e \in Episodes |-> IF e \in W THEN Append(thread[e], m) ELSE thread[e]]
      /\ obligation' = Advance(Advance(obligation, p[1]), p[2])
      /\ episode' = [e \in Episodes |-> IF e \in W THEN y(e) ELSE episode[e]]
  BY DEF ReleaseMatchedCorrection, MayRelease, studyUnchanged, runtimeUnchanged
<1>2. /\ p[1] \in Episodes /\ p[2] \in Episodes
      /\ episode \in [Episodes -> EpisodeRows] /\ thread \in [Episodes -> Seq(Messages)]
      /\ obligation \in [Seats -> ObligationRows]
      /\ \A e \in Episodes : episode[e] \in EpisodeRows /\ Len(thread[e]) \in Nat
  BY TypedRows DEF StudyInv, Typed
<1>3. p[1] # p[2]
  BY DEF StudyInv, PairsSound
<1>4. m \in Messages /\ m.author = Service /\ m.target = 0
  BY DEF Messages
<1>5. \A e \in W :
        /\ y(e) \in EpisodeRows /\ y(e).state = "CorrectionReleased"
        /\ y(e).treatment = episode[e].treatment /\ y(e).frozen = episode[e].frozen
        /\ y(e).revealed = episode[e].revealed /\ y(e).measured = episode[e].measured
  <2>1. ASSUME NEW x \in EpisodeRows
        PROVE  LET z == [x EXCEPT !.state = "CorrectionReleased"]
               IN  /\ z \in EpisodeRows /\ z.state = "CorrectionReleased"
                   /\ z.treatment = x.treatment /\ z.frozen = x.frozen
                   /\ z.revealed = x.revealed /\ z.measured = x.measured
    BY DEF EpisodeRows, EpisodeStates
  <2>2. \A e \in W : episode[e] \in EpisodeRows
    BY <1>2
  <2> QED BY <2>1, <2>2
<1>6. /\ episode' \in [Episodes -> EpisodeRows]
      /\ \A e \in W : episode'[e] = y(e)
      /\ \A e \in Episodes \ W : episode'[e] = episode[e] /\ thread'[e] = thread[e]
  BY <1>1, <1>2, <1>5
<1> HIDE DEF m, y
<1>7. /\ thread' \in [Episodes -> Seq(Messages)]
      /\ \A e \in W : thread'[e] = Append(thread[e], m)
  BY <1>1, <1>2, <1>4
<1>8. \A e \in W : Spoken(e, y(e), m)
  <2>1. TargetSound(m)
    BY <1>4 DEF TargetSound
  <2> QED BY <1>1, <1>2, <1>4, <1>5, <2>1 DEF Spoken
<1>9. /\ obligation' \in [Seats -> ObligationRows]
      /\ \A q \in Seats :
           IF EpisodeOf(q) \in W
           THEN Advanced(obligation[q], obligation'[q], Len(thread[EpisodeOf(q)]) + 1)
           ELSE obligation'[q] = obligation[q]
  <2> DEFINE rows == Advance(obligation, p[1])
  <2>1. /\ rows \in [Seats -> ObligationRows]
        /\ \A q \in Seats :
             IF EpisodeOf(q) = p[1] THEN Advanced(obligation[q], rows[q], Len(thread[p[1]]) + 1)
             ELSE rows[q] = obligation[q]
    BY <1>2, AdvanceRows
  <2> HIDE DEF rows
  <2>2. /\ Advance(rows, p[2]) \in [Seats -> ObligationRows]
        /\ \A q \in Seats :
             IF EpisodeOf(q) = p[2] THEN Advanced(rows[q], Advance(rows, p[2])[q], Len(thread[p[2]]) + 1)
             ELSE Advance(rows, p[2])[q] = rows[q]
    BY <1>2, <2>1, AdvanceRows
  <2>3. obligation' = Advance(rows, p[2])
    BY <1>1 DEF rows
  <2> QED BY <1>3, <2>1, <2>2, <2>3
<1>10. PairsSound'
  <2>1. /\ \A e \in W : /\ episode'[e].state \in Corrected /\ episode[e].state \notin Corrected
                         /\ episode'[e].treatment = episode[e].treatment
    BY <1>1, <1>5, <1>6 DEF Corrected
  <2>2. \A q \in pairs : q[1] \in Episodes /\ q[2] \in Episodes
    BY DEF StudyInv, Typed
  <2>3. \A q \in pairs : /\ episode'[q[1]].treatment = "Retained"
                         /\ episode'[q[2]].treatment = "Reset"
    BY <1>6, <2>1, <2>2 DEF StudyInv, PairsSound
  <2>4. \A q \in pairs : q # p => q[1] \notin W /\ q[2] \notin W
    BY DEF StudyInv, PairsSound
  <2>5. \A q \in pairs : episode'[q[1]].state \in Corrected <=> episode'[q[2]].state \in Corrected
    BY <1>6, <2>1, <2>2, <2>4 DEF StudyInv, PairsSound
  <2>6. \A e \in Episodes : episode'[e].state \in Corrected => \E q \in pairs : e \in {q[1], q[2]}
    BY <1>6 DEF StudyInv, PairsSound
  <2> QED BY <1>1, <2>3, <2>5, <2>6 DEF StudyInv, PairsSound
<1>11. RunSound'
  <2>1. \A q \in run.registered : \A k \in {1, 2} : q[k] \in Episodes
    BY DEF StudyInv, Typed
  <2> QED BY <1>1, <1>6, <2>1 DEF StudyInv, RunSound, RegisteredPairsClosed
<1>12. /\ W \in SUBSET Episodes
       /\ \A e \in W : \E k : Spoken(e, episode'[e], k) /\ thread'[e] = Append(thread[e], k)
  BY <1>2, <1>6, <1>7, <1>8
<1> HIDE DEF W
<1> QED BY <1>1, <1>6, <1>7, <1>9, <1>10, <1>11, <1>12, SpeakStep

-----------------------------------------------------------------------------
(* The steps together.                                                     *)

\* The bound keeps the count of events in its range.
LEMMA EventsStay ==
  ASSUME StudyInv, Next
  PROVE  events' \in 0..MaxEvents
<1>1. events \in 0..MaxEvents /\ MaxEvents \in Nat
  BY StudyAssumption DEF StudyInv, Typed
<1>2. ASSUME NEW w \in Nat, Eventful(w) PROVE events' \in 0..MaxEvents
  BY <1>1, <1>2 DEF Eventful
<1>3. CASE Planned
  BY <1>1, <1>3 DEF Planned
<1>4. \A o \in Seats : AdmissionWeight(o) \in Nat
  BY DEF AdmissionWeight
<1>5. Planned \/ \E w \in Nat : Eventful(w)
  BY <1>4 DEF Next, StudyNext, ActorNext, ChildNext
<1> QED BY <1>2, <1>3, <1>5

\* The coordinator's and the run's steps.
LEMMA StudyKeeps ==
  ASSUME StudyInv, events' \in 0..MaxEvents, StudyNext
  PROVE  StudyInv'
<1>1. \/ \E kind \in {"Protocol", "World", "Measurement", "Institution"} : AdmitRevision(kind)
      \/ AdmitPopulationSnapshot
      \/ AdmitStudyRun \/ StartStudyRun \/ CompleteStudyRun
      \/ \E p \in pairs : RegisterStudyRunPair(p)
      \/ \E p \in pairs : ReleaseMatchedCorrection(p)
      \/ \E e, f \in Episodes : AdmitMatchedPair(e, f)
      \/ \E e \in Episodes : AdmitEpisode(e)
      \/ \E e \in Episodes : \E t \in Treatments : AssignTreatment(e, t)
      \/ \E e \in Episodes : CreateEpisodeForum(e)
      \/ \E e \in Episodes : OpenForumThread(e)
      \/ \E e \in Episodes : FreezeForumHead(e)
      \/ \E e \in Episodes : ReplacePopulation(e)
      \/ \E e \in Episodes : RevealGroundTruth(e)
      \/ \E e \in Episodes : \E slot \in Slots : RecordMeasurementResult(e, slot)
      \/ \E e \in Episodes : CloseEpisode(e)
      \/ \E e, f \in Episodes : ForkEpisode(e, f)
  BY Zenon DEF StudyNext
<1>2. CASE \/ \E kind \in {"Protocol", "World", "Measurement", "Institution"} : AdmitRevision(kind)
           \/ AdmitPopulationSnapshot
  BY <1>2, RevisionKeeps
<1>3. CASE \/ AdmitStudyRun \/ StartStudyRun \/ CompleteStudyRun
           \/ \E p \in pairs : RegisterStudyRunPair(p)
  BY <1>3, RunKeeps
<1>4. CASE \E p \in pairs : ReleaseMatchedCorrection(p)
  BY <1>4, ReleaseKeeps
<1>5. CASE \E e, f \in Episodes : AdmitMatchedPair(e, f)
  BY <1>5, AdmitMatchedPairKeeps
<1>6. CASE \E e \in Episodes : AdmitEpisode(e)
  BY <1>6, AdmitEpisodeKeeps
<1>7. CASE \E e \in Episodes : \E t \in Treatments : AssignTreatment(e, t)
  BY <1>7, AssignTreatmentKeeps
<1>8. CASE \E e \in Episodes : CreateEpisodeForum(e)
  BY <1>8, CreateEpisodeForumKeeps
<1>9. CASE \E e \in Episodes : OpenForumThread(e)
  BY <1>9, OpenForumThreadKeeps
<1>10. CASE \E e \in Episodes : FreezeForumHead(e)
  BY <1>10, FreezeForumHeadKeeps
<1>11. CASE \E e \in Episodes : ReplacePopulation(e)
  BY <1>11, ReplacePopulationKeeps
<1>12. CASE \E e \in Episodes : RevealGroundTruth(e)
  BY <1>12, RevealGroundTruthKeeps
<1>13. CASE \E e \in Episodes : \E slot \in Slots : RecordMeasurementResult(e, slot)
  BY <1>13, RecordMeasurementResultKeeps
<1>14. CASE \E e \in Episodes : CloseEpisode(e)
  BY <1>14, CloseEpisodeKeeps
<1>15. CASE \E e, f \in Episodes : ForkEpisode(e, f)
  BY <1>15, ForkEpisodeKeeps
<1> QED BY <1>1, <1>2, <1>3, <1>4, <1>5, <1>6, <1>7, <1>8, <1>9, <1>10, <1>11, <1>12, <1>13,
            <1>14, <1>15

\* One step of the actor in the seat o, or of the daemon for it.
ActorStep(o) ==
    \/ AdmitActorObligation(o)
    \/ \E charge \in 0..UnitBudget : CompleteActorObligation(o, charge)
    \/ FailActorObligation(o) \/ ClaimStudyActorTaskAttemptLaunch(o)
    \/ SpawnTaskAttempt(o) \/ AllocateStudyActorWork(o)
    \/ \E c \in DOMAIN children : BindActorTaskAttemptRuntime(o, c)
    \/ \E s \in {"Live", "Lost"} : BindActorRuntime(o, s)
    \/ ReconcileActorRuntime(o) \/ SettleActorTaskAttemptAfterRecovery(o)
    \/ AdmitForumExposure(o)
    \/ \E i \in DOMAIN thread[EpisodeOf(o)] \cup {0} : PublishForumMessage(o, i)
    \/ \E i \in DOMAIN thread[EpisodeOf(o)] \cup {0} : RecordDecision(o, i)
    \/ \E i \in DOMAIN thread[EpisodeOf(o)] : RetractForumMessage(o, i)
    \/ \E i, j \in DOMAIN thread[EpisodeOf(o)] : ReadForum(o, i, j)

\* ActorNext without its bounds.
LEMMA ActorSteps ==
  ASSUME ActorNext
  PROVE  \E o \in Seats : ActorStep(o)
<1>1. UnitBudget \in Nat
  BY StudyAssumption
<1>2. 0 \in 0..UnitBudget /\ 1..UnitBudget \subseteq 0..UnitBudget
  BY <1>1
<1> QED BY <1>2, Zenon DEF ActorNext, ActorStep

\* The steps of actors and of the daemon for them.
LEMMA ActorKeeps ==
  ASSUME StudyInv, events' \in 0..MaxEvents, ActorNext
  PROVE  StudyInv'
<1>1. PICK o \in Seats : ActorStep(o)
  BY ActorSteps
<1>2. CASE AdmitActorObligation(o)
  BY <1>2, AdmitActorObligationKeeps
<1>3. CASE \/ \E charge \in 0..UnitBudget : CompleteActorObligation(o, charge)
           \/ FailActorObligation(o) \/ ClaimStudyActorTaskAttemptLaunch(o)
  BY <1>3, ObligationEndsKeeps
<1>4. CASE SpawnTaskAttempt(o) \/ AllocateStudyActorWork(o)
  BY <1>4, ChildKeeps
<1>5. CASE \E c \in DOMAIN children : BindActorTaskAttemptRuntime(o, c)
  BY <1>5, BindTaskAttemptKeeps
<1>6. CASE \E s \in {"Live", "Lost"} : BindActorRuntime(o, s)
  BY <1>6, BindActorRuntimeKeeps
<1>7. CASE ReconcileActorRuntime(o)
  BY <1>7, ReconcileKeeps
<1>8. CASE SettleActorTaskAttemptAfterRecovery(o)
  BY <1>8, SettleKeeps
<1>9. CASE AdmitForumExposure(o)
  BY <1>9, AdmitForumExposureKeeps
<1>10. CASE \E i \in DOMAIN thread[EpisodeOf(o)] \cup {0} : PublishForumMessage(o, i)
  BY <1>10, PublishKeeps
<1>11. CASE \E i \in DOMAIN thread[EpisodeOf(o)] \cup {0} : RecordDecision(o, i)
  BY <1>11, RecordDecisionKeeps
<1>12. CASE \E i \in DOMAIN thread[EpisodeOf(o)] : RetractForumMessage(o, i)
  BY <1>12, RetractKeeps
<1>13. CASE \E i, j \in DOMAIN thread[EpisodeOf(o)] : ReadForum(o, i, j)
  BY <1>13, ReadForumKeeps
<1> QED BY <1>1, <1>2, <1>3, <1>4, <1>5, <1>6, <1>7, <1>8, <1>9, <1>10, <1>11, <1>12, <1>13
            DEF ActorStep

\* The empty ledger.
LEMMA InitInv ==
  ASSUME Init
  PROVE  StudyInv
<1>1. NoEpisode \in EpisodeRows /\ NoObligation \in ObligationRows
  <2>1. UnitBudget \in Nat
    BY StudyAssumption
  <2>2. NoEpisode \in EpisodeRows
    BY DEF NoEpisode, EpisodeRows, NoHead
  <2>3. NoObligation \in ObligationRows
    BY <2>1 DEF NoObligation, ObligationRows, NoDecision
  <2> QED BY <2>2, <2>3
<1>2. Typed
  BY <1>1, StudyAssumption DEF Init, Typed, RunStates
<1>3. EpisodesSound /\ MessagesSound /\ CorrectionsPlaced
  BY DEF Init, EpisodesSound, EpisodeSound, MessagesSound, CorrectionsPlaced, NoEpisode, Handed, Corrected, NoHead
<1>4. SeatsSound
  BY <1>1, EmptySeat, SeatParts DEF Init, SeatsSound
<1>5. RuntimesSound /\ ChildrenDistinct /\ PairsSound /\ RunSound
  BY DEF Init, RuntimesSound, RuntimeSound, ChildrenDistinct, PairsSound, RunSound, NoObligation,
         NoEpisode, Corrected
<1> QED BY <1>2, <1>3, <1>4, <1>5 DEF StudyInv

\* The invariant: the frozen head divides every thread, an exposure begins
\* where its treatment says, arms are corrected in pairs, a binding ends with
\* its child, and a closed episode is over.
THEOREM StudyHolds == Spec => []StudyInv
<1>1. Init => StudyInv
  BY InitInv
<1>2. StudyInv /\ [Next]_vars => StudyInv'
  <2> SUFFICES ASSUME StudyInv, [Next]_vars PROVE StudyInv'
    OBVIOUS
  <2>2. CASE Next
    <3>1. events' \in 0..MaxEvents
      BY <2>2, EventsStay
    <3>2. CASE StudyNext
      BY <3>1, <3>2, StudyKeeps
    <3>3. CASE ActorNext
      BY <3>1, <3>3, ActorKeeps
    <3>4. CASE ChildNext
      BY <3>1, <3>4, ChildKeeps DEF ChildNext
    <3> QED BY <2>2, <3>2, <3>3, <3>4 DEF Next
  <2>3. CASE UNCHANGED vars
    BY <2>3 DEF vars, StudyInv, Typed, EpisodesSound, MessagesSound, TargetSound,
       CorrectionsPlaced, SeatsSound, RuntimesSound, ChildrenDistinct, PairsSound, RunSound,
       RegisteredPairsClosed
  <2> QED BY <2>2, <2>3
<1> QED BY <1>1, <1>2, PTL DEF Spec

-----------------------------------------------------------------------------
(* What the invariant gives.                                               *)

\* The types of the tables hold, a child is bound to one obligation and
\* cursors and decisions lie within their thread.
THEOREM TypesHold == Spec => []TypeOK
<1>1. StudyInv => TypeOK
  <2> SUFFICES ASSUME StudyInv PROVE TypeOK
    OBVIOUS
  <2>1. \A e \in Episodes :
          episode[e] \in EpisodeRows /\ \A i \in DOMAIN thread[e] : thread[e][i] \in Messages
    BY TypedRows, MessageParts DEF StudyInv
  <2>2. ASSUME NEW o \in Seats
        PROVE  LET r == obligation[o]
               IN  /\ r.state \in {"None", "Active", "Completed", "Failed"}
                   /\ r.charged \in 0..UnitBudget /\ r.from \in Nat
                   /\ r.through \in 0..HeadOf(EpisodeOf(o))
                   /\ r.decision \in (0..HeadOf(EpisodeOf(o))) \cup {NoDecision}
                   /\ (r.child # 0) = (r.binding # "None") /\ r.child <= Len(children)
                   /\ \A q \in Seats \ {o} : r.child # 0 => obligation[q].child # r.child
    <3> DEFINE r == obligation[o]
               n == Len(thread[EpisodeOf(o)])
    <3>1. r \in ObligationRows /\ SeatSound(o, r, episode[EpisodeOf(o)], n) /\ n \in Nat
      BY SeatFacts
    <3>2. RuntimeSound(o, r, children)
      BY DEF StudyInv, RuntimesSound
    <3>3. \A q \in Seats \ {o} : r.child # 0 => obligation[q].child # r.child
      BY DEF StudyInv, ChildrenDistinct
    <3>4. r.through <= n /\ r.decision <= n
      BY <3>1 DEF SeatSound
    <3>5. (r.child # 0) = (r.binding # "None") /\ r.child <= Len(children)
      BY <3>2 DEF RuntimeSound
    <3> HIDE DEF r, n
    <3>6. /\ r.state \in {"None", "Active", "Completed", "Failed"}
          /\ r.charged \in 0..UnitBudget /\ r.from \in Nat
          /\ r.through \in Nat /\ (r.decision # NoDecision => r.decision \in Nat)
      BY <3>1, ObligationParts
    <3>7. r.through \in 0..n /\ r.decision \in (0..n) \cup {NoDecision}
      BY <3>1, <3>4, <3>6
    <3> QED BY <3>3, <3>5, <3>6, <3>7 DEF r, n, HeadOf
  <2>3. \A c \in DOMAIN children : children[c] \in ChildRows
    BY DEF StudyInv, Typed
  <2> QED BY <2>1, <2>2, <2>3 DEF TypeOK, StudyInv, Typed
<1> QED BY <1>1, StudyHolds, PTL

\* A seat's row and its child.
LEMMA EndedChild ==
  ASSUME StudyInv, NEW o \in Seats, obligation[o].state \notin {"None", "Active"}
  PROVE  /\ obligation[o].state \in {"Completed", "Failed"}
         /\ obligation[o].child # 0 => children[obligation[o].child].state # "Live"
<1>1. obligation[o] \in ObligationRows /\ RuntimeSound(o, obligation[o], children)
  BY SeatFacts DEF StudyInv, RuntimesSound
<1>2. /\ obligation[o].state \in {"None", "Active", "Completed", "Failed"}
      /\ obligation[o].binding \in {"None", "Bound", "Reconciled", "RecoverySettled"}
  BY <1>1, ObligationParts
<1> QED BY <1>1, <1>2 DEF RuntimeSound

\* An author's seat.
LEMMA AuthorFacts ==
  ASSUME StudyInv, NEW e \in Episodes, NEW i \in DOMAIN thread[e]
  PROVE  /\ i \in Nat /\ i >= 1 /\ i <= Len(thread[e])
         /\ thread[e][i].target \in Nat
         /\ MessageSound(e, episode[e], i, thread[e][i]) /\ TargetSound(thread[e][i])
         /\ thread[e][i].author # Service =>
              thread[e][i].author \in Seats /\ PhaseOf(thread[e][i].author) \in Phases
<1>1. MessageSound(e, episode[e], i, thread[e][i]) /\ TargetSound(thread[e][i])
  BY DEF StudyInv, MessagesSound
<1>2. /\ i \in Nat /\ i >= 1 /\ i <= Len(thread[e])
      /\ thread[e][i].author \in Seats \cup {Service} /\ thread[e][i].target \in Nat
  BY MessageParts DEF StudyInv
<1> QED BY <1>1, <1>2, SeatParts

\* Whatever a reset successor has read, answered or cited lies after the
\* frozen head: it never reaches its predecessors' messages.
THEOREM ResetForgetsHolds == Spec => []ResetForgets
<1>1. StudyInv => ResetForgets
  <2> SUFFICES ASSUME StudyInv, NEW o \in Seats, obligation[o].state # "None",
                      PhaseOf(o) = "Successor"
               PROVE  LET e == EpisodeOf(o)
                      IN  /\ episode[e].treatment = "Reset" =>
                               \A i \in DOMAIN thread[e] :
                                  \/ ReceiptsOf(o, i) # {}
                                  \/ \E j \in PostsBy(o) : thread[e][j].target = i
                                  \/ obligation[o].decision = i
                                  => i > episode[e].frozen
                          /\ episode[e].treatment = "Retained" /\ Exposed(o) =>
                               obligation[o].from = 1
    BY DEF ResetForgets, Obligations
  <2> DEFINE e == EpisodeOf(o)
             x == episode[e]
             r == obligation[o]
  <2>1. /\ r \in ObligationRows /\ e \in Episodes /\ x \in EpisodeRows
        /\ SeatSound(o, r, x, Len(thread[e]))
    BY SeatFacts
  <2>2. r.from # 0 => r.from = ExposureOf(x)
    BY <2>1 DEF SeatSound
  <2>3. x.treatment = "Retained" /\ Exposed(o) => r.from = 1
    BY <2>2 DEF Exposed, ExposureOf
  <2>4. x.frozen \in Int /\ r.from \in Nat
    BY <2>1, EpisodeParts, ObligationParts
  <2>5. ASSUME x.treatment = "Reset", NEW i \in DOMAIN thread[e],
               \/ ReceiptsOf(o, i) # {}
               \/ \E j \in PostsBy(o) : thread[e][j].target = i
               \/ r.decision = i
        PROVE  i > x.frozen
    <3>1. i \in Nat /\ i >= 1
      BY <2>1, AuthorFacts
    <3>2. r.from # 0 => r.from = x.frozen + 1
      BY <2>2, <2>5 DEF ExposureOf
    <3>3. CASE ReceiptsOf(o, i) # {}
      <4>1. PICK k \in DOMAIN r.reads : i \in r.reads[k].first..r.reads[k].through
        BY <3>3 DEF ReceiptsOf
      <4>2. r.from # 0 /\ r.reads[k].first >= r.from
        BY <2>1 DEF SeatSound
      <4>3. r.reads[k].first \in Nat
        BY <2>1, ObligationParts, ReadParts
      <4>4. i >= r.reads[k].first
        BY <4>1, <4>3
      <4> QED BY <2>4, <3>1, <3>2, <4>2, <4>3, <4>4
    <3>4. CASE \E j \in PostsBy(o) : thread[e][j].target = i
      <4>1. PICK j \in DOMAIN thread[e] : thread[e][j].author = o /\ thread[e][j].target = i
        BY <3>4 DEF PostsBy
      <4>2. TargetSound(thread[e][j]) /\ o # Service
        BY <2>1, AuthorFacts, SeatParts
      <4>3. r.from # 0 /\ i >= r.from
        BY <3>1, <4>1, <4>2 DEF TargetSound
      <4> QED BY <2>4, <3>1, <3>2, <4>3
    <3>5. CASE r.decision = i
      BY <2>1, <2>5, <3>1, <3>5 DEF SeatSound, NoDecision
    <3> QED BY <2>5, <3>3, <3>4, <3>5
  <2> QED BY <2>3, <2>5
<1> QED BY <1>1, StudyHolds, PTL

\* Once a successor exists every source obligation has ended with its child,
\* and the frozen head divides the thread between the populations.
THEOREM PopulationsDoNotOverlapHolds == Spec => []PopulationsDoNotOverlap
<1>1. StudyInv => PopulationsDoNotOverlap
  <2> SUFFICES ASSUME StudyInv, NEW e \in Episodes, NEW s \in Seats,
                      obligation[s].state # "None", EpisodeOf(s) = e, PhaseOf(s) = "Successor"
               PROVE  /\ \A o \in Seats :
                           obligation[o].state # "None" /\ EpisodeOf(o) = e /\ PhaseOf(o) = "Source" =>
                              /\ obligation[o].state \in {"Completed", "Failed"}
                              /\ obligation[o].child # 0 => children[obligation[o].child].state # "Live"
                      /\ \A i \in DOMAIN thread[e] :
                           thread[e][i].author # Service =>
                             (PhaseOf(thread[e][i].author) = "Source" <=> i <= episode[e].frozen)
    BY DEF PopulationsDoNotOverlap, Obligations, PhaseOf
  <2>1. /\ episode[e] \in EpisodeRows /\ EpisodeSound(episode[e], Len(thread[e]))
        /\ SeatSound(s, obligation[s], episode[e], Len(thread[e]))
    BY SeatFacts
  <2>2. episode[e].frozen # NoHead
    BY <2>1 DEF SeatSound, EpisodeSound, Handed
  <2>3. ASSUME NEW o \in Seats, obligation[o].state # "None", EpisodeOf(o) = e, PhaseOf(o) = "Source"
        PROVE  obligation[o].state # "Active"
    BY <2>2, <2>3, SeatFacts DEF SeatSound
  <2>4. episode[e].frozen \in Int
    BY <2>1, EpisodeParts
  <2>5. ASSUME NEW i \in DOMAIN thread[e], thread[e][i].author # Service
        PROVE  PhaseOf(thread[e][i].author) = "Source" <=> i <= episode[e].frozen
    BY <2>2, <2>4, <2>5, AuthorFacts DEF MessageSound, Phases
  <2> QED BY <2>3, <2>5, EndedChild
<1> QED BY <1>1, StudyHolds, PTL

\* An episode has the service's message exactly when it is corrected.
LEMMA CorrectedThread ==
  ASSUME StudyInv, NEW e \in Episodes
  PROVE  LET corrections == {i \in DOMAIN thread[e] : thread[e][i].author = Service}
         IN  /\ episode[e].state \in Corrected => corrections = {episode[e].frozen + 1}
             /\ episode[e].state \notin Corrected => corrections = {}
             /\ episode[e].state \in Corrected => episode[e].frozen \in Nat
<1>1. \A i \in DOMAIN thread[e] : thread[e][i].author = Service =>
        episode[e].state \in Corrected /\ i = episode[e].frozen + 1
  BY AuthorFacts DEF MessageSound
<1>2. ASSUME episode[e].state \in Corrected
      PROVE  /\ episode[e].frozen + 1 \in DOMAIN thread[e]
             /\ thread[e][episode[e].frozen + 1].author = Service
             /\ episode[e].frozen \in Nat
  <2>1. /\ episode[e] \in EpisodeRows /\ Len(thread[e]) \in Nat
        /\ DOMAIN thread[e] = 1..Len(thread[e])
        /\ EpisodeSound(episode[e], Len(thread[e]))
    BY TypedRows DEF StudyInv, EpisodesSound
  <2>2. episode[e].frozen \in Nat /\ episode[e].frozen < Len(thread[e])
    BY <1>2, <2>1, EpisodeParts DEF EpisodeSound, Handed
  <2>3. episode[e].frozen + 1 \in DOMAIN thread[e]
    BY <2>1, <2>2
  <2> QED BY <1>2, <2>2, <2>3 DEF StudyInv, CorrectionsPlaced
<1> QED BY <1>1, <1>2

\* The arms of a pair are corrected together, once, right after the frozen
\* head, and every exposed successor sees the correction.
THEOREM CorrectionIsMatchedHolds == Spec => []CorrectionIsMatched
<1>1. StudyInv => CorrectionIsMatched
  <2> SUFFICES ASSUME StudyInv PROVE CorrectionIsMatched
    OBVIOUS
  <2>1. ASSUME NEW p \in pairs
        PROVE  Cardinality({e \in {p[1], p[2]} :
                   \E i \in DOMAIN thread[e] : thread[e][i].author = Service}) \in {0, 2}
    <3> DEFINE both == {e \in {p[1], p[2]} :
                          \E i \in DOMAIN thread[e] : thread[e][i].author = Service}
    <3>1. /\ p[1] \in Episodes /\ p[2] \in Episodes /\ p[1] # p[2]
          /\ episode[p[1]].state \in Corrected <=> episode[p[2]].state \in Corrected
      BY DEF StudyInv, Typed, PairsSound
    <3>2. \A e \in {p[1], p[2]} :
            (\E i \in DOMAIN thread[e] : thread[e][i].author = Service)
               <=> episode[e].state \in Corrected
      BY <3>1, CorrectedThread
    <3>3. both = {} \/ both = {p[1]} \cup {p[2]}
      BY <3>1, <3>2
    <3>4. Cardinality({p[1]} \cup {p[2]}) = 2
      <4>1. Cardinality({p[1]}) = 1 /\ IsFiniteSet({p[1]})
        BY FS_Singleton
      <4>2. Cardinality({p[1]} \cup {p[2]}) = Cardinality({p[1]}) + 1
        BY <3>1, <4>1, FS_AddElement
      <4> QED BY <4>1, <4>2
    <3> HIDE DEF both
    <3>5. Cardinality(both) \in {0, 2}
      BY <3>3, <3>4, FS_EmptySet
    <3> QED BY <3>5 DEF both
  <2>2. ASSUME NEW e \in Episodes
        PROVE  LET corrections == {i \in DOMAIN thread[e] : thread[e][i].author = Service}
                   after == episode[e].frozen + 1
               IN  /\ episode[e].state \in {"CorrectionReleased", "SuccessorActive", "Closed"} =>
                        /\ corrections = {after}
                        /\ \A o \in Obligations :
                             EpisodeOf(o) = e /\ PhaseOf(o) = "Successor" /\ obligation[o].from # 0 =>
                                after \in obligation[o].from..obligation[o].through
                   /\ episode[e].state \in {"SourceReconciled", "SuccessorAdmitted"} =>
                        corrections = {} /\ Len(thread[e]) = episode[e].frozen
    <3>1. ASSUME episode[e].state \in {"SourceReconciled", "SuccessorAdmitted"}
          PROVE  Len(thread[e]) = episode[e].frozen
      BY <3>1 DEF StudyInv, EpisodesSound, EpisodeSound, Handed, Corrected
    <3>2. ASSUME episode[e].state \in Corrected, NEW o \in Seats,
                 EpisodeOf(o) = e, PhaseOf(o) = "Successor", obligation[o].from # 0
          PROVE  episode[e].frozen + 1 \in obligation[o].from..obligation[o].through
      <4>1. episode[e].frozen \in Nat
        BY <3>2, CorrectedThread
      <4>2. obligation[o].from \in Nat /\ obligation[o].through \in Nat
        BY SeatFacts, ObligationParts
      <4>3. /\ obligation[o].from = ExposureOf(episode[e])
            /\ obligation[o].through > episode[e].frozen
        BY <3>2, SeatFacts DEF SeatSound
      <4>4. obligation[o].from <= episode[e].frozen + 1
        BY <4>1, <4>3 DEF ExposureOf
      <4> QED BY <4>1, <4>2, <4>3, <4>4
    <3> QED BY <3>1, <3>2, CorrectedThread DEF Corrected, Obligations
  <2> QED BY <2>1, <2>2 DEF CorrectionIsMatched
<1> QED BY <1>1, StudyHolds, PTL

-----------------------------------------------------------------------------
(* What an episode that is revealed or closed does no more.                *)

\* One step of the episode e once it is revealed: nothing is said, and nobody
\* reads, is admitted, ends or is charged.
Rests(e) ==
    /\ thread'[e] = thread[e]
    /\ \A o \in Seats : EpisodeOf(o) = e =>
         /\ obligation'[o].state = obligation[o].state
         /\ obligation'[o].reads = obligation[o].reads
         /\ obligation'[o].charged = obligation[o].charged

\* A revealed episode is corrected and has nobody active.
LEMMA RevealedFacts ==
  ASSUME StudyInv, NEW e \in Episodes, episode[e].revealed
  PROVE  /\ episode[e].state \in Corrected
         /\ \A o \in Seats : EpisodeOf(o) = e => obligation[o].state # "Active"
<1>1. episode[e].state \in Corrected
  BY DEF StudyInv, EpisodesSound, EpisodeSound
<1>2. \A o \in Seats : EpisodeOf(o) = e => obligation[o].state # "Active"
  BY SeatFacts DEF SeatSound
<1> QED BY <1>1, <1>2

\* A step that changes the row of one seat, and of it neither the state, the
\* reads nor the charge unless the seat is active.
LEMMA RowRests ==
  ASSUME StudyInv, NEW e \in Episodes, episode[e].revealed, NEW o \in Seats, NEW z,
         obligation' = [obligation EXCEPT ![o] = z], UNCHANGED thread,
         \/ obligation[o].state = "Active"
         \/ EpisodeOf(o) # e
         \/ z.state = obligation[o].state /\ z.reads = obligation[o].reads
            /\ z.charged = obligation[o].charged
  PROVE  Rests(e)
<1>1. obligation \in [Seats -> ObligationRows]
  BY DEF StudyInv, Typed
<1>2. EpisodeOf(o) = e => obligation[o].state # "Active"
  BY RevealedFacts
<1> QED BY <1>1, <1>2 DEF Rests

\* Every step lets a revealed episode rest.
LEMMA RevealedRests ==
  ASSUME StudyInv, NEW e \in Episodes, episode[e].revealed, Next
  PROVE  Rests(e)
<1>1. /\ episode[e].state \in Corrected
      /\ \A o \in Seats : EpisodeOf(o) = e => obligation[o].state # "Active"
  BY RevealedFacts
<1>2. CASE UNCHANGED <<thread, obligation>>
  BY <1>2 DEF Rests
<1>3. ASSUME NEW p \in pairs, ReleaseMatchedCorrection(p) PROVE Rests(e)
  <2>1. e # p[1] /\ e # p[2]
    BY <1>1, <1>3 DEF ReleaseMatchedCorrection, MayRelease, Corrected
  <2>2. thread'[e] = thread[e]
    BY <1>3, <2>1 DEF ReleaseMatchedCorrection
  <2>3. \A o \in Seats : EpisodeOf(o) = e => obligation'[o] = obligation[o]
    BY <1>3, <2>1 DEF ReleaseMatchedCorrection, Advance
  <2> QED BY <2>2, <2>3 DEF Rests
<1>4. CASE StudyNext
  <2>1. UNCHANGED <<thread, obligation>> \/ \E p \in pairs : ReleaseMatchedCorrection(p)
    BY <1>4 DEF StudyNext, AdmitRevision, AdmitPopulationSnapshot, AdmitStudyRun, StartStudyRun,
       CompleteStudyRun, AdmitMatchedPair, RegisterStudyRunPair, AdmitEpisode, AssignTreatment,
       CreateEpisodeForum, OpenForumThread, FreezeForumHead, ReplacePopulation, RevealGroundTruth,
       RecordMeasurementResult, CloseEpisode, ForkEpisode, forumUnchanged
  <2> QED BY <1>2, <1>3, <2>1
<1>5. CASE ChildNext
  <2>1. UNCHANGED <<thread, obligation>>
    BY <1>5 DEF ChildNext, RecordTerminalReceipt, EndChild, forumUnchanged
  <2> QED BY <1>2, <2>1
<1>6. ASSUME NEW o \in Seats, ActorStep(o) PROVE Rests(e)
  <2>1. obligation[o] \in ObligationRows
    BY SeatFacts
  <2>2. CASE AdmitActorObligation(o)
    <3>1. EpisodeOf(o) # e
      BY <1>1, <2>2 DEF AdmitActorObligation, AdmissionAllowed, Corrected
    <3>2. /\ obligation' = [obligation EXCEPT ![o] = [NoObligation EXCEPT !.state = "Active"]]
          /\ UNCHANGED thread
      BY <2>2 DEF AdmitActorObligation, SetObligation
    <3> QED BY <3>1, <3>2, RowRests
  <2>3. CASE \/ \E charge \in 0..UnitBudget : CompleteActorObligation(o, charge)
             \/ FailActorObligation(o)
             \/ \E i, j \in DOMAIN thread[EpisodeOf(o)] : ReadForum(o, i, j)
             \/ AdmitForumExposure(o) \/ ClaimStudyActorTaskAttemptLaunch(o)
             \/ SettleActorTaskAttemptAfterRecovery(o)
             \/ \E c \in DOMAIN children : BindActorTaskAttemptRuntime(o, c)
             \/ \E s \in {"Live", "Lost"} : BindActorRuntime(o, s)
    <3>1. /\ obligation[o].state = "Active" /\ UNCHANGED thread
          /\ \E z : obligation' = [obligation EXCEPT ![o] = z]
      BY <2>3 DEF CompleteActorObligation, FailActorObligation, ReadForum, AdmitForumExposure,
         ClaimStudyActorTaskAttemptLaunch, SettleActorTaskAttemptAfterRecovery,
         BindActorTaskAttemptRuntime, BindActorRuntime, MayBind, Active, SetObligation
    <3> QED BY <3>1, RowRests
  <2>4. CASE SpawnTaskAttempt(o) \/ AllocateStudyActorWork(o)
    BY <1>2, <2>4 DEF SpawnTaskAttempt, AllocateStudyActorWork, forumUnchanged
  <2>5. CASE ReconcileActorRuntime(o)
    <3> DEFINE z == [obligation[o] EXCEPT !.binding = "Reconciled"]
    <3>1. obligation' = [obligation EXCEPT ![o] = z] /\ UNCHANGED thread
      BY <2>5 DEF ReconcileActorRuntime, SetObligation
    <3>2. /\ z.state = obligation[o].state /\ z.reads = obligation[o].reads
          /\ z.charged = obligation[o].charged
      BY <2>1 DEF ObligationRows
    <3> QED BY <3>1, <3>2, RowRests
  <2>6. CASE \E i \in DOMAIN thread[EpisodeOf(o)] \cup {0} : RecordDecision(o, i)
    <3>1. PICK i \in DOMAIN thread[EpisodeOf(o)] \cup {0} : RecordDecision(o, i)
      BY <2>6
    <3> DEFINE z == [obligation[o] EXCEPT !.decision = i]
    <3>2. obligation' = [obligation EXCEPT ![o] = z] /\ UNCHANGED thread
      BY <3>1 DEF RecordDecision, SetObligation
    <3>3. /\ z.state = obligation[o].state /\ z.reads = obligation[o].reads
          /\ z.charged = obligation[o].charged
      BY <2>1 DEF ObligationRows
    <3> QED BY <3>2, <3>3, RowRests
  <2>7. CASE \E i \in DOMAIN thread[EpisodeOf(o)] \cup {0} : PublishForumMessage(o, i)
    <3>1. PICK i \in DOMAIN thread[EpisodeOf(o)] \cup {0} : PublishForumMessage(o, i)
      BY <2>7
    <3>2. EpisodeOf(o) # e
      BY <1>1, <3>1 DEF PublishForumMessage, Active
    <3>3. thread'[e] = thread[e]
      BY <3>1, <3>2 DEF PublishForumMessage, StudyInv, Typed
    <3>4. \A q \in Seats : EpisodeOf(q) = e => obligation'[q] = obligation[q]
      BY <3>1, <3>2 DEF PublishForumMessage, Advance
    <3> QED BY <3>3, <3>4 DEF Rests
  <2>8. CASE \E i \in DOMAIN thread[EpisodeOf(o)] : RetractForumMessage(o, i)
    <3>1. PICK i \in DOMAIN thread[EpisodeOf(o)] : RetractForumMessage(o, i)
      BY <2>8
    <3>2. EpisodeOf(o) # e
      BY <1>1, <3>1 DEF RetractForumMessage, Active
    <3>3. thread'[e] = thread[e] /\ UNCHANGED obligation
      BY <3>1, <3>2 DEF RetractForumMessage, StudyInv, Typed
    <3> QED BY <3>3 DEF Rests
  <2> QED BY <1>6, <2>2, <2>3, <2>4, <2>5, <2>6, <2>7, <2>8 DEF ActorStep
<1>7. CASE ActorNext
  BY <1>6, <1>7, ActorSteps
<1> QED BY <1>4, <1>5, <1>7 DEF Next

\* Once an episode's ground truth is revealed nobody publishes, retracts,
\* reads, is admitted or ends in it any more.
THEOREM RevealEndsActingHolds == Spec => RevealEndsActing
<1> DEFINE Quiet == \A e \in Episodes : episode[e].revealed =>
                      /\ thread'[e] = thread[e]
                      /\ \A o \in Seats : EpisodeOf(o) = e =>
                           /\ obligation'[o].state = obligation[o].state
                           /\ obligation'[o].reads = obligation[o].reads
<1>1. StudyInv /\ [Next]_vars => [Quiet]_vars
  BY RevealedRests DEF Rests
<1> QED BY <1>1, StudyHolds, PTL DEF Spec, RevealEndsActing

\* Only close_episode closes an episode.
LEMMA OnlyCloseCloses ==
  ASSUME StudyInv, NEW e \in Episodes, Next,
         episode[e].state # "Closed", episode'[e].state = "Closed"
  PROVE  CloseEpisode(e)
<1>1. episode \in [Episodes -> EpisodeRows] /\ NoEpisode \in EpisodeRows
  BY DEF StudyInv, Typed, NoEpisode, EpisodeRows, NoHead
<1>2. ASSUME NEW f \in Episodes, NEW y, episode' = [episode EXCEPT ![f] = y],
             y.state # "Closed" \/ y.state = episode[f].state
      PROVE  FALSE
  BY <1>1, <1>2
<1>3. ASSUME UNCHANGED episode PROVE FALSE
  BY <1>3
<1>4. \A f \in Episodes : episode[f] \in EpisodeRows
  BY <1>1
<1>5. CASE StudyNext
  <2>1. CASE \/ \E kind \in {"Protocol", "World", "Measurement", "Institution"} : AdmitRevision(kind)
             \/ AdmitPopulationSnapshot
             \/ AdmitStudyRun \/ StartStudyRun \/ CompleteStudyRun
             \/ \E f, g \in Episodes : AdmitMatchedPair(f, g)
             \/ \E p \in pairs : RegisterStudyRunPair(p)
    <3>1. UNCHANGED episode
      BY <2>1 DEF AdmitRevision, AdmitPopulationSnapshot, AdmitStudyRun, StartStudyRun,
         CompleteStudyRun, AdmitMatchedPair, RegisterStudyRunPair, forumUnchanged
    <3> QED BY <1>3, <3>1
  <2>2. CASE \E p \in pairs : ReleaseMatchedCorrection(p)
    <3>1. PICK p \in pairs : ReleaseMatchedCorrection(p)
      BY <2>2
    <3>2. episode'[e] = episode[e] \/ episode'[e] = [episode[e] EXCEPT !.state = "CorrectionReleased"]
      BY <3>1 DEF ReleaseMatchedCorrection
    <3>3. episode'[e].state \in {episode[e].state, "CorrectionReleased"}
      BY <1>4, <3>2 DEF EpisodeRows
    <3> QED BY <3>3
  <2>3. ASSUME NEW f \in Episodes,
               \/ AdmitEpisode(f) \/ \E t \in Treatments : AssignTreatment(f, t)
               \/ CreateEpisodeForum(f) \/ OpenForumThread(f) \/ FreezeForumHead(f)
        PROVE  FALSE
    <3> DEFINE x == episode[f]
    <3>1. \/ episode' = [episode EXCEPT ![f] = [NoEpisode EXCEPT !.state = "Admitted"]]
          \/ \E t \in Treatments : episode' = [episode EXCEPT ![f] = [x EXCEPT !.treatment = t]]
          \/ \E t \in {"Open", "Threaded"} : episode' = [episode EXCEPT ![f] = [x EXCEPT !.forum = t]]
          \/ episode' = [episode EXCEPT ![f] = [x EXCEPT !.frozen = HeadOf(f)]]
      BY <2>3 DEF AdmitEpisode, AssignTreatment, CreateEpisodeForum, OpenForumThread,
         FreezeForumHead, SetEpisode
    <3>2. x \in EpisodeRows
      BY <1>4
    <3> HIDE DEF x
    <3>3. /\ [NoEpisode EXCEPT !.state = "Admitted"].state = "Admitted"
          /\ \A t : [x EXCEPT !.treatment = t].state = x.state
          /\ \A t : [x EXCEPT !.forum = t].state = x.state
          /\ [x EXCEPT !.frozen = HeadOf(f)].state = x.state
      BY <1>1, <3>2 DEF EpisodeRows
    <3> QED BY <1>2, <3>1, <3>3 DEF x
  <2>4. ASSUME NEW f \in Episodes,
               \/ ReplacePopulation(f) \/ RevealGroundTruth(f)
               \/ \E slot \in Slots : RecordMeasurementResult(f, slot)
               \/ \E g \in Episodes : ForkEpisode(g, f)
        PROVE  FALSE
    <3> DEFINE x == episode[f]
    <3>1. \/ episode' = [episode EXCEPT ![f] =
                           [x EXCEPT !.state = "SourceReconciled", !.replaced = TRUE]]
          \/ episode' = [episode EXCEPT ![f] = [x EXCEPT !.revealed = TRUE]]
          \/ \E m : episode' = [episode EXCEPT ![f] = [x EXCEPT !.measured = m]]
          \/ \E t : episode' = [episode EXCEPT ![f] =
                           [NoEpisode EXCEPT !.state = "Admitted", !.origin = "Fork", !.treatment = t]]
      BY <2>4 DEF ReplacePopulation, RevealGroundTruth, RecordMeasurementResult, ForkEpisode,
         SetEpisode
    <3>2. x \in EpisodeRows
      BY <1>4
    <3> HIDE DEF x
    <3>3. /\ [x EXCEPT !.state = "SourceReconciled", !.replaced = TRUE].state = "SourceReconciled"
          /\ [x EXCEPT !.revealed = TRUE].state = x.state
          /\ \A m : [x EXCEPT !.measured = m].state = x.state
          /\ \A t : [NoEpisode EXCEPT !.state = "Admitted", !.origin = "Fork",
                                      !.treatment = t].state = "Admitted"
      BY <1>1, <3>2 DEF EpisodeRows
    <3> QED BY <1>2, <3>1, <3>3 DEF x
  <2>5. ASSUME NEW f \in Episodes, CloseEpisode(f) PROVE f = e
    BY <1>1, <2>5 DEF CloseEpisode, SetEpisode
  <2> QED BY <1>5, <2>1, <2>2, <2>3, <2>4, <2>5 DEF StudyNext
<1>6. CASE ChildNext
  BY <1>3, <1>6 DEF ChildNext, RecordTerminalReceipt, EndChild, forumUnchanged
<1>7. CASE ActorNext
  <2>1. PICK o \in Seats : ActorStep(o)
    BY <1>7, ActorSteps
  <2> DEFINE x == episode[EpisodeOf(o)]
  <2>2. x \in EpisodeRows /\ EpisodeOf(o) \in Episodes
    BY <1>4, SeatParts
  <2>3. \/ UNCHANGED episode
        \/ \E t \in {"SourceActive", "SuccessorAdmitted", "SuccessorActive", x.state} :
             episode' = [episode EXCEPT ![EpisodeOf(o)] = [x EXCEPT !.state = t]]
    BY <2>1 DEF ActorStep, AdmitActorObligation, CompleteActorObligation, FailActorObligation,
       ClaimStudyActorTaskAttemptLaunch, SpawnTaskAttempt, AllocateStudyActorWork,
       BindActorTaskAttemptRuntime, BindActorRuntime, ReconcileActorRuntime,
       SettleActorTaskAttemptAfterRecovery, AdmitForumExposure, PublishForumMessage,
       RecordDecision, RetractForumMessage, ReadForum, forumUnchanged, SetEpisode
  <2>4. \A t : [x EXCEPT !.state = t].state = t
    BY <2>2 DEF EpisodeRows
  <2>5. ASSUME NEW t \in {"SourceActive", "SuccessorAdmitted", "SuccessorActive", x.state},
               episode' = [episode EXCEPT ![EpisodeOf(o)] = [x EXCEPT !.state = t]]
        PROVE  FALSE
    <3>1. [x EXCEPT !.state = t].state # "Closed" \/ [x EXCEPT !.state = t].state = x.state
      BY <2>4
    <3> QED BY <1>2, <2>2, <2>5, <3>1
  <2> QED BY <1>3, <2>3, <2>5
<1> QED BY <1>5, <1>6, <1>7 DEF Next

\* A closed episode stays within its budget: it was when it closed, and no
\* charge is written to it later.
BudgetKept == \A e \in Episodes : episode[e].state = "Closed" => Charged(e) <= EpisodeBudget

\* No step breaks the budget of a closed episode.
LEMMA BudgetStep ==
  ASSUME StudyInv, BudgetKept, Next
  PROVE  BudgetKept'
<1>1. SUFFICES ASSUME NEW e \in Episodes, episode'[e].state = "Closed"
               PROVE  Charged(e)' <= EpisodeBudget
  BY DEF BudgetKept
<1>2. CASE episode[e].state = "Closed"
  <2>1. episode[e].revealed
    BY <1>2, StudyAssumption DEF StudyInv, EpisodesSound, EpisodeSound
  <2>2. Rests(e)
    BY <2>1, RevealedRests
  <2>3. SeatsOf(e)' = SeatsOf(e)
    BY <2>2 DEF Rests, SeatsOf
  <2>4. [o \in SeatsOf(e) |-> obligation[o].charged]' = [o \in SeatsOf(e) |-> obligation[o].charged]
    <3>1. \A o \in SeatsOf(e) : obligation'[o].charged = obligation[o].charged
      BY <2>2 DEF Rests, SeatsOf
    <3> QED BY <2>3, <3>1
  <2>5. Charged(e)' = Charged(e)
    BY <2>4 DEF Charged
  <2> QED BY <1>2, <2>5 DEF BudgetKept
<1>3. CASE episode[e].state # "Closed"
  <2>1. CloseEpisode(e)
    BY <1>1, <1>3, OnlyCloseCloses
  <2>2. Charged(e) <= EpisodeBudget /\ UNCHANGED obligation
    BY <2>1 DEF CloseEpisode
  <2>3. SeatsOf(e)' = SeatsOf(e)
    BY <2>2 DEF SeatsOf
  <2>4. Charged(e)' = Charged(e)
    BY <2>2, <2>3 DEF Charged
  <2> QED BY <2>2, <2>4
<1> QED BY <1>2, <1>3

\* A closed episode is revealed, fully measured and within its budget, its
\* actors have ended with their children, and a completed run has closed both
\* arms of its pairs.
THEOREM ClosedIsReconciledHolds == Spec => []ClosedIsReconciled
<1>1. Init => BudgetKept
  BY DEF Init, BudgetKept, NoEpisode
<1>2. StudyInv /\ BudgetKept /\ [Next]_vars => BudgetKept'
  <2>1. UNCHANGED vars /\ BudgetKept => BudgetKept'
    BY DEF vars, BudgetKept, Charged, SeatsOf
  <2> QED BY <2>1, BudgetStep
<1>3. StudyInv /\ BudgetKept => ClosedIsReconciled
  <2> SUFFICES ASSUME StudyInv, BudgetKept PROVE ClosedIsReconciled
    OBVIOUS
  <2>1. ASSUME NEW e \in Episodes, episode[e].state = "Closed"
        PROVE  /\ episode[e].revealed /\ episode[e].measured = Slots
               /\ Charged(e) <= EpisodeBudget
               /\ \A o \in Obligations : EpisodeOf(o) = e =>
                    /\ obligation[o].state \in {"Completed", "Failed"}
                    /\ obligation[o].child # 0 => children[obligation[o].child].state # "Live"
    <3>1. episode[e].revealed /\ episode[e].measured = Slots
      BY <2>1, StudyAssumption DEF StudyInv, EpisodesSound, EpisodeSound
    <3>2. Charged(e) <= EpisodeBudget
      BY <2>1 DEF BudgetKept
    <3>3. \A o \in Seats : EpisodeOf(o) = e => obligation[o].state # "Active"
      BY <3>1, RevealedFacts
    <3> QED BY <3>1, <3>2, <3>3, EndedChild DEF Obligations
  <2>2. run.state = "Completed" =>
          \A p \in run.registered : \A k \in {1, 2} : episode[p[k]].state = "Closed"
    BY DEF StudyInv, RunSound, RegisteredPairsClosed
  <2> QED BY <2>1, <2>2 DEF ClosedIsReconciled
<1> QED BY <1>1, <1>2, <1>3, StudyHolds, PTL DEF Spec

=============================================================================
