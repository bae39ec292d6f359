------------------------- MODULE CommandLedgerProofs -------------------------
(***************************************************************************)
(* What CommandLedger checks on a few rows, for any number of rows, aborts *)
(* and restarts.                                                           *)
(*                                                                         *)
(* What the tables contain is TablesAgree, a closed formula over the       *)
(* finite tables that TLC evaluates whole in every run of CommandLedger.   *)
(* From it every scenario, of any kind and any typed bodies, is faithful:  *)
(* its requests and events read back and their fingerprints differ.  Then  *)
(* rows stay readable, receipts go to their own requests, and executing    *)
(* the ledger again rebuilds it.  The mission's theorem needs no table.    *)
(***************************************************************************)
EXTENDS CommandCodecProofs, FiniteSetTheorems

-----------------------------------------------------------------------------
(* Sequences, numbers.                                                     *)

IsSeq(s) == \E S : s \in Seq(S)

\* What appending to a sequence of anything gives.
LEMMA Appended ==
  ASSUME NEW s, IsSeq(s), NEW x
  PROVE  /\ IsSeq(Append(s, x))
         /\ Len(s) \in Nat /\ DOMAIN s = 1..Len(s)
         /\ Len(Append(s, x)) = Len(s) + 1
         /\ DOMAIN Append(s, x) = 1..(Len(s) + 1)
         /\ \A i \in DOMAIN s : Append(s, x)[i] = s[i]
         /\ Append(s, x)[Len(s) + 1] = x
<1>1. PICK S : s \in Seq(S)
  BY DEF IsSeq
<1>2. s \in Seq(S \cup {x})
  <2>1. /\ Len(s) \in Nat /\ DOMAIN s = 1..Len(s)
        /\ s = [i \in 1..Len(s) |-> s[i]] /\ \A i \in 1..Len(s) : s[i] \in S
    BY <1>1
  <2> QED BY <2>1, SeqDef
<1>3. Append(s, x) \in Seq(S \cup {x})
  BY <1>2
<1> QED BY <1>2, <1>3 DEF IsSeq

-----------------------------------------------------------------------------
(* Replay.  A history is the sequence of ledgers that executing the rows   *)
(* again goes through; one that ends in the ledger itself shows that the   *)
(* replay rebuilds it.                                                     *)

\* The ledger before each row, and the ledger itself.
IsHistory(h, l) ==
    /\ h[0] = EmptyLedger
    /\ \A n \in DOMAIN l.commands : h[n] = Execute(h[n - 1], RequestOf(l.commands[n]))
    /\ h[Len(l.commands)] = l

Rebuilds(l) == \E h : IsHistory(h, l)

\* The ledgers rebuilt from the sets of rows of a family D.
ReplaysOver(g, l, D) ==
    g = [s \in D |-> IF s = {} THEN EmptyLedger
                     ELSE Execute(g[s \ {Max(s)}], RequestOf(l.commands[Max(s)]))]

\* The replay is the last of the ledgers rebuilt from the sets of rows.
LEMMA ReplayIsChosen ==
  ASSUME NEW l
  PROVE  Replay(l) = (CHOOSE g : ReplaysOver(g, l, SUBSET DOMAIN l.commands))[DOMAIN l.commands]
BY DEF Replay, FoldLeft, MapThenFoldSet, ReplaysOver

\* The largest of some first numbers, and what is left without it.
LEMMA LargestIsLast ==
  ASSUME NEW n \in Nat, NEW s \in SUBSET (1..n), s # {}
  PROVE  /\ Max(s) \in s /\ n - 1 \in Nat
         /\ s \ {Max(s)} \in SUBSET (1..(n - 1))
<1> DEFINE Distances == {n - x : x \in s}
<1>0. \A x \in s : x \in Nat /\ 1 <= x /\ x <= n /\ n - x \in Nat
  OBVIOUS
<1>1. Distances \in SUBSET Nat /\ Distances # {}
  <2>1. \A t \in Distances : t \in Nat
    BY <1>0
  <2>2. PICK x \in s : TRUE
    OBVIOUS
  <2>3. n - x \in Distances
    OBVIOUS
  <2> QED BY <2>1, <2>3
<1>2. PICK m \in Distances : \A k \in Distances : m <= k
  BY <1>1, LeastNatural
<1>3. PICK x \in s : m = n - x
  OBVIOUS
<1>4. \A y \in s : x >= y
  <2> TAKE y \in s
  <2>1. n - y \in Distances
    OBVIOUS
  <2>2. n - x <= n - y
    BY <1>2, <1>3, <2>1
  <2> QED BY <1>0, <2>2
<1>5. Max(s) \in s /\ \A y \in s : Max(s) >= y
  BY <1>4 DEF Max
<1> HIDE DEF Distances
<1>6. ASSUME NEW y \in s \ {Max(s)} PROVE y \in 1..(n - 1)
  <2>1. Max(s) \in Nat /\ Max(s) <= n /\ Max(s) >= y /\ Max(s) # y
    BY <1>0, <1>5
  <2>2. y \in Nat /\ 1 <= y
    BY <1>0
  <2> QED BY <2>1, <2>2
<1>7. n - 1 \in Nat
  BY <1>0
<1> QED BY <1>5, <1>6, <1>7

\* The ledgers rebuilt from the sets of the first rows exist.
LEMMA ReplaysExist ==
  ASSUME NEW l, NEW len \in Nat
  PROVE  \E g : ReplaysOver(g, l, SUBSET (1..len))
<1> DEFINE D(n) == SUBSET (1..n)
           Failing == {n \in Nat : ~\E g : ReplaysOver(g, l, D(n))}
<1>1. Failing = {}
  <2>1. SUFFICES ASSUME Failing # {} PROVE FALSE
    OBVIOUS
  <2>2. PICK n \in Failing : \A m \in Failing : n <= m
    BY <2>1, LeastNatural
  <2>3. n \in Nat /\ ~\E g : ReplaysOver(g, l, D(n))
    OBVIOUS
  <2>4. CASE n = 0
    <3>1. \A s \in D(0) : s = {}
      OBVIOUS
    <3>2. ReplaysOver([s \in D(0) |-> EmptyLedger], l, D(0))
      BY <3>1 DEF ReplaysOver
    <3> QED BY <2>3, <2>4, <3>2
  <2>5. CASE n # 0
    <3>1. n - 1 \in Nat /\ ~(n <= n - 1)
      BY <2>3, <2>5
    <3>2. PICK g : ReplaysOver(g, l, D(n - 1))
      BY <2>2, <3>1
    <3> DEFINE before(s) == s \ {Max(s)}
               step(f, s) == IF s = {} THEN EmptyLedger
                             ELSE Execute(f[before(s)], RequestOf(l.commands[Max(s)]))
               h == [s \in D(n) |-> step(g, s)]
    <3>3. ASSUME NEW s \in D(n), s # {} PROVE h[before(s)] = g[before(s)]
      <4>1. before(s) \in D(n - 1)
        BY <2>3, <3>3, LargestIsLast
      <4>2. before(s) \in D(n)
        BY <2>3, <4>1
      <4>3. g[before(s)] = step(g, before(s))
        BY <3>2, <4>1 DEF ReplaysOver
      <4> QED BY <4>2, <4>3
    <3>4. h = [s \in D(n) |-> step(h, s)]
      <4>1. \A s \in D(n) : step(g, s) = step(h, s)
        BY <3>3
      <4> HIDE DEF step
      <4> QED BY <4>1
    <3> HIDE DEF h
    <3>5. ReplaysOver(h, l, D(n))
      BY <3>4 DEF ReplaysOver
    <3> QED BY <2>3, <3>5
  <2> QED BY <2>4, <2>5
<1> HIDE DEF D
<1>2. \E g : ReplaysOver(g, l, D(len))
  BY <1>1
<1> QED BY <1>2 DEF D

\* A ledger with a history is what its replay rebuilds.
LEMMA ReplayFollowsHistory ==
  ASSUME NEW l, IsSeq(l.commands), Rebuilds(l)
  PROVE  Replay(l) = l
<1>1. PICK h : IsHistory(h, l)
  BY DEF Rebuilds
<1> DEFINE len == Len(l.commands)
           G == CHOOSE g : ReplaysOver(g, l, SUBSET (1..len))
           Failing == {n \in 0..len : G[1..n] # h[n]}
<1>2. len \in Nat /\ DOMAIN l.commands = 1..len
  BY Appended
<1>3. ReplaysOver(G, l, SUBSET (1..len))
  BY <1>2, ReplaysExist
<1>4. Replay(l) = G[1..len]
  BY <1>2, ReplayIsChosen
<1> HIDE DEF G, len
<1>5. Failing = {}
  <2>1. SUFFICES ASSUME Failing # {} PROVE FALSE
    OBVIOUS
  <2>2. PICK n \in Failing : \A m \in Failing : n <= m
    <3>1. Failing \in SUBSET Nat
      BY <1>2
    <3> QED BY <2>1, <3>1, LeastNatural
  <2>3. n \in 0..len /\ n \in Nat /\ G[1..n] # h[n] /\ 1..n \in SUBSET (1..len)
    BY <1>2
  <2>4. G[1..n] = IF 1..n = {} THEN EmptyLedger
                  ELSE Execute(G[(1..n) \ {Max(1..n)}], RequestOf(l.commands[Max(1..n)]))
    BY <1>3, <2>3 DEF ReplaysOver
  <2>5. n # 0
    BY <1>1, <2>3, <2>4 DEF IsHistory
  <2>6. Max(1..n) = n /\ (1..n) \ {n} = 1..(n - 1) /\ 1..n # {}
    <3>1. n \in 1..n
      BY <2>3, <2>5
    <3>2. Max(1..n) \in 1..n /\ (1..n) \ {Max(1..n)} \in SUBSET (1..(n - 1))
      BY <2>3, <3>1, LargestIsLast
    <3>3. ~(n \in 1..(n - 1))
      BY <2>3
    <3>4. Max(1..n) = n
      BY <3>1, <3>2, <3>3
    <3>5. (1..n) \ {n} = 1..(n - 1)
      BY <2>3, <2>5
    <3> QED BY <3>1, <3>4, <3>5
  <2>7. G[1..(n - 1)] = h[n - 1]
    <3>1. n - 1 \in 0..len /\ ~(n <= n - 1)
      BY <1>2, <2>3, <2>5
    <3>2. n - 1 \notin Failing
      BY <2>2, <3>1
    <3> QED BY <3>1, <3>2
  <2>8. h[n] = Execute(h[n - 1], RequestOf(l.commands[n]))
    <3>1. n \in DOMAIN l.commands
      BY <1>2, <2>3, <2>5
    <3> QED BY <1>1, <3>1 DEF IsHistory
  <2> QED BY <2>3, <2>4, <2>6, <2>7, <2>8
<1>6. G[1..len] = h[len]
  <2>1. len \in 0..len
    BY <1>2
  <2> QED BY <1>5, <2>1
<1>7. h[len] = l
  BY <1>1 DEF IsHistory, len
<1> QED BY <1>4, <1>6, <1>7

-----------------------------------------------------------------------------
(* Execution.                                                              *)

Columns == {"commands", "events", "material", "spent", "nextRow", "nextSubject"}

HasColumns(l) == l = [f \in Columns |-> l[f]]

IsLedger(l) ==
    /\ HasColumns(l)
    /\ IsSeq(l.commands) /\ IsSeq(l.events)
    /\ l.nextRow \in Nat /\ l.nextSubject \in Nat

\* What the execution of a request writes.
Wrote(l, request, next) ==
    LET verdict == Verdict(l, request)
    IN  /\ next.commands = Append(l.commands, CommandRow(l, request, verdict))
        /\ next.nextRow = l.nextRow + 1
        /\ next.nextSubject \in {l.nextSubject, l.nextSubject + 1}
        /\ IF verdict = "Accepted"
           THEN /\ next.events = Append(l.events, EventRow(l, request))
                /\ next.material = l.material \cup
                     {[kind |-> request.kind, body |-> request.body,
                       subject |-> l.nextSubject, row |-> l.nextRow]}
           ELSE next.events = l.events /\ next.material = l.material

\* The two writes of three columns each; they leave the others alone.
WriteRow(l, rows, row, subject) ==
    [l EXCEPT !.commands = rows, !.nextRow = row, !.nextSubject = subject]

WriteEvent(l, events, material, spent) ==
    [l EXCEPT !.events = events, !.material = material, !.spent = spent]

LEMMA RowWritten ==
  ASSUME NEW l, HasColumns(l), NEW x, NEW y, NEW z
  PROVE  LET k == WriteRow(l, x, y, z)
         IN  /\ HasColumns(k)
             /\ k.commands = x /\ k.nextRow = y /\ k.nextSubject = z
             /\ k.events = l.events /\ k.material = l.material /\ k.spent = l.spent
BY DEF Columns, HasColumns, WriteRow

LEMMA EventWritten ==
  ASSUME NEW l, HasColumns(l), NEW x, NEW y, NEW z
  PROVE  LET k == WriteEvent(l, x, y, z)
         IN  /\ HasColumns(k)
             /\ k.events = x /\ k.material = y /\ k.spent = z
             /\ k.commands = l.commands /\ k.nextRow = l.nextRow
             /\ k.nextSubject = l.nextSubject
BY DEF Columns, HasColumns, WriteEvent

\* A known identity changes nothing, a new one is written down.
LEMMA Executed ==
  ASSUME NEW l, IsLedger(l), NEW request
  PROVE  /\ IsLedger(Execute(l, request))
         /\ Known(l, request.id) => Execute(l, request) = l
         /\ ~Known(l, request.id) => Wrote(l, request, Execute(l, request))
<1> DEFINE v == Verdict(l, request)
           row == CommandRow(l, request, v)
           event == EventRow(l, request)
           subject == IF v \in {"Accepted", "UniqueConstraint"} THEN l.nextSubject + 1
                      ELSE l.nextSubject
           made == [kind |-> request.kind, body |-> request.body,
                    subject |-> l.nextSubject, row |-> l.nextRow]
           used == IF request.principal = Bootstrap /\ RequiresConsumption(request.capability)
                   THEN {request.capability} ELSE {}
           rows == Append(l.commands, row)
           next == l.nextRow + 1
           written == WriteRow(l, rows, next, subject)
           events == Append(l.events, event)
           material == l.material \cup {made}
           spent == l.spent \cup used
           accepted == WriteEvent(written, events, material, spent)
<1>0. HasColumns(l)
  BY DEF IsLedger
<1> HIDE DEF v, row, event, subject, made, used, rows, next, events, material, spent
<1>w. /\ HasColumns(written)
      /\ written.commands = rows /\ written.nextRow = next /\ written.nextSubject = subject
      /\ written.events = l.events /\ written.material = l.material /\ written.spent = l.spent
  BY <1>0, RowWritten
<1>1. Execute(l, request) = IF Known(l, request.id) THEN l
                            ELSE IF v = "Accepted" THEN accepted ELSE written
  <2> HIDE DEF written
  <2>1. Execute(l, request) =
          IF Known(l, request.id) THEN l
          ELSE IF v = "Accepted"
               THEN [written EXCEPT !.events = Append(@, event),
                        !.material = @ \cup {made}, !.spent = @ \cup used]
               ELSE written
    BY DEF Execute, v, row, event, made, used, written, subject, rows, next, WriteRow
  <2> QED BY <1>w, <2>1 DEF WriteEvent, events, material, spent
<1> HIDE DEF written
<1>a. /\ HasColumns(accepted)
      /\ accepted.commands = rows /\ accepted.nextRow = next /\ accepted.nextSubject = subject
      /\ accepted.events = events /\ accepted.material = material
  BY <1>w, EventWritten
<1> HIDE DEF accepted
<1>2. IsSeq(rows) /\ IsSeq(events)
  BY Appended DEF IsLedger, rows, events
<1>3. subject \in {l.nextSubject, l.nextSubject + 1} /\ next \in Nat /\ subject \in Nat
  BY DEF IsLedger, subject, next
<1>4. IsLedger(accepted) /\ IsLedger(written)
  BY <1>2, <1>3, <1>a, <1>w DEF IsLedger
<1>5. v = "Accepted" => Wrote(l, request, accepted)
  BY <1>3, <1>a DEF Wrote, v, row, event, made, rows, next, events, material
<1>6. v # "Accepted" => Wrote(l, request, written)
  BY <1>3, <1>w DEF Wrote, v, row, rows, next
<1> QED BY <1>1, <1>4, <1>5, <1>6

\* What a request leads to depends on the scenario and on nothing else that
\* changes.
LEMMA ExecutionIsRepeatable ==
  ASSUME UNCHANGED scenario, NEW l, NEW request
  PROVE  Execute(l, request)' = Execute(l, request)
BY DEF Execute, Verdict, EnvelopeVerdict, QualificationFences, EventRow, EventFor

\* A history stays one while the scenario does.
LEMMA HistoryIsRepeatable ==
  ASSUME UNCHANGED scenario, NEW h, NEW l, l = ledger', IsHistory(h, l)
  PROVE  IsHistory(h, ledger)'
<1>1. \A a, b : Execute(a, b)' = Execute(a, b)
  BY ExecutionIsRepeatable
<1>2. (\A n \in DOMAIN ledger.commands :
           h[n] = Execute(h[n - 1], RequestOf(ledger.commands[n])))'
  BY <1>1 DEF IsHistory
<1> QED BY <1>2 DEF IsHistory

\* Executing one more request makes a history one ledger longer.
LEMMA HistoryGrows ==
  ASSUME NEW l, IsLedger(l), Rebuilds(l), NEW request, ~Known(l, request.id),
         RequestOf(CommandRow(l, request, Verdict(l, request))) = request
  PROVE  Rebuilds(Execute(l, request))
<1>1. PICK h : IsHistory(h, l)
  BY DEF Rebuilds
<1> DEFINE k == Execute(l, request)
           len == Len(l.commands)
           row == CommandRow(l, request, Verdict(l, request))
           g == [n \in 0..(len + 1) |-> IF n = len + 1 THEN k ELSE h[n]]
<1>2. k.commands = Append(l.commands, row)
  BY Executed DEF Wrote
<1>3. /\ len \in Nat /\ DOMAIN l.commands = 1..len
      /\ Len(k.commands) = len + 1 /\ DOMAIN k.commands = 1..(len + 1)
      /\ \A i \in 1..len : k.commands[i] = l.commands[i]
      /\ k.commands[len + 1] = row
  BY <1>2, Appended DEF IsLedger
<1> HIDE DEF k, row, len
<1>4. g[0] = EmptyLedger
  BY <1>1, <1>3 DEF IsHistory
<1>5. ASSUME NEW n \in 1..(len + 1)
      PROVE  g[n] = Execute(g[n - 1], RequestOf(k.commands[n]))
  <2>1. n \in Nat /\ n # 0 /\ n <= len + 1 /\ n - 1 \in 0..(len + 1) /\ n - 1 # len + 1
    BY <1>3
  <2>2. g[n - 1] = h[n - 1]
    BY <2>1
  <2>3. CASE n = len + 1
    <3>1. g[n] = k /\ h[n - 1] = l
      BY <1>1, <1>3, <2>1, <2>3 DEF IsHistory, len
    <3>2. RequestOf(k.commands[n]) = request
      BY <1>3, <2>3 DEF row
    <3> QED BY <2>2, <3>1, <3>2 DEF k
  <2>4. CASE n # len + 1
    <3>1. n \in 1..len /\ n \in 0..(len + 1)
      BY <1>3, <2>1, <2>4
    <3>2. g[n] = h[n] /\ k.commands[n] = l.commands[n]
      BY <1>3, <2>4, <3>1
    <3>3. h[n] = Execute(h[n - 1], RequestOf(l.commands[n]))
      BY <1>1, <1>3, <3>1 DEF IsHistory
    <3> QED BY <2>2, <3>2, <3>3
  <2> QED BY <2>3, <2>4
<1>6. g[Len(k.commands)] = k
  BY <1>3
<1> HIDE DEF g
<1>7. IsHistory(g, k)
  BY <1>3, <1>4, <1>5, <1>6 DEF IsHistory
<1> QED BY <1>7 DEF Rebuilds, k

-----------------------------------------------------------------------------
(* Requests.                                                               *)

\* Every request of a scenario is of its kind.
LEMMA RequestKind ==
  ASSUME NEW r \in Requests
  PROVE  r.kind = scenario.kind
<1> DEFINE owner == CHOOSE p \in Owners(scenario.kind) : TRUE
           first == Proper(<<1>>, owner, scenario.kind, scenario.bodies[1])
<1>1. \A id, p, b : Proper(id, p, scenario.kind, b).kind = scenario.kind
  BY DEF Proper, Request
<1>2. /\ [first EXCEPT !.capability = "OpenOfficeTurn"].kind = scenario.kind
      /\ [first EXCEPT !.generation = CurrentGeneration + 1].kind = scenario.kind
      /\ [first EXCEPT !.generation = NotApplicable].kind = scenario.kind
      /\ [first EXCEPT !.grant = 2].kind = scenario.kind
  BY DEF Proper, Request
<1>3. \/ \E id \in CommandIds, p \in Owners(scenario.kind), b \in 1..2 :
              r = Proper(id, p, scenario.kind, scenario.bodies[b])
      \/ r \in {[first EXCEPT !.capability = "OpenOfficeTurn"],
                [first EXCEPT !.generation = CurrentGeneration + 1],
                [first EXCEPT !.generation = NotApplicable],
                [first EXCEPT !.grant = 2]}
      \/ \E p \in Bootstrap..Actor : r = [first EXCEPT !.principal = p]
  BY DEF Requests
<1> HIDE DEF first
<1>4. CASE \E p \in Bootstrap..Actor : r = [first EXCEPT !.principal = p]
  <2>1. PICK p : r = [first EXCEPT !.principal = p]
    BY <1>4
  <2> QED BY <2>1 DEF first, Proper, Request
<1>5. CASE r \in {[first EXCEPT !.capability = "OpenOfficeTurn"],
                  [first EXCEPT !.generation = CurrentGeneration + 1],
                  [first EXCEPT !.generation = NotApplicable],
                  [first EXCEPT !.grant = 2]}
  BY <1>2, <1>5
<1>6. CASE \E id \in CommandIds, p \in Owners(scenario.kind), b \in 1..2 :
              r = Proper(id, p, scenario.kind, scenario.bodies[b])
  BY <1>1, <1>6
<1> QED BY <1>3, <1>4, <1>5, <1>6

\* A request that reads back once does so from any row.
LEMMA ReadsBackAlways ==
  ASSUME NEW r, ReadsBack(r), NEW l, NEW v
  PROVE  /\ RequestOf(CommandRow(l, r, v)) = r
         /\ EventsOf(r.kind) # {} => EventOf(EventRow(l, r)) = EventRow(l, r).origin
<1>1. RequestOf(CommandRow(l, r, v)) = RequestOf(CommandRow(EmptyLedger, r, "Accepted"))
  BY DEF RequestOf, CommandRow
<1> DEFINE e == EventFor(r)
<1>2. \A k : /\ EventRow(k, r).kind = EventCode(OuterEvent(e.kind))
             /\ EventRow(k, r).stored = InsertEventBody(e.kind, e.body)
             /\ EventRow(k, r).id = Len(k.events) + 1
             /\ EventRow(k, r).command = r.id
             /\ EventRow(k, r).origin = [id |-> Len(k.events) + 1, command |-> r.id,
                                        kind |-> e.kind, body |-> e.body]
  BY DEF EventRow
<1> DEFINE decoded == DecodeEventBody(EventCode(OuterEvent(e.kind)), InsertEventBody(e.kind, e.body))
<1>3. \A k : EventOf(EventRow(k, r)) =
               [id |-> Len(k.events) + 1, command |-> r.id,
                kind |-> decoded.kind, body |-> decoded.body]
  BY <1>2 DEF EventOf
<1> HIDE DEF e, decoded
<1>4. ASSUME EventsOf(r.kind) # {} PROVE decoded.kind = e.kind /\ decoded.body = e.body
  <2>1. EventOf(EventRow(EmptyLedger, r)) = EventRow(EmptyLedger, r).origin
    BY <1>4 DEF ReadsBack
  <2>2. [id |-> Len(EmptyLedger.events) + 1, command |-> r.id,
         kind |-> decoded.kind, body |-> decoded.body] =
        [id |-> Len(EmptyLedger.events) + 1, command |-> r.id, kind |-> e.kind, body |-> e.body]
    BY <1>2, <1>3, <2>1
  <2> QED BY <2>2
<1> QED BY <1>1, <1>2, <1>3, <1>4 DEF ReadsBack

\* A number, alone in its row, reads back whatever it is.
LEMMA NumberReadsBack ==
  ASSUME NEW n
  PROVE  FromRow(<<N>>, <<1>>, ToRow(<<N>>, <<1>>, <<<<n>>>>)) = <<<<n>>>>
<1>1. N \notin DOMAIN SumColumns
  BY DEF N, SumColumns
<1>2. Range(<<1>>) = {1}
  BY DEF Range
<1>3. \A f \in DOMAIN <<1>> : <<1>>[f] = 1 => f = 1
  OBVIOUS
<1>4. (CHOOSE f \in DOMAIN <<1>> : <<1>>[f] = 1) = 1
  BY <1>3
<1> DEFINE row == ToRow(<<N>>, <<1>>, <<<<n>>>>)
<1>5. DOMAIN row = {1} /\ row[1] = ToColumns(N, <<n>>)
  BY <1>2, <1>4 DEF ToRow
<1>6. row[1] = <<<<n>>>>
  BY <1>1, <1>5 DEF ToColumns
<1> HIDE DEF row
<1>7. FromColumns(N, <<<<n>>>>) = <<n>>
  <2>1. <<n>> # NULL
    BY DEF NULL
  <2>2. FromColumns(N, <<<<n>>>>) = IF <<<<n>>>>[1] = NULL THEN Corrupt ELSE <<<<n>>>>[1]
    BY <1>1 DEF FromColumns, N, T, O
  <2> QED BY <2>1, <2>2
<1>8. FromRow(<<N>>, <<1>>, row) = [f \in 1..1 |-> <<n>>]
  BY <1>5, <1>6, <1>7 DEF FromRow
<1> QED BY <1>8 DEF row

\* The kernel's own command for the object of a mission's source.
ObjectRequest(digest, n) ==
    Proper(<<4>> \o digest, Kernel, "RegisterContentObject", <<<<n>>>>)

\* It reads back whatever receipt it names.
LEMMA ObjectReadsBack ==
  ASSUME NEW digest, scenario.kind = "InstallFoundingMission", NEW n,
         ReadsBack(ObjectRequest(digest, 1)),
         Layout("RegisterContentObject") = <<N>>,
         CommandInserts["RegisterContentObject"] = << 1 >>,
         CommandReads["RegisterContentObject"] = << 1 >>,
         ~IsStudy("RegisterContentObject")
  PROVE  ReadsBack(ObjectRequest(digest, n))
<1> DEFINE k == "RegisterContentObject"
           q(m) == ObjectRequest(digest, m)
           row(m) == CommandRow(EmptyLedger, q(m), "Accepted")
           capability == RequiredCapability(Outer(k))
           generation == IF CarriesGeneration(Outer(k)) THEN CurrentGeneration ELSE NotApplicable
<1>1. \A m : q(m) = [id |-> <<4>> \o digest, principal |-> Kernel, grant |-> 1,
                    capability |-> capability, generation |-> generation,
                    kind |-> k, body |-> <<<<m>>>>]
  BY DEF ObjectRequest, Proper, Request
<1> DEFINE stored(m) == [study |-> 0, columns |-> ToRow(<<N>>, <<1>>, <<<<m>>>>)]
           code == CommandCode(Outer(k))
           decoded(m) == DecodeCommandBody(code, stored(m))
           made(m) == [id |-> <<4>> \o digest, principal |-> Kernel, grant |-> 1,
                       capability |-> StoredCapabilities[CapabilityCode(capability)],
                       generation |-> generation, kind |-> decoded(m).kind, body |-> decoded(m).body]
<1> HIDE DEF capability, generation, code
<1>2. \A m : InsertCommandBody(k, <<<<m>>>>) = stored(m)
  BY DEF InsertCommandBody, Inserts
<1>3. ASSUME NEW m PROVE RequestOf(row(m)) = made(m)
  <2>1. /\ row(m).id = <<4>> \o digest /\ row(m).principal = Kernel /\ row(m).grant = 1
        /\ row(m).capability = CapabilityCode(capability) /\ row(m).generation = generation
        /\ row(m).kind = code /\ row(m).stored = stored(m)
    BY <1>1, <1>2 DEF CommandRow, code
  <2> HIDE DEF row, stored
  <2> QED BY <2>1 DEF RequestOf, Request
<1>4. made(1) = q(1)
  BY <1>3 DEF ReadsBack
<1> HIDE DEF q, row
<1>5. StoredCapabilities[CapabilityCode(capability)] = capability /\ decoded(1).kind = k
  <2> HIDE DEF decoded
  <2> QED BY <1>1, <1>4
<1> DEFINE outer == StoredCommandKinds[code]
           kind == IF outer = "StudyTransition" THEN StoredStudyCommandKinds[0] ELSE outer
           body(m) == FromRow(Layout(kind), IF IsStudy(kind) THEN StudyCommandReads[kind]
                                            ELSE CommandReads[kind],
                              ToRow(<<N>>, <<1>>, <<<<m>>>>))
<1>6. \A m : decoded(m) = [kind |-> kind, body |-> body(m)]
  BY DEF DecodeCommandBody, Reads
<1>7. kind = k
  <2> HIDE DEF decoded, kind, body
  <2> QED BY <1>5, <1>6
<1>8. body(n) = <<<<n>>>>
  <2> HIDE DEF kind
  <2> QED BY <1>7, NumberReadsBack
<1>9. RequestOf(row(n)) = q(n)
  <2> HIDE DEF kind, body, decoded
  <2>1. decoded(n).kind = k /\ decoded(n).body = <<<<n>>>>
    BY <1>6, <1>7, <1>8
  <2> QED BY <1>1, <1>3, <1>5, <2>1
<1>10. EventRow(EmptyLedger, q(n)) = EventRow(EmptyLedger, q(1)) /\ q(n).kind = q(1).kind
  <2>1. /\ q(n).kind = k /\ q(1).kind = k /\ q(n).id = q(1).id
    BY <1>1
  <2>2. EventFor(q(n)) = EventFor(q(1))
    BY <2>1 DEF EventFor
  <2> QED BY <2>1, <2>2 DEF EventRow
<1> QED BY <1>9, <1>10 DEF ReadsBack, q, row

-----------------------------------------------------------------------------
(* Scenarios of any bodies.                                                *)

\* A scenario of any kind, any two bodies of it and any two bodies of its event.
IsScenario(s) ==
    /\ s.kind \in Kinds
    /\ \A b \in 1..2 : IsBody(Layout(s.kind), s.bodies[b])
    /\ EventsOf(s.kind) # {} =>
          /\ s.event \in EventsOf(s.kind)
          /\ \A b \in 1..2 : IsBody(LayoutOfEvent(s.event), s.outcomes[b])

\* A request reads back when its body and the body of its event are typed.
LEMMA TypedReadsBack ==
  ASSUME NEW r, IsRequest(r),
         EventsOf(r.kind) # {} => /\ EventFor(r).kind \in Events
                                  /\ IsBody(LayoutOfEvent(EventFor(r).kind), EventFor(r).body)
  PROVE  ReadsBack(r)
<1>1. RequestOf(CommandRow(EmptyLedger, r, "Accepted")) = r
  <2> DEFINE row == CommandRow(EmptyLedger, r, "Accepted")
             decoded == DecodeCommandBody(row.kind, row.stored)
  <2>1. /\ row.id = r.id /\ row.principal = r.principal /\ row.grant = r.grant
        /\ row.capability = CapabilityCode(r.capability) /\ row.generation = r.generation
        /\ row.kind = CommandCode(Outer(r.kind))
        /\ row.stored = InsertCommandBody(r.kind, r.body)
    BY DEF CommandRow
  <2>2. decoded = [kind |-> r.kind, body |-> r.body]
    <3>1. r.kind \in Kinds /\ IsBody(Layout(r.kind), r.body)
      BY DEF IsRequest
    <3> HIDE DEF row
    <3> QED BY <2>1, <3>1, CommandBodyReadsBack
  <2>3. StoredCapabilities[row.capability] = r.capability
    BY <2>1, CapabilityCodes DEF IsRequest
  <2>4. RequestOf(row) = Request(row.id, row.principal, row.grant, StoredCapabilities[row.capability],
                                row.generation, decoded.kind, decoded.body)
    BY DEF RequestOf
  <2> HIDE DEF row, decoded
  <2>5. decoded.kind = r.kind /\ decoded.body = r.body
    BY <2>2
  <2>6. RequestOf(row) = Request(r.id, r.principal, r.grant, r.capability, r.generation,
                                r.kind, r.body)
    BY <2>1, <2>3, <2>4, <2>5
  <2> QED BY <2>6 DEF row, IsRequest
<1>2. ASSUME EventsOf(r.kind) # {}
      PROVE  EventOf(EventRow(EmptyLedger, r)) = EventRow(EmptyLedger, r).origin
  <2> DEFINE made == EventFor(r)
             row == EventRow(EmptyLedger, r)
             decoded == DecodeEventBody(row.kind, row.stored)
             id == Len(EmptyLedger.events) + 1
  <2>1. /\ row.id = id /\ row.command = r.id
        /\ row.kind = EventCode(OuterEvent(made.kind))
        /\ row.stored = InsertEventBody(made.kind, made.body)
        /\ row.origin = [id |-> id, command |-> r.id, kind |-> made.kind, body |-> made.body]
    BY DEF EventRow
  <2> HIDE DEF row, id
  <2>2. decoded = [kind |-> made.kind, body |-> made.body]
    <3>1. made.kind \in Events /\ IsBody(LayoutOfEvent(made.kind), made.body)
      BY <1>2
    <3> HIDE DEF made
    <3> QED BY <2>1, <3>1, EventBodyReadsBack
  <2>3. EventOf(row) = [id |-> row.id, command |-> row.command,
                        kind |-> decoded.kind, body |-> decoded.body]
    BY DEF EventOf
  <2> HIDE DEF made, decoded
  <2>4. EventOf(row) = row.origin
    BY <2>1, <2>2, <2>3
  <2> QED BY <2>4 DEF row
<1> QED BY <1>1, <1>2 DEF ReadsBack

\* The generation every command is asked with.
ProperGeneration(kind) ==
    IF CarriesGeneration(Outer(kind)) THEN CurrentGeneration ELSE NotApplicable

\* A properly asked command is a request.
LEMMA ProperIsRequest ==
  ASSUME NEW id, WellTyped(T, id), NEW p \in Int, NEW kind \in Kinds,
         NEW body, IsBody(Layout(kind), body)
  PROVE  /\ IsRequest(Proper(id, p, kind, body))
         /\ Proper(id, p, kind, body) =
               [id |-> id, principal |-> p, grant |-> 1,
                capability |-> RequiredCapability(Outer(kind)),
                generation |-> ProperGeneration(kind), kind |-> kind, body |-> body]
<1> DEFINE capability == RequiredCapability(Outer(kind))
           generation == ProperGeneration(kind)
           r == Proper(id, p, kind, body)
<1>1. capability \in Range(Capabilities)
  BY TablesAgree DEF TablesInStep, CommandInStep
<1>2. generation \in Int
  BY DEF ProperGeneration, CurrentGeneration, NotApplicable
<1>3. r = [id |-> id, principal |-> p, grant |-> 1, capability |-> capability,
           generation |-> generation, kind |-> kind, body |-> body]
  BY DEF Proper, Request, ProperGeneration
<1> HIDE DEF capability, generation, r
<1>4. /\ r.id = id /\ r.principal = p /\ r.grant = 1 /\ r.capability = capability
      /\ r.generation = generation /\ r.kind = kind /\ r.body = body
  BY <1>3
<1>5. r = Request(r.id, r.principal, r.grant, r.capability, r.generation, r.kind, r.body)
  BY <1>3, <1>4 DEF Request
<1>6. IsRequest(r)
  BY <1>1, <1>2, <1>4, <1>5 DEF IsRequest
<1> QED BY <1>3, <1>6 DEF r, capability, generation

\* The identities of the scenario are texts.
LEMMA IdsAreTexts == \A id \in CommandIds : WellTyped(T, id) /\ id[1] = 1
<1>1. << 1 >> \in Seq(Int) /\ << 1 >> # <<>> /\ << 1 >>[1] = 1
  OBVIOUS
<1>2. << 1, 1 >> \in Seq(Int) /\ << 1, 1 >> # <<>> /\ << 1, 1 >>[1] = 1
  OBVIOUS
<1>3. \A id \in CommandIds : id \in Seq(Int) /\ id # <<>> /\ id[1] = 1
  BY <1>1, <1>2, Zenon DEF CommandIds
<1> QED BY <1>3, PlainTypes DEF WellTyped

\* The requests of a scenario, wrong envelopes included, are requests with one
\* of its bodies.
LEMMA ScenarioRequests ==
  ASSUME IsScenario(scenario), NEW r \in Requests
  PROVE  /\ IsRequest(r) /\ r.kind = scenario.kind /\ r.id \in CommandIds
         /\ \E b \in 1..2 : r.body = scenario.bodies[b]
<1> DEFINE owner == CHOOSE p \in Owners(scenario.kind) : TRUE
           first == Proper(<< 1 >>, owner, scenario.kind, scenario.bodies[1])
<1>1. scenario.kind \in Kinds /\ \A b \in 1..2 : IsBody(Layout(scenario.kind), scenario.bodies[b])
  BY DEF IsScenario
<1>2. Bootstrap..Actor \subseteq Int /\ Owners(scenario.kind) \subseteq Bootstrap..Actor
  BY DEF Owners, Bootstrap, Actor
<1>3. owner \in Int
  <2>1. Owners(scenario.kind) # {}
    BY <1>1, TablesAgree DEF TablesInStep, CommandInStep
  <2> QED BY <1>2, <2>1
<1>4. << 1 >> \in CommandIds
  BY DEF CommandIds
<1> HIDE DEF owner
<1>5. /\ IsRequest(first)
      /\ first = [id |-> << 1 >>, principal |-> owner, grant |-> 1,
                  capability |-> RequiredCapability(Outer(scenario.kind)),
                  generation |-> ProperGeneration(scenario.kind), kind |-> scenario.kind,
                  body |-> scenario.bodies[1]]
  <2>1. IsBody(Layout(scenario.kind), scenario.bodies[1]) /\ WellTyped(T, << 1 >>)
    BY <1>1, <1>4, IdsAreTexts
  <2> QED BY <1>1, <1>3, <2>1, ProperIsRequest
<1>6. \/ \E id \in CommandIds, p \in Owners(scenario.kind), b \in 1..2 :
              r = Proper(id, p, scenario.kind, scenario.bodies[b])
      \/ r \in {[first EXCEPT !.capability = "OpenOfficeTurn"],
                [first EXCEPT !.generation = CurrentGeneration + 1],
                [first EXCEPT !.generation = NotApplicable],
                [first EXCEPT !.grant = 2]}
      \/ \E p \in Bootstrap..Actor : r = [first EXCEPT !.principal = p]
  BY DEF Requests, owner
<1> HIDE DEF first
<1>7. CASE \E id \in CommandIds, p \in Owners(scenario.kind), b \in 1..2 :
              r = Proper(id, p, scenario.kind, scenario.bodies[b])
  <2>1. PICK id \in CommandIds, p \in Owners(scenario.kind), b \in 1..2 :
              r = Proper(id, p, scenario.kind, scenario.bodies[b])
    BY <1>7
  <2>2. p \in Int
    BY <1>2
  <2>3. /\ IsRequest(r)
        /\ r = [id |-> id, principal |-> p, grant |-> 1,
                capability |-> RequiredCapability(Outer(scenario.kind)),
                generation |-> ProperGeneration(scenario.kind), kind |-> scenario.kind,
                body |-> scenario.bodies[b]]
    BY <1>1, <2>1, <2>2, IdsAreTexts, ProperIsRequest
  <2>4. r.kind = scenario.kind /\ r.id = id /\ r.body = scenario.bodies[b]
    BY <2>3
  <2> QED BY <2>3, <2>4
<1>8. CASE ~ \E id \in CommandIds, p \in Owners(scenario.kind), b \in 1..2 :
              r = Proper(id, p, scenario.kind, scenario.bodies[b])
  <2> DEFINE From(capability, generation, grant, p) ==
               [id |-> << 1 >>, principal |-> p, grant |-> grant, capability |-> capability,
                generation |-> generation, kind |-> scenario.kind, body |-> scenario.bodies[1]]
             required == RequiredCapability(Outer(scenario.kind))
             generation == ProperGeneration(scenario.kind)
  <2>1. /\ required \in Range(Capabilities) /\ "OpenOfficeTurn" \in Range(Capabilities)
        /\ generation \in Int /\ CurrentGeneration + 1 \in Int /\ NotApplicable \in Int
    BY <1>1, TablesAgree DEF TablesInStep, CommandInStep, ProperGeneration, CurrentGeneration,
       NotApplicable
  <2>2. ASSUME NEW c \in Range(Capabilities), NEW g \in Int, NEW n \in Int, NEW p \in Int,
               r = From(c, g, n, p)
        PROVE  /\ IsRequest(r) /\ r.kind = scenario.kind /\ r.id = << 1 >>
               /\ r.body = scenario.bodies[1]
    <3>1. /\ r.id = << 1 >> /\ r.principal = p /\ r.grant = n /\ r.capability = c
          /\ r.generation = g /\ r.kind = scenario.kind /\ r.body = scenario.bodies[1]
      BY <2>2
    <3>2. r = Request(r.id, r.principal, r.grant, r.capability, r.generation, r.kind, r.body)
      BY <2>2, <3>1 DEF Request
    <3> QED BY <1>1, <1>4, <3>1, <3>2, IdsAreTexts DEF IsRequest
  <2> HIDE DEF required, generation
  <2>3. \/ r = From("OpenOfficeTurn", generation, 1, owner)
        \/ r = From(required, CurrentGeneration + 1, 1, owner)
        \/ r = From(required, NotApplicable, 1, owner)
        \/ r = From(required, generation, 2, owner)
        \/ \E p \in Bootstrap..Actor : r = From(required, generation, 1, p)
    <3>1. first = From(required, generation, 1, owner)
      BY <1>5 DEF required, generation
    <3>2. CASE r = [first EXCEPT !.capability = "OpenOfficeTurn"]
      BY <3>1, <3>2
    <3>3. CASE r = [first EXCEPT !.generation = CurrentGeneration + 1]
      BY <3>1, <3>3
    <3>4. CASE r = [first EXCEPT !.generation = NotApplicable]
      BY <3>1, <3>4
    <3>5. CASE r = [first EXCEPT !.grant = 2]
      BY <3>1, <3>5
    <3>6. CASE \E p \in Bootstrap..Actor : r = [first EXCEPT !.principal = p]
      <4>1. PICK p \in Bootstrap..Actor : r = [first EXCEPT !.principal = p]
        BY <3>6
      <4>2. r = From(required, generation, 1, p)
        BY <3>1, <4>1
      <4> QED BY <4>2
    <3> HIDE DEF From
    <3> QED BY <1>6, <1>8, <3>2, <3>3, <3>4, <3>5, <3>6
  <2> HIDE DEF From
  <2>4. IsRequest(r) /\ r.kind = scenario.kind /\ r.id = << 1 >> /\ r.body = scenario.bodies[1]
    BY <1>2, <1>3, <2>1, <2>2, <2>3
  <2> QED BY <1>4, <2>4
<1> QED BY <1>7, <1>8

\* Every sum has a first alternative.
LEMMA FirstAlternative == \A sum \in DOMAIN SumColumns : 1 \in DOMAIN SumColumns[sum]
BY SumsFit DEF SumColumns

\* The samples of a type are of that type.
LEMMA SamplesAreTyped ==
  ASSUME NEW type \in FieldTypes, NEW v \in Samples(type)
  PROVE  WellTyped(type, v)
<1>1. CASE type = N
  <2>1. v = << 1 >> \/ v = << 2 >>
    BY <1>1, PlainTypes DEF Samples
  <2>2. v \in Seq(Int) /\ Len(v) = 1
    <3>1. << 1 >> \in Seq(Int) /\ Len(<< 1 >>) = 1
      OBVIOUS
    <3>2. << 2 >> \in Seq(Int) /\ Len(<< 2 >>) = 1
      OBVIOUS
    <3> QED BY <2>1, <3>1, <3>2, Zenon
  <2> QED BY <1>1, <2>2, PlainTypes DEF WellTyped
<1>2. CASE type = T
  <2>1. v = << 1 >> \/ v = << 1, 1 >>
    BY <1>2, PlainTypes DEF Samples
  <2>2. v \in Seq(Int) /\ v # <<>>
    <3>1. << 1 >> \in Seq(Int) /\ << 1 >> # <<>>
      OBVIOUS
    <3>2. << 1, 1 >> \in Seq(Int) /\ << 1, 1 >> # <<>>
      OBVIOUS
    <3> QED BY <2>1, <3>1, <3>2, Zenon
  <2> QED BY <1>2, <2>2, PlainTypes DEF WellTyped
<1>3. CASE type = O
  <2>1. v = <<>> \/ v = << 1 >>
    BY <1>3, PlainTypes DEF Samples
  <2>2. v \in Seq(Int) /\ Len(v) <= 1
    <3>1. <<>> \in Seq(Int) /\ Len(<<>>) <= 1
      OBVIOUS
    <3>2. << 1 >> \in Seq(Int) /\ Len(<< 1 >>) <= 1
      OBVIOUS
    <3> QED BY <2>1, <3>1, <3>2, Zenon
  <2> QED BY <1>3, <2>2, PlainTypes DEF WellTyped
<1>4. CASE type \in DOMAIN SumColumns
  <2>1. type # N /\ type # T /\ type # O
    BY <1>4, PlainTypes
  <2>2. PICK a \in DOMAIN SumColumns[type], c \in 1..2 :
            v = << a >> \o [i \in DOMAIN SumColumns[type][a] |-> c]
    BY <1>4, <2>1 DEF Samples
  <2> DEFINE shape == SumColumns[type][a]
             payload == [i \in DOMAIN shape |-> c]
  <2>3. a \in Nat /\ Len(shape) \in Nat /\ DOMAIN shape = 1..Len(shape)
    BY <1>4, WidthsFit DEF Fits
  <2>4. payload \in Seq(Int) /\ Len(payload) = Len(shape)
    BY <2>3, IsSequence
  <2> HIDE DEF payload
  <2>5. v = << a >> \o payload
    BY <2>2 DEF payload
  <2> HIDE DEF shape
  <2>6. v \in Seq(Int) /\ v # <<>> /\ v[1] = a /\ Len(v) = 1 + Len(shape)
    BY <2>3, <2>4, <2>5
  <2> QED BY <1>4, <2>1, <2>6 DEF WellTyped, shape
<1>5. CASE type \notin {N, T, O} \cup DOMAIN SumColumns
  <2>1. PICK c \in EnumCodes[type] : v = << c >>
    BY <1>5 DEF Samples
  <2>2. c \in Int /\ c \in StoredCodes[type]
    BY <1>5, TablesAgree DEF TablesInStep, CodesInStep
  <2>3. v \in Seq(Int) /\ Len(v) = 1 /\ v[1] = c
    BY <2>1, <2>2
  <2> QED BY <1>5, <2>2, <2>3 DEF WellTyped
<1> QED BY <1>1, <1>2, <1>3, <1>4, <1>5

\* The base body is made of samples.
LEMMA BaseIsSampled ==
  ASSUME NEW layout, layout \in Seq(FieldTypes)
  PROVE  /\ Base(layout) = [f \in DOMAIN layout |-> Base(layout)[f]]
         /\ \A f \in DOMAIN layout : Base(layout)[f] \in Samples(layout[f])
<1>1. Base(layout) = [f \in DOMAIN layout |-> Base(layout)[f]]
  BY DEF Base
<1>2. ASSUME NEW f \in DOMAIN layout PROVE Base(layout)[f] \in Samples(layout[f])
  <2> DEFINE type == layout[f]
             least == CHOOSE v \in Samples(type) : \A w \in Samples(type) : v[1] <= w[1] /\ Len(v) <= Len(w)
  <2>1. type \in FieldTypes
    BY Elements
  <2>2. CASE type \in DOMAIN SumColumns
    <3>1. Base(layout)[f] = << 1 >> \o [i \in DOMAIN SumColumns[type][1] |-> 1]
      BY <2>2, PlainTypes DEF Base
    <3>2. type # N /\ type # T /\ type # O
      BY <2>2, PlainTypes
    <3>3. Samples(type) = UNION {{<<a>> \o [i \in DOMAIN SumColumns[type][a] |-> v] : v \in 1..2} :
                                  a \in DOMAIN SumColumns[type]}
      BY <2>2, <3>2 DEF Samples
    <3>4. 1 \in DOMAIN SumColumns[type] /\ 1 \in 1..2
      BY <2>2, FirstAlternative
    <3> DEFINE with(a) == {<< a >> \o [i \in DOMAIN SumColumns[type][a] |-> v] : v \in 1..2}
    <3>5. Base(layout)[f] \in with(1)
      BY <3>1, <3>4
    <3>6. with(1) \in {with(a) : a \in DOMAIN SumColumns[type]}
      BY <3>4
    <3> HIDE DEF type
    <3> QED BY <3>3, <3>5, <3>6 DEF type
  <2>3. CASE type = O
    <3>1. Base(layout)[f] = <<>>
      BY <2>3, PlainTypes DEF Base
    <3>2. Samples(type) = {<<>>, << 1 >>}
      BY <2>3, PlainTypes DEF Samples
    <3> QED BY <3>1, <3>2
  <2>4. CASE type \notin {O} \cup DOMAIN SumColumns
    <3>1. Base(layout)[f] = least
      BY <2>4 DEF Base
    <3>2. \E v \in Samples(type) : \A w \in Samples(type) : v[1] <= w[1] /\ Len(v) <= Len(w)
      <4>1. CASE type = N
        <5>1. Samples(type) = {<< 1 >>, << 2 >>}
          BY <4>1, PlainTypes DEF Samples
        <5> QED BY <5>1
      <4>2. CASE type = T
        <5>1. Samples(type) = {<< 1 >>, << 1, 1 >>}
          BY <4>2, PlainTypes DEF Samples
        <5> QED BY <5>1
      <4>3. CASE type \notin {N, T}
        <5>1. Samples(type) = {<< c >> : c \in EnumCodes[type]}
          BY <2>4, <4>3 DEF Samples
        <5>2. 1 \in EnumCodes[type] /\ \A c \in EnumCodes[type] : c \in Int /\ 1 <= c
          BY <2>1, <2>4, <4>3, TablesAgree DEF TablesInStep, CodesInStep
        <5>3. << 1 >> \in Samples(type)
          BY <5>1, <5>2
        <5>4. ASSUME NEW w \in Samples(type) PROVE << 1 >>[1] <= w[1] /\ Len(<< 1 >>) <= Len(w)
          <6>1. PICK c \in EnumCodes[type] : w = << c >>
            BY <5>1
          <6> QED BY <5>2, <6>1
        <5> QED BY <5>3, <5>4
      <4> QED BY <4>1, <4>2, <4>3
    <3>3. least \in Samples(type)
      <4> HIDE DEF type
      <4> QED BY <3>2
    <3> QED BY <3>1, <3>3
  <2> QED BY <2>2, <2>3, <2>4
<1> QED BY <1>1, <1>2

\* A body of samples, and one with a field changed, are bodies.
LEMMA SampledBodies ==
  ASSUME NEW layout, layout \in Seq(FieldTypes)
  PROVE  /\ IsBody(layout, Base(layout))
         /\ \A f \in DOMAIN layout : \A b \in Variants(layout, f) : IsBody(layout, b)
<1> DEFINE base == Base(layout)
<1>1. base = [f \in DOMAIN layout |-> base[f]]
  BY BaseIsSampled
<1>2. \A f \in DOMAIN layout : layout[f] \in FieldTypes
  BY Elements
<1>3. \A f \in DOMAIN layout : WellTyped(layout[f], base[f])
  BY <1>2, BaseIsSampled, SamplesAreTyped
<1>4. IsBody(layout, base)
  BY <1>1, <1>3 DEF IsBody
<1>5. ASSUME NEW f \in DOMAIN layout, NEW b \in Variants(layout, f) PROVE IsBody(layout, b)
  <2>1. PICK v \in Samples(layout[f]) : b = [base EXCEPT ![f] = v]
    BY DEF Variants
  <2>2. WellTyped(layout[f], v)
    BY <1>2, SamplesAreTyped
  <2> HIDE DEF base
  <2>3. DOMAIN base = DOMAIN layout
    BY <1>1
  <2>4. /\ b = [g \in DOMAIN layout |-> b[g]]
        /\ \A g \in DOMAIN layout : b[g] = IF g = f THEN v ELSE base[g]
    BY <2>1, <2>3
  <2> QED BY <1>3, <2>2, <2>4 DEF IsBody
<1> QED BY <1>4, <1>5

\* So are both of a pair.
LEMMA PairsAreBodies ==
  ASSUME NEW layout, layout \in Seq(FieldTypes), layout # <<>> => Variants(layout, 1) # {}
  PROVE  /\ \A pair \in Pairs(layout) : \A b \in 1..2 : IsBody(layout, pair[b])
         /\ \A b \in 1..2 : IsBody(layout, BasePair(layout)[b])
<1>1. /\ IsBody(layout, Base(layout))
      /\ \A f \in DOMAIN layout : \A b \in Variants(layout, f) : IsBody(layout, b)
  BY SampledBodies
<1>2. ASSUME NEW x, NEW y, IsBody(layout, x), IsBody(layout, y), NEW b \in 1..2
      PROVE  IsBody(layout, << x, y >>[b])
  <2>1. << x, y >>[1] = x /\ << x, y >>[2] = y /\ (b = 1 \/ b = 2)
    OBVIOUS
  <2> QED BY <1>2, <2>1, Zenon
<1>3. ASSUME NEW pair \in Pairs(layout)
      PROVE  \E x, y : IsBody(layout, x) /\ IsBody(layout, y) /\ pair = << x, y >>
  <2>1. CASE \E y \in UNION {Variants(layout, f) : f \in DOMAIN layout} : pair = << Base(layout), y >>
    <3>1. PICK y \in UNION {Variants(layout, f) : f \in DOMAIN layout} : pair = << Base(layout), y >>
      BY <2>1
    <3>2. IsBody(layout, y)
      BY <1>1
    <3> QED BY <1>1, <3>1, <3>2
  <2>2. CASE \E f \in DOMAIN layout : f + 1 \in DOMAIN layout
                /\ pair \in Variants(layout, f) \X Variants(layout, f + 1)
    <3>1. PICK f \in DOMAIN layout : f + 1 \in DOMAIN layout
                /\ pair \in Variants(layout, f) \X Variants(layout, f + 1)
      BY <2>2
    <3>2. PICK x \in Variants(layout, f), y \in Variants(layout, f + 1) : pair = << x, y >>
      BY <3>1
    <3> QED BY <1>1, <3>1, <3>2
  <2> QED BY <2>1, <2>2 DEF Pairs
<1>4. \A pair \in Pairs(layout) : \A b \in 1..2 : IsBody(layout, pair[b])
  BY <1>2, <1>3
<1>5. \A b \in 1..2 : IsBody(layout, BasePair(layout)[b])
  <2> DEFINE second == IF layout = <<>> THEN <<>> ELSE CHOOSE b \in Variants(layout, 1) : TRUE
  <2>1. BasePair(layout) = << Base(layout), second >>
    BY DEF BasePair
  <2>2. IsBody(layout, second)
    <3>1. CASE layout = <<>>
      BY <3>1 DEF IsBody
    <3>2. CASE layout # <<>>
      <4>1. 1 \in DOMAIN layout
        BY <3>2, Elements
      <4>2. second \in Variants(layout, 1)
        BY <3>2
      <4> HIDE DEF second
      <4> QED BY <1>1, <4>1, <4>2
    <3> QED BY <3>1, <3>2
  <2> HIDE DEF second
  <2> QED BY <1>1, <1>2, <2>1, <2>2
<1> QED BY <1>4, <1>5

\* Every scenario the model starts from is one.
LEMMA StartsAreScenarios ==
  ASSUME NEW kind \in Kinds, NEW s \in ScenariosOf(kind)
  PROVE  IsScenario(s)
<1> DEFINE none == EventsOf(kind) = {}
           events == IF none THEN {"none"} ELSE EventsOf(kind)
           eventLayout(e) == IF e = "none" THEN <<>> ELSE LayoutOfEvent(e)
           typed(layout, pair) == \A b \in 1..2 : IsBody(layout, pair[b])
<1>1. \E e \in events : \E bodies, outcomes :
        /\ s.kind = kind /\ s.event = e /\ s.bodies = bodies /\ s.outcomes = outcomes
        /\ bodies \in Pairs(Layout(kind)) \cup {BasePair(Layout(kind))}
        /\ outcomes \in Pairs(eventLayout(e)) \cup {BasePair(eventLayout(e))}
  <2> DEFINE make(event, bodies, outcomes, treatment, base) ==
               [kind |-> kind, bodies |-> bodies, event |-> event, outcomes |-> outcomes,
                treatment |-> treatment, faults |-> base /\ kind \in FaultKinds]
             plain == BasePair(Layout(kind))
             one(e) == {make(e, pair, BasePair(eventLayout(e)), "Ordinary", FALSE) :
                            pair \in Pairs(Layout(kind))}
             two(e) == {make(e, plain, pair, "Ordinary", FALSE) : pair \in Pairs(eventLayout(e))}
             three(e) == {make(e, plain, BasePair(eventLayout(e)), t, TRUE) :
                            t \in {"Ordinary", "Qualification"}}
  <2>1. PICK e \in events : s \in one(e) \cup two(e) \cup three(e)
    <3>1. s \in UNION {one(e) \cup two(e) \cup three(e) : e \in events}
      BY DEF ScenariosOf
    <3> HIDE DEF one, two, three
    <3> QED BY <3>1
  <2>2. \E bodies, outcomes, treatment, base :
           /\ s = make(e, bodies, outcomes, treatment, base)
           /\ bodies \in Pairs(Layout(kind)) \cup {BasePair(Layout(kind))}
           /\ outcomes \in Pairs(eventLayout(e)) \cup {BasePair(eventLayout(e))}
    <3> HIDE DEF make, eventLayout
    <3>1. CASE s \in one(e)
      BY <3>1
    <3>2. CASE s \in two(e)
      BY <3>2
    <3>3. CASE s \in three(e)
      BY <3>3
    <3> QED BY <2>1, <3>1, <3>2, <3>3
  <2> QED BY <2>2
<1>e. PICK e \in events : \E bodies, outcomes :
        /\ s.kind = kind /\ s.event = e /\ s.bodies = bodies /\ s.outcomes = outcomes
        /\ bodies \in Pairs(Layout(kind)) \cup {BasePair(Layout(kind))}
        /\ outcomes \in Pairs(eventLayout(e)) \cup {BasePair(eventLayout(e))}
  BY <1>1
<1>b. PICK bodies, outcomes :
        /\ s.kind = kind /\ s.event = e /\ s.bodies = bodies /\ s.outcomes = outcomes
        /\ bodies \in Pairs(Layout(kind)) \cup {BasePair(Layout(kind))}
        /\ outcomes \in Pairs(eventLayout(e)) \cup {BasePair(eventLayout(e))}
  BY <1>e
<1>2. /\ Layout(kind) \in Seq(FieldTypes)
      /\ Layout(kind) # <<>> => Variants(Layout(kind), 1) # {}
      /\ EventsOf(kind) \subseteq Events
  BY TablesAgree DEF TablesInStep, CommandInStep
<1>3. typed(Layout(kind), bodies)
  BY <1>b, <1>2, PairsAreBodies
<1>4. ASSUME EventsOf(kind) # {}
      PROVE  e \in EventsOf(kind) /\ typed(LayoutOfEvent(e), outcomes)
  <2>1. e \in EventsOf(kind)
    BY <1>4
  <2>2. /\ LayoutOfEvent(e) \in Seq(FieldTypes)
        /\ LayoutOfEvent(e) # <<>> => Variants(LayoutOfEvent(e), 1) # {}
    BY <1>2, <2>1, TablesAgree DEF TablesInStep, EventInStep
  <2>3. e # "none"
    BY <1>2, <2>1, TablesAgree DEF TablesInStep
  <2>4. outcomes \in Pairs(LayoutOfEvent(e)) \cup {BasePair(LayoutOfEvent(e))}
    BY <1>b, <2>3
  <2> QED BY <2>1, <2>2, <2>4, PairsAreBodies
<1> QED BY <1>b, <1>3, <1>4 DEF IsScenario

\* The event of a request is typed.
LEMMA EventIsTyped ==
  ASSUME IsScenario(scenario), NEW r, r.kind \in Kinds, EventsOf(r.kind) # {},
         r.kind = scenario.kind => \E b \in 1..2 : r.body = scenario.bodies[b]
  PROVE  /\ EventFor(r).kind \in Events
         /\ IsBody(LayoutOfEvent(EventFor(r).kind), EventFor(r).body)
<1>1. EventsOf(r.kind) \subseteq Events
  BY TablesAgree DEF TablesInStep, CommandInStep
<1>2. CASE r.kind = scenario.kind
  <2> DEFINE b == CHOOSE b \in 1..2 : scenario.bodies[b] = r.body
  <2>1. b \in 1..2
    BY <1>2
  <2>2. EventFor(r) = [kind |-> scenario.event, body |-> scenario.outcomes[b]]
    BY <1>2 DEF EventFor
  <2> HIDE DEF b
  <2>3. EventFor(r).kind = scenario.event /\ EventFor(r).body = scenario.outcomes[b]
    BY <2>2
  <2>4. scenario.event \in EventsOf(scenario.kind) /\ IsBody(LayoutOfEvent(scenario.event), scenario.outcomes[b])
    BY <1>2, <2>1 DEF IsScenario
  <2> QED BY <1>1, <1>2, <2>3, <2>4
<1>3. CASE r.kind # scenario.kind
  <2> DEFINE e == CHOOSE e \in EventsOf(r.kind) : TRUE
  <2>1. e \in Events
    BY <1>1
  <2>2. EventFor(r) = [kind |-> e, body |-> Base(LayoutOfEvent(e))]
    BY <1>3 DEF EventFor
  <2> HIDE DEF e
  <2>3. LayoutOfEvent(e) \in Seq(FieldTypes)
    BY <2>1, TablesAgree DEF TablesInStep, EventInStep
  <2>4. IsBody(LayoutOfEvent(e), Base(LayoutOfEvent(e)))
    BY <2>3, SampledBodies
  <2>5. EventFor(r).kind = e /\ EventFor(r).body = Base(LayoutOfEvent(e))
    BY <2>2
  <2> QED BY <2>1, <2>4, <2>5
<1> QED BY <1>2, <1>3

\* The kernel's own commands for a mission are requests with identities of their
\* own, whatever the digest is.
LEMMA SealRequests ==
  ASSUME IsScenario(scenario), NEW r \in SealCommands
  PROVE  /\ IsRequest(r) /\ r.kind # scenario.kind
         /\ r.id[1] \in {3, 4}
<1>1. scenario.kind = "InstallFoundingMission"
  BY DEF SealCommands
<1>2. PICK q \in Requests :
        \/ r = ReceiptCommand(MissionDigest(q.body))
        \/ r = Proper(<<4>> \o MissionDigest(q.body), Kernel, "RegisterContentObject", << << 1 >> >>)
  BY <1>1 DEF SealCommands
<1> DEFINE digest == MissionDigest(q.body)
<1>3. digest \in Seq(Int) /\ digest # <<>>
  <2>1. IsBody(Mission, q.body)
    <3>1. IsRequest(q) /\ q.kind = scenario.kind
      BY ScenarioRequests
    <3>2. Layout("InstallFoundingMission") = Mission
      BY TablesAgree DEF TablesInStep, MissionInStep
    <3> QED BY <1>1, <3>1, <3>2 DEF IsRequest
  <2>2. Len(Mission) \in DOMAIN Mission /\ Mission[Len(Mission)] = T
    BY DEF Mission
  <2>3. WellTyped(T, digest)
    BY <2>1, <2>2 DEF IsBody, MissionDigest
  <2> QED BY <2>3, PlainTypes DEF WellTyped
<1> HIDE DEF digest
<1>4. ASSUME NEW n \in {3, 4}
      PROVE  WellTyped(T, << n >> \o digest) /\ (<< n >> \o digest)[1] = n
  <2>1. (<< n >> \o digest) \in Seq(Int) /\ (<< n >> \o digest) # <<>> /\ (<< n >> \o digest)[1] = n
    BY <1>3
  <2> QED BY <2>1, PlainTypes DEF WellTyped
<1>5. /\ "RecordContentSealReceipt" \in Kinds /\ Layout("RecordContentSealReceipt") = << T >>
      /\ "RegisterContentObject" \in Kinds /\ Layout("RegisterContentObject") = << N >>
  BY TablesAgree DEF TablesInStep, MissionInStep
<1>6. IsBody(<< T >>, << digest >>) /\ IsBody(<< N >>, << << 1 >> >>)
  <2>1. WellTyped(T, digest)
    BY <1>3, PlainTypes DEF WellTyped
  <2>2. WellTyped(N, << 1 >>)
    BY PlainTypes DEF WellTyped
  <2>3. ASSUME NEW type, NEW v, WellTyped(type, v) PROVE IsBody(<< type >>, << v >>)
    <3>1. DOMAIN << type >> = 1..1 /\ << v >> = [f \in 1..1 |-> << v >>[f]]
      OBVIOUS
    <3>2. \A f \in 1..1 : << type >>[f] = type /\ << v >>[f] = v
      OBVIOUS
    <3> QED BY <2>3, <3>1, <3>2 DEF IsBody
  <2> QED BY <2>1, <2>2, <2>3
<1>7. Kernel \in Int /\ 3 \in {3, 4} /\ 4 \in {3, 4}
  BY DEF Kernel
<1>8. CASE r = ReceiptCommand(digest)
  <2>1. r = Proper(<< 3 >> \o digest, Kernel, "RecordContentSealReceipt", << digest >>)
    BY <1>8 DEF ReceiptCommand
  <2>2. IsRequest(r) /\ r.id = << 3 >> \o digest /\ r.kind = "RecordContentSealReceipt"
    <3>1. /\ WellTyped(T, << 3 >> \o digest)
          /\ IsBody(Layout("RecordContentSealReceipt"), << digest >>)
      BY <1>4, <1>5, <1>6, <1>7
    <3>2. IsRequest(r)
      BY <1>5, <1>7, <2>1, <3>1, ProperIsRequest
    <3>3. r.id = << 3 >> \o digest /\ r.kind = "RecordContentSealReceipt"
      BY <2>1 DEF Proper, Request
    <3> QED BY <3>2, <3>3
  <2> QED BY <1>1, <1>4, <1>7, <2>2
<1>9. CASE r = Proper(<< 4 >> \o digest, Kernel, "RegisterContentObject", << << 1 >> >>)
  <2>1. IsRequest(r) /\ r.id = << 4 >> \o digest /\ r.kind = "RegisterContentObject"
    <3>1. /\ WellTyped(T, << 4 >> \o digest)
          /\ IsBody(Layout("RegisterContentObject"), << << 1 >> >>)
      BY <1>4, <1>5, <1>6, <1>7
    <3>2. IsRequest(r)
      BY <1>5, <1>7, <1>9, <3>1, ProperIsRequest
    <3>3. r.id = << 4 >> \o digest /\ r.kind = "RegisterContentObject"
      BY <1>9 DEF Proper, Request
    <3> QED BY <3>2, <3>3
  <2> QED BY <1>1, <1>4, <1>7, <2>1
<1> QED BY <1>2, <1>8, <1>9 DEF digest

\* With tables in step every scenario is faithful, whatever its bodies are.
THEOREM ScenariosAreFaithful ==
  ASSUME IsScenario(scenario)
  PROVE  ScenarioIsFaithful
<1>1. ASSUME NEW r \in Requests PROVE ReadsBack(r) /\ IsRequest(r) /\ r.id[1] = 1
  <2>1. /\ IsRequest(r) /\ r.id \in CommandIds
        /\ \E b \in 1..2 : r.body = scenario.bodies[b]
    BY ScenarioRequests
  <2>2. r.kind \in Kinds
    BY <2>1 DEF IsRequest
  <2> QED BY <2>1, <2>2, EventIsTyped, TypedReadsBack, IdsAreTexts
<1>2. ASSUME NEW r \in SealCommands PROVE ReadsBack(r) /\ r.id[1] # 1
  <2>1. IsRequest(r) /\ r.kind # scenario.kind /\ r.id[1] \in {3, 4}
    BY SealRequests
  <2>2. r.kind \in Kinds
    BY <2>1 DEF IsRequest
  <2> QED BY <2>1, <2>2, EventIsTyped, TypedReadsBack
<1>3. \A r, q \in Requests : q # r => RequestBytes(q) # RequestBytes(r)
  BY <1>1, RequestsAreToldApart
<1>4. \A r \in SealCommands : \A q \in Requests : q.id # r.id
  BY <1>1, <1>2
<1>5. /\ Layout("RegisterContentObject") = <<N>>
      /\ CommandInserts["RegisterContentObject"] = << 1 >>
      /\ CommandReads["RegisterContentObject"] = << 1 >>
      /\ ~IsStudy("RegisterContentObject")
  BY TablesAgree DEF TablesInStep, MissionInStep
<1> QED BY <1>1, <1>2, <1>3, <1>4, <1>5 DEF ScenarioIsFaithful

-----------------------------------------------------------------------------
(* The invariant that needs no table.                                      *)

\* A mission under way is one of the scenario's requests, and past the first
\* stage its source is sealed.
OperationSound ==
    \/ operation = NoOperation
    \/ /\ operation = [stage |-> operation.stage, request |-> operation.request]
       /\ operation.stage \in {"seal", "record", "register", "execute"}
       /\ operation.request \in Requests
       /\ operation.request.kind = "InstallFoundingMission"
       /\ operation.stage # "seal" => Digest \in sealed

RowsNumbered ==
    /\ Len(ledger.events) <= Len(ledger.commands)
    /\ \A i \in DOMAIN ledger.commands :
          ledger.commands[i].row \in Nat /\ ledger.commands[i].row < ledger.nextRow
    /\ \A m \in ledger.material : m.row \in Nat /\ m.row < ledger.nextRow

\* In a mission's scenario receipts are recorded for sealed sources only.
ReceiptsAreSealed ==
    scenario.kind = "InstallFoundingMission" =>
        \A m \in Applied(ledger, "RecordContentSealReceipt") : \E d \in sealed : m.body = <<d>>

MissionsBelong ==
    Applied(ledger, "InstallFoundingMission") # {} => scenario.kind = "InstallFoundingMission"

LedgerInv ==
    /\ mode \in {"Down", "Fresh", "Fenced"} /\ stream \in {"Open", "Closed"}
    /\ aborts \in 0..MaxAborts
    /\ IsLedger(ledger) /\ OperationSound /\ RowsNumbered
    /\ ReceiptsAreSealed /\ MissionsBelong /\ MissionHasItsSource

\* What a step may execute: a request of the scenario, or one of the kernel's
\* own for the sealed source of a mission.
Asked(request) ==
    \/ request \in Requests
    \/ /\ scenario.kind = "InstallFoundingMission"
       /\ \E r \in Requests :
             /\ MissionDigest(r.body) \in sealed
             /\ \/ request = ReceiptCommand(MissionDigest(r.body))
                \/ \E n : request = ObjectRequest(MissionDigest(r.body), n)

\* What a step does outside the ledger, and to it.
StepKeeps ==
    /\ scenario' = scenario /\ sealed \subseteq sealed'
    /\ mode' \in {"Down", "Fresh", "Fenced"} /\ stream' \in {"Open", "Closed"}
    /\ aborts' \in 0..MaxAborts /\ OperationSound'
    /\ \/ ledger' = ledger /\ aborts' = aborts
       \/ aborts' = aborts /\ \E request : Asked(request) /\ ledger' = Execute(ledger, request)
       \/ aborts' = aborts + 1 /\ \E request \in Requests :
             ~Known(ledger, request.id) /\ ledger' = Abandon(ledger, request)

\* The requests are those of the scenario, which never changes.
LEMMA RequestsStay == scenario' = scenario => Requests' = Requests
  BY DEF Requests

\* The operation's source stays sealed.
LEMMA OperationStays ==
  ASSUME OperationSound, scenario' = scenario, sealed \subseteq sealed',
         operation' = operation \/ operation' = NoOperation
  PROVE  OperationSound'
<1>1. Requests' = Requests
  BY RequestsStay
<1>2. CASE operation' = NoOperation
  BY <1>2 DEF OperationSound
<1>3. CASE operation' = operation /\ operation # NoOperation
  <2>1. Digest' = Digest
    BY <1>3 DEF Digest
  <2> QED BY <1>1, <1>3, <2>1 DEF OperationSound
<1> QED BY <1>2, <1>3

\* Every step keeps StepKeeps: the daemon's actions, one by one.
LEMMA StepsKeep ==
  ASSUME LedgerInv, [Next]_vars
  PROVE  StepKeeps
<1> USE DEF LedgerInv
<1> DEFINE installing == "InstallFoundingMission"
<1>m. ASSUME NEW st, operation.stage = st, st # "none"
      PROVE  /\ operation # NoOperation
             /\ operation = [stage |-> operation.stage, request |-> operation.request]
             /\ operation.request \in Requests /\ operation.request.kind = installing
             /\ scenario.kind = installing
             /\ st # "seal" => Digest \in sealed
  <2>1. NoOperation.stage = "none"
    BY DEF NoOperation
  <2>2. operation # NoOperation
    BY <1>m, <2>1
  <2> QED BY <1>m, <2>2, RequestKind DEF OperationSound
<1>c. ASSUME NEW request \in Requests, Commit(request) PROVE StepKeeps
  <2>1. UNCHANGED <<scenario, aborts, mode, stream, operation, sealed>>
        /\ ledger' = Execute(ledger, request)
    BY <1>c DEF Commit
  <2> QED BY <2>1, OperationStays DEF StepKeeps, Asked
<1>1. CASE UNCHANGED vars
  BY <1>1, OperationStays DEF vars, StepKeeps
<1>2. CASE Bind
  BY <1>2, OperationStays DEF Bind, StepKeeps
<1>3. CASE \E request \in Submissions : Submit(request) \/ Resident(request)
  BY <1>3, <1>c DEF Submissions, Submit, Resident
<1>4. CASE \E request \in Submissions : Abort(request)
  <2>1. PICK request \in Requests : Abort(request)
    BY <1>4 DEF Submissions
  <2>2. /\ UNCHANGED <<scenario, mode, stream, operation, sealed>>
        /\ aborts < MaxAborts /\ aborts' = aborts + 1
        /\ ~Known(ledger, request.id) /\ ledger' = Abandon(ledger, request)
    BY <2>1 DEF Abort
  <2>3. aborts' \in 0..MaxAborts
    BY <2>2, BoundsAreNatural
  <2> QED BY <2>2, <2>3, OperationStays DEF StepKeeps
<1>5. CASE \E request \in Submissions : SubmitMission(request)
  <2>1. PICK request \in Requests : SubmitMission(request)
    BY <1>5 DEF Submissions
  <2>2. CASE MissionIsReady(request)
    <3>1. /\ operation' = [stage |-> "seal", request |-> request]
          /\ UNCHANGED <<scenario, ledger, aborts, mode, stream, sealed>>
          /\ request.kind = installing
      BY <2>1, <2>2 DEF SubmitMission
    <3>2. OperationSound'
      <4>1. operation'.stage = "seal" /\ operation'.request = request
        BY <3>1
      <4> QED BY <3>1, <4>1, RequestsStay DEF OperationSound
    <3> QED BY <3>1, <3>2 DEF StepKeeps
  <2>3. CASE ~MissionIsReady(request)
    BY <1>c, <2>1, <2>3 DEF SubmitMission
  <2> QED BY <2>2, <2>3
<1>6. CASE SealSource
  <2> DEFINE stage == IF ContentObjects(ledger, Digest) # {} THEN "execute"
                      ELSE IF \E r \in Applied(ledger, "RecordContentSealReceipt") : r.body = <<Digest>>
                           THEN "register" ELSE "record"
  <2>1. /\ operation.stage = "seal" /\ sealed' = sealed \cup {Digest}
        /\ operation' = [operation EXCEPT !.stage = stage]
        /\ UNCHANGED <<scenario, ledger, aborts, mode, stream>>
    BY <1>6 DEF SealSource
  <2>2. stage \in {"record", "register", "execute"}
    OBVIOUS
  <2> HIDE DEF stage
  <2>3. /\ operation = [stage |-> operation.stage, request |-> operation.request]
        /\ operation.request \in Requests /\ operation.request.kind = installing
    BY <1>m, <2>1
  <2>4. operation' = [stage |-> stage, request |-> operation.request]
    BY <2>1, <2>3
  <2>5. operation'.stage = stage /\ operation'.request = operation.request
    BY <2>4
  <2>6. Digest' = Digest
    BY <2>5 DEF Digest
  <2>7. OperationSound'
    BY <2>1, <2>2, <2>3, <2>4, <2>5, <2>6, RequestsStay DEF OperationSound
  <2> QED BY <2>1, <2>7 DEF StepKeeps
<1>a. ASSUME NEW st \in {"register", "execute"}, operation.stage # "none", operation.stage # "seal",
             operation' = [operation EXCEPT !.stage = st], scenario' = scenario, sealed' = sealed
      PROVE  OperationSound'
  <2>1. /\ operation = [stage |-> operation.stage, request |-> operation.request]
        /\ operation.request \in Requests /\ operation.request.kind = installing
        /\ Digest \in sealed
    BY <1>m, <1>a
  <2>2. operation' = [stage |-> st, request |-> operation.request]
    BY <1>a, <2>1
  <2>3. operation'.stage = st /\ operation'.request = operation.request
    BY <2>2
  <2>4. Digest' = Digest
    BY <2>3 DEF Digest
  <2> QED BY <1>a, <2>1, <2>2, <2>3, <2>4, RequestsStay DEF OperationSound
<1>7. CASE RecordReceipt
  <2>1. /\ operation.stage = "record" /\ ledger' = Execute(ledger, ReceiptCommand(Digest))
        /\ operation' = [operation EXCEPT !.stage = "register"]
        /\ UNCHANGED <<scenario, aborts, mode, stream, sealed>>
    BY <1>7 DEF RecordReceipt
  <2>2. Asked(ReceiptCommand(Digest))
    BY <1>m, <2>1 DEF Asked, Digest
  <2>3. OperationSound'
    BY <1>a, <2>1
  <2> QED BY <2>1, <2>2, <2>3 DEF StepKeeps
<1>8. CASE RegisterObject
  <2>1. /\ operation.stage = "register" /\ ledger' = Execute(ledger, ObjectCommand(ledger, Digest))
        /\ operation' = [operation EXCEPT !.stage = "execute"]
        /\ UNCHANGED <<scenario, aborts, mode, stream, sealed>>
    BY <1>8 DEF RegisterObject
  <2>2. \E n : ObjectCommand(ledger, Digest) = ObjectRequest(Digest, n)
    BY DEF ObjectCommand, ObjectRequest
  <2>3. Asked(ObjectCommand(ledger, Digest))
    BY <1>m, <2>1, <2>2 DEF Asked, Digest
  <2>4. OperationSound'
    BY <1>a, <2>1
  <2> QED BY <2>1, <2>3, <2>4 DEF StepKeeps
<1>9. CASE FinishMission
  <2>1. /\ operation.stage = "execute" /\ ledger' = Execute(ledger, operation.request)
        /\ operation' = NoOperation
        /\ UNCHANGED <<scenario, aborts, mode, stream, sealed>>
    BY <1>9 DEF FinishMission
  <2>2. Asked(operation.request)
    BY <1>m, <2>1 DEF Asked
  <2> QED BY <2>1, <2>2, OperationStays DEF StepKeeps
<1>10. CASE CloseStream
  BY <1>10, OperationStays DEF CloseStream, StepKeeps
<1>11. CASE Crash
  BY <1>11, OperationStays DEF Crash, StepKeeps
<1> QED BY <1>1, <1>2, <1>3, <1>4, <1>5, <1>6, <1>7, <1>8, <1>9, <1>10, <1>11 DEF Next

\* An aborted transaction leaves nothing but the identities it drew.
LEMMA Abandoned ==
  ASSUME NEW l, IsLedger(l), NEW request
  PROVE  LET k == Abandon(l, request)
         IN  /\ IsLedger(k) /\ k.commands = l.commands /\ k.events = l.events
             /\ k.material = l.material /\ k.nextRow \in {l.nextRow, l.nextRow + 1}
<1> DEFINE next == l.nextRow + 1
           subject == IF Verdict(l, request) \in {"Accepted", "UniqueConstraint"}
                      THEN l.nextSubject + 1 ELSE l.nextSubject
           k == WriteRow(l, l.commands, next, subject)
<1>1. next \in Nat /\ subject \in Nat /\ HasColumns(l)
  BY DEF IsLedger
<1> HIDE DEF next, subject
<1>2. /\ HasColumns(k) /\ k.commands = l.commands /\ k.nextRow = next /\ k.nextSubject = subject
      /\ k.events = l.events /\ k.material = l.material
  BY <1>1, RowWritten
<1>3. Abandon(l, request) \in {l, k}
  <2>1. k = [l EXCEPT !.nextRow = next, !.nextSubject = subject]
    BY <1>1 DEF WriteRow, HasColumns, Columns
  <2>2. Abandon(l, request) = IF Known(l, request.id) THEN l
                              ELSE [l EXCEPT !.nextRow = next, !.nextSubject = subject]
    BY DEF Abandon, next, subject
  <2> QED BY <2>1, <2>2
<1> HIDE DEF k
<1>4. IsLedger(k) /\ k.nextRow = l.nextRow + 1
  BY <1>1, <1>2 DEF IsLedger, next
<1> QED BY <1>2, <1>3, <1>4

\* What is accepted as a mission found no other, and its source registered.
LEMMA AcceptedMission ==
  ASSUME NEW l, NEW request, request.kind = "InstallFoundingMission",
         Verdict(l, request) = "Accepted"
  PROVE  /\ Applied(l, "InstallFoundingMission") = {}
         /\ ContentObjects(l, MissionDigest(request.body)) # {}
<1>1. EnvelopeVerdict(l, request) # "Accepted"
  BY DEF EnvelopeVerdict
<1> QED BY <1>1 DEF Verdict

\* Executing what may be asked keeps the numbering and the mission's source.
LEMMA ExecutionKeepsLedger ==
  ASSUME LedgerInv, NEW request, Asked(request), ledger' = Execute(ledger, request),
         scenario' = scenario, sealed \subseteq sealed'
  PROVE  (IsLedger(ledger) /\ RowsNumbered /\ ReceiptsAreSealed /\ MissionsBelong
          /\ MissionHasItsSource)'
<1> DEFINE v == Verdict(ledger, request)
           made == [kind |-> request.kind, body |-> request.body,
                    subject |-> ledger.nextSubject, row |-> ledger.nextRow]
<1>0. IsLedger(ledger) /\ ledger.nextRow \in Nat
  BY DEF LedgerInv, IsLedger
<1>1. IsLedger(ledger')
  BY <1>0, Executed
<1>2. CASE Known(ledger, request.id)
  <2>1. ledger' = ledger
    BY <1>0, <1>2, Executed
  <2> QED BY <1>1, <2>1 DEF LedgerInv, RowsNumbered, ReceiptsAreSealed, MissionsBelong,
             MissionHasItsSource, Applied, IsLedger, IsSeq, HasColumns
<1>3. CASE ~Known(ledger, request.id)
  <2>1. Wrote(ledger, request, ledger')
    BY <1>0, <1>3, Executed
  <2>2. /\ Len(ledger.commands) \in Nat /\ Len(ledger.events) \in Nat
        /\ DOMAIN ledger.commands = 1..Len(ledger.commands)
        /\ DOMAIN ledger'.commands = 1..(Len(ledger.commands) + 1)
        /\ Len(ledger'.commands) = Len(ledger.commands) + 1
        /\ Len(ledger'.events) \in {Len(ledger.events), Len(ledger.events) + 1}
        /\ \A i \in 1..Len(ledger.commands) : ledger'.commands[i] = ledger.commands[i]
        /\ ledger'.commands[Len(ledger.commands) + 1] = CommandRow(ledger, request, v)
        /\ ledger'.nextRow = ledger.nextRow + 1
    BY <1>0, <2>1, Appended DEF Wrote, IsLedger
  <2>3. /\ ledger'.material \subseteq ledger.material \cup {made}
        /\ made \in ledger'.material \ ledger.material => v = "Accepted"
        /\ ledger.material \subseteq ledger'.material
    BY <2>1 DEF Wrote
  <2>4. RowsNumbered'
    <3>1. CommandRow(ledger, request, v).row = ledger.nextRow /\ made.row = ledger.nextRow
      BY DEF CommandRow
    <3>2. /\ Len(ledger.events) <= Len(ledger.commands)
          /\ \A i \in 1..Len(ledger.commands) :
                ledger.commands[i].row \in Nat /\ ledger.commands[i].row < ledger.nextRow
          /\ \A m \in ledger.material : m.row \in Nat /\ m.row < ledger.nextRow
      BY <2>2 DEF LedgerInv, RowsNumbered
    <3>3. Len(ledger'.events) <= Len(ledger'.commands)
      BY <2>2, <3>2
    <3>4. ASSUME NEW i \in DOMAIN ledger'.commands
          PROVE  ledger'.commands[i].row \in Nat /\ ledger'.commands[i].row < ledger'.nextRow
      <4>1. CASE i = Len(ledger.commands) + 1
        BY <1>0, <2>2, <3>1, <4>1
      <4>2. CASE i # Len(ledger.commands) + 1
        <5>1. i \in 1..Len(ledger.commands)
          BY <2>2, <4>2
        <5>2. ledger'.commands[i] = ledger.commands[i]
          BY <2>2, <5>1
        <5>3. ledger.commands[i].row \in Nat /\ ledger.commands[i].row < ledger.nextRow
          BY <3>2, <5>1
        <5> QED BY <1>0, <2>2, <5>2, <5>3
      <4> QED BY <4>1, <4>2
    <3>5. ASSUME NEW m \in ledger'.material PROVE m.row \in Nat /\ m.row < ledger'.nextRow
      BY <1>0, <2>2, <2>3, <3>1, <3>2
    <3> QED BY <3>3, <3>4, <3>5 DEF RowsNumbered
  <2>5. \/ request \in Requests /\ request.kind = scenario.kind
        \/ /\ scenario.kind = "InstallFoundingMission"
           /\ request.kind = "RecordContentSealReceipt" /\ \E d \in sealed : request.body = <<d>>
        \/ /\ scenario.kind = "InstallFoundingMission" /\ request.kind = "RegisterContentObject"
    BY RequestKind DEF Asked, ReceiptCommand, ObjectRequest, Proper, Request
  <2>6. made.kind = request.kind /\ made.body = request.body /\ made.row = ledger.nextRow
    OBVIOUS
  <2> HIDE DEF made
  <2>7. ReceiptsAreSealed'
    BY <2>3, <2>5, <2>6 DEF LedgerInv, ReceiptsAreSealed, Applied
  <2>8. MissionsBelong'
    BY <2>3, <2>5, <2>6 DEF LedgerInv, MissionsBelong, Applied
  <2>9. MissionHasItsSource'
    <3> SUFFICES ASSUME NEW m \in ledger'.material, m.kind = "InstallFoundingMission"
                 PROVE  /\ MissionDigest(m.body) \in sealed'
                        /\ \E o \in ledger'.material : /\ o.kind = "RegisterContentObject"
                                                      /\ o.row < m.row
                        /\ \A other \in ledger'.material :
                              other.kind = "InstallFoundingMission" => other = m
      BY DEF MissionHasItsSource, Applied
    <3>1. CASE m \in ledger.material
      <4>1. /\ MissionDigest(m.body) \in sealed
            /\ \E o \in ledger.material : o.kind = "RegisterContentObject" /\ o.row < m.row
            /\ \A other \in ledger.material : other.kind = "InstallFoundingMission" => other = m
        BY <3>1 DEF LedgerInv, MissionHasItsSource, Applied
      <4>2. made.kind = "InstallFoundingMission" /\ made \in ledger'.material =>
              made \in ledger.material
        BY <2>3, <2>6, <3>1, AcceptedMission DEF Applied
      <4> QED BY <2>3, <4>1, <4>2
    <3>2. CASE m \notin ledger.material
      <4>1. m = made /\ v = "Accepted" /\ request.kind = "InstallFoundingMission"
        BY <2>3, <2>6, <3>2
      <4>2. /\ Applied(ledger, "InstallFoundingMission") = {}
            /\ ContentObjects(ledger, MissionDigest(m.body)) # {}
        BY <2>6, <4>1, AcceptedMission
      <4>3. PICK o \in Applied(ledger, "RegisterContentObject"),
                 r \in Applied(ledger, "RecordContentSealReceipt") :
                    r.body = <<MissionDigest(m.body)>>
        BY <4>2 DEF ContentObjects
      <4>4. scenario.kind = "InstallFoundingMission"
        BY <2>5, <4>1
      <4>5. MissionDigest(m.body) \in sealed
        BY <4>3, <4>4 DEF LedgerInv, ReceiptsAreSealed
      <4>6. o \in ledger'.material /\ o.kind = "RegisterContentObject" /\ o.row < m.row
        BY <2>3, <2>6, <4>1, <4>3 DEF LedgerInv, RowsNumbered, Applied
      <4>7. \A other \in ledger'.material : other.kind = "InstallFoundingMission" => other = m
        BY <2>3, <4>1, <4>2 DEF Applied
      <4> QED BY <4>5, <4>6, <4>7
    <3> QED BY <3>1, <3>2
  <2> QED BY <1>1, <2>4, <2>7, <2>8, <2>9 DEF IsLedger, IsSeq, HasColumns
<1> QED BY <1>2, <1>3

\* A step that changes at most the next identities keeps the ledger's rows.
LEMMA IdentitiesKeepLedger ==
  ASSUME LedgerInv, scenario' = scenario, sealed \subseteq sealed', IsLedger(ledger'),
         ledger'.commands = ledger.commands, ledger'.events = ledger.events,
         ledger'.material = ledger.material,
         ledger'.nextRow \in {ledger.nextRow, ledger.nextRow + 1}
  PROVE  (IsLedger(ledger) /\ RowsNumbered /\ ReceiptsAreSealed /\ MissionsBelong
          /\ MissionHasItsSource)'
<1>1. IsLedger(ledger)'
  BY DEF IsLedger, IsSeq, HasColumns
<1>2. ledger.nextRow \in Nat
  BY DEF LedgerInv, IsLedger
<1>3. RowsNumbered'
  <2>1. /\ Len(ledger.events) <= Len(ledger.commands)
        /\ \A i \in DOMAIN ledger.commands :
              ledger.commands[i].row \in Nat /\ ledger.commands[i].row < ledger.nextRow
        /\ \A m \in ledger.material : m.row \in Nat /\ m.row < ledger.nextRow
    BY DEF LedgerInv, RowsNumbered
  <2>2. \A n \in Nat : n < ledger.nextRow => n < ledger'.nextRow
    BY <1>2
  <2> QED BY <2>1, <2>2 DEF RowsNumbered
<1>4. ReceiptsAreSealed' /\ MissionsBelong' /\ MissionHasItsSource'
  BY DEF LedgerInv, ReceiptsAreSealed, MissionsBelong, MissionHasItsSource, Applied
<1> QED BY <1>1, <1>3, <1>4

\* The daemon before its first command.
Blank ==
    /\ ledger = EmptyLedger /\ aborts = 0 /\ mode = "Fresh" /\ stream = "Open"
    /\ operation = NoOperation /\ sealed = {}

\* The ledger of a scenario of any bodies.
OpenSpec == IsScenario(scenario) /\ Blank /\ [][Next]_vars

\* The daemon of a scenario of the model is one.
THEOREM SpecIsOpen == Spec => OpenSpec
<1>1. Init => IsScenario(scenario) /\ Blank
  <2> SUFFICES ASSUME Init PROVE IsScenario(scenario) /\ Blank
    OBVIOUS
  <2>1. PICK kind \in Kinds : scenario \in ScenariosOf(kind)
    BY DEF Init
  <2> QED BY <2>1, StartsAreScenarios DEF Init, Blank
<1> QED BY <1>1, PTL DEF Spec, OpenSpec

\* The empty ledger.
LEMMA InitialLedger ==
  ASSUME Blank
  PROVE  LedgerInv /\ ledger.commands = <<>> /\ ledger.events = <<>>
<1>1. HasColumns(EmptyLedger) /\ DOMAIN <<>> = {} /\ Len(<<>>) = 0
  BY DEF HasColumns, Columns, EmptyLedger
<1>2. IsSeq(<<>>)
  <2>1. <<>> \in Seq({})
    OBVIOUS
  <2> QED BY <2>1 DEF IsSeq
<1>3. /\ ledger = EmptyLedger /\ ledger.commands = <<>> /\ ledger.events = <<>>
      /\ ledger.material = {} /\ ledger.nextRow = 1 /\ ledger.nextSubject = 1
  BY DEF Blank, EmptyLedger
<1>4. IsLedger(ledger)
  BY <1>1, <1>2, <1>3 DEF IsLedger
<1>5. RowsNumbered /\ ReceiptsAreSealed /\ MissionsBelong /\ MissionHasItsSource
  BY <1>1, <1>3 DEF RowsNumbered, ReceiptsAreSealed, MissionsBelong, MissionHasItsSource, Applied
<1>6. aborts \in 0..MaxAborts /\ OperationSound
  BY BoundsAreNatural DEF Blank, OperationSound
<1> QED BY <1>3, <1>4, <1>5, <1>6 DEF Blank, LedgerInv

\* The ledger's rows are numbered in order, a mission under way is sound, and
\* receipts and missions have their sources, for any bounds and any scenario.
THEOREM LedgerHolds == Blank /\ [][Next]_vars => []LedgerInv
<1>1. Blank => LedgerInv
  BY InitialLedger
<1>2. LedgerInv /\ [Next]_vars => LedgerInv'
  <2> SUFFICES ASSUME LedgerInv, [Next]_vars PROVE LedgerInv'
    OBVIOUS
  <2>1. StepKeeps
    BY StepsKeep
  <2>2. /\ scenario' = scenario /\ sealed \subseteq sealed'
        /\ (mode \in {"Down", "Fresh", "Fenced"} /\ stream \in {"Open", "Closed"}
            /\ aborts \in 0..MaxAborts /\ OperationSound)'
    BY <2>1 DEF StepKeeps
  <2>3. IsLedger(ledger)
    BY DEF LedgerInv
  <2>4. (IsLedger(ledger) /\ RowsNumbered /\ ReceiptsAreSealed /\ MissionsBelong
         /\ MissionHasItsSource)'
    <3>1. CASE ledger' = ledger
      <4>1. IsLedger(ledger')
        BY <2>3, <3>1
      <4> QED BY <2>2, <3>1, <4>1, IdentitiesKeepLedger
    <3>2. CASE \E request : Asked(request) /\ ledger' = Execute(ledger, request)
      BY <2>2, <3>2, ExecutionKeepsLedger
    <3>3. CASE \E request \in Requests : ledger' = Abandon(ledger, request)
      <4>1. /\ IsLedger(ledger') /\ ledger'.commands = ledger.commands
            /\ ledger'.events = ledger.events /\ ledger'.material = ledger.material
            /\ ledger'.nextRow \in {ledger.nextRow, ledger.nextRow + 1}
        BY <2>3, <3>3, Abandoned
      <4> QED BY <2>2, <4>1, IdentitiesKeepLedger
    <3> QED BY <2>1, <3>1, <3>2, <3>3 DEF StepKeeps
  <2> QED BY <2>2, <2>4 DEF LedgerInv
<1> QED BY <1>1, <1>2, PTL

\* The daemon, the operation and the numbering of rows keep their types.
THEOREM TypesHold == Blank /\ [][Next]_vars => []TypeOK
<1>1. LedgerInv => TypeOK
  <2> SUFFICES ASSUME LedgerInv PROVE TypeOK
    OBVIOUS
  <2>1. operation.stage \in {"none", "seal", "record", "register", "execute"}
    BY DEF LedgerInv, OperationSound, NoOperation
  <2> QED BY <2>1 DEF LedgerInv, RowsNumbered, TypeOK
<1> QED BY <1>1, LedgerHolds, PTL

\* An installed founding mission has its source sealed and registered before
\* it, and there is only one, whatever step the daemon crashed after and
\* whatever the scenario and the tables contain (execute_founding_mission).
THEOREM MissionsHaveTheirSource == Blank /\ [][Next]_vars => []MissionHasItsSource
<1>1. LedgerInv => MissionHasItsSource
  BY DEF LedgerInv
<1> QED BY <1>1, LedgerHolds, PTL

-----------------------------------------------------------------------------
(* The rows, from the tables.                                              *)

\* A row says what it was made from, and shares its identity with requests of
\* the scenario only if it was made from one.
RowFaithful(row) ==
    /\ RequestOf(row) = row.origin
    /\ row.id = row.origin.id
    /\ row.fingerprint = RequestBytes(row.origin)
    /\ row.origin \in Requests \/ \A q \in Requests : q.id # row.id

EventFaithful(event, i) ==
    /\ event.id = i
    /\ EventOf(event) = event.origin
    /\ event.fingerprint = EventBytes(event.origin)

FaithfulInv ==
    /\ \A i \in DOMAIN ledger.commands : RowFaithful(ledger.commands[i])
    /\ \A i \in DOMAIN ledger.events : EventFaithful(ledger.events[i], i)
    /\ aborts = 0 => Rebuilds(ledger)

\* What may be asked reads back and does not take another's identity.
LEMMA AskedReadsBack ==
  ASSUME ScenarioIsFaithful, NEW request, Asked(request)
  PROVE  /\ ReadsBack(request)
         /\ request \in Requests \/ \A q \in Requests : q.id # request.id
<1>1. CASE request \in Requests
  BY <1>1 DEF ScenarioIsFaithful
<1>2. CASE request \notin Requests
  <2>1. PICK r \in Requests :
          \/ request = ReceiptCommand(MissionDigest(r.body))
          \/ \E n : request = ObjectRequest(MissionDigest(r.body), n)
    BY <1>2 DEF Asked
  <2> DEFINE digest == MissionDigest(r.body)
  <2>2. /\ scenario.kind = "InstallFoundingMission"
        /\ Layout("RegisterContentObject") = <<N>>
        /\ CommandInserts["RegisterContentObject"] = <<1>>
        /\ CommandReads["RegisterContentObject"] = <<1>>
        /\ ~IsStudy("RegisterContentObject")
        /\ ReadsBack(ReceiptCommand(digest)) /\ ReadsBack(ObjectRequest(digest, 1))
        /\ \A q \in Requests :
              q.id # ReceiptCommand(digest).id /\ q.id # ObjectRequest(digest, 1).id
    <3>1. scenario.kind = "InstallFoundingMission"
      BY <1>2 DEF Asked
    <3>2. ReceiptCommand(digest) \in SealCommands /\ ObjectRequest(digest, 1) \in SealCommands
      BY <3>1 DEF SealCommands, ObjectRequest
    <3> HIDE DEF digest
    <3> QED BY <3>1, <3>2 DEF ScenarioIsFaithful
  <2> HIDE DEF digest
  <2>3. CASE request = ReceiptCommand(digest)
    BY <2>2, <2>3
  <2>4. CASE \E n : request = ObjectRequest(digest, n)
    <3>1. PICK n : request = ObjectRequest(digest, n)
      BY <2>4
    <3>2. ReadsBack(request)
      BY <2>2, <3>1, ObjectReadsBack
    <3>3. request.id = ObjectRequest(digest, 1).id
      BY <3>1 DEF ObjectRequest, Proper, Request
    <3> QED BY <2>2, <3>2, <3>3
  <2> QED BY <2>1, <2>3, <2>4 DEF digest
<1> QED BY <1>1, <1>2

\* The row and the event an execution writes are faithful.
LEMMA WrittenIsFaithful ==
  ASSUME ScenarioIsFaithful, NEW request, Asked(request), NEW l, NEW v
  PROVE  /\ RowFaithful(CommandRow(l, request, v))
         /\ RequestOf(CommandRow(l, request, v)) = request
         /\ Verdict(l, request) = "Accepted" =>
                EventFaithful(EventRow(l, request), Len(l.events) + 1)
<1>1. ReadsBack(request) /\ (request \in Requests \/ \A q \in Requests : q.id # request.id)
  BY AskedReadsBack
<1>2. /\ RequestOf(CommandRow(l, request, v)) = request
      /\ EventsOf(request.kind) # {} =>
            EventOf(EventRow(l, request)) = EventRow(l, request).origin
  BY <1>1, ReadsBackAlways
<1>3. /\ CommandRow(l, request, v).origin = request /\ CommandRow(l, request, v).id = request.id
      /\ CommandRow(l, request, v).fingerprint = RequestBytes(request)
  BY DEF CommandRow
<1>4. RowFaithful(CommandRow(l, request, v))
  BY <1>1, <1>2, <1>3 DEF RowFaithful
<1>5. ASSUME Verdict(l, request) = "Accepted" PROVE EventsOf(request.kind) # {}
  <2>1. EnvelopeVerdict(l, request) # "Accepted"
    BY DEF EnvelopeVerdict
  <2> QED BY <1>5, <2>1 DEF Verdict
<1>6. /\ EventRow(l, request).id = Len(l.events) + 1
      /\ EventRow(l, request).fingerprint = EventBytes(EventRow(l, request).origin)
  BY DEF EventRow
<1> QED BY <1>2, <1>4, <1>5, <1>6 DEF EventFaithful

\* Rows stay faithful, and the ledger keeps its history.
LEMMA FaithfulSteps ==
  ASSUME LedgerInv, ScenarioIsFaithful, FaithfulInv, [Next]_vars
  PROVE  FaithfulInv'
<1>1. StepKeeps
  BY StepsKeep
<1>2. scenario' = scenario /\ Requests' = Requests /\ IsLedger(ledger)
  BY <1>1, RequestsStay DEF StepKeeps, LedgerInv
<1>3. aborts \in Nat
  BY BoundsAreNatural DEF LedgerInv
<1>r. ASSUME NEW row, RowFaithful(row) PROVE RowFaithful(row)'
  BY <1>2, <1>r DEF RowFaithful
<1>h. ASSUME NEW l, l = ledger', Rebuilds(l) PROVE Rebuilds(ledger)'
  <2>1. PICK h : IsHistory(h, l)
    BY <1>h DEF Rebuilds
  <2>2. IsHistory(h, ledger)'
    BY <1>2, <1>h, <2>1, HistoryIsRepeatable
  <2> QED BY <2>2 DEF Rebuilds
<1>4. CASE ledger' = ledger /\ aborts' = aborts
  <2>1. aborts' = 0 => Rebuilds(ledger)'
    BY <1>h, <1>4 DEF FaithfulInv
  <2> QED BY <1>2, <1>4, <2>1 DEF FaithfulInv, RowFaithful, EventFaithful
<1>5. ASSUME NEW request, Asked(request), ledger' = Execute(ledger, request), aborts' = aborts
      PROVE  FaithfulInv'
  <2>1. CASE Known(ledger, request.id)
    BY <1>2, <1>4, <1>5, <2>1, Executed
  <2>2. CASE ~Known(ledger, request.id)
    <3> DEFINE v == Verdict(ledger, request)
               row == CommandRow(ledger, request, v)
               event == EventRow(ledger, request)
               len == Len(ledger.commands)
               many == Len(ledger.events)
    <3>1. Wrote(ledger, request, ledger')
      BY <1>2, <1>5, <2>2, Executed
    <3>2. RowFaithful(row) /\ RequestOf(row) = request
          /\ (v = "Accepted" => EventFaithful(event, many + 1))
      BY <1>5, WrittenIsFaithful
    <3>3. /\ len \in Nat /\ DOMAIN ledger.commands = 1..len
          /\ DOMAIN ledger'.commands = 1..(len + 1)
          /\ \A i \in 1..len : ledger'.commands[i] = ledger.commands[i]
          /\ ledger'.commands[len + 1] = row
      BY <1>2, <3>1, Appended DEF Wrote, IsLedger
    <3>4. /\ many \in Nat /\ DOMAIN ledger.events = 1..many
          /\ \/ ledger'.events = ledger.events
             \/ /\ v = "Accepted" /\ DOMAIN ledger'.events = 1..(many + 1)
                /\ \A i \in 1..many : ledger'.events[i] = ledger.events[i]
                /\ ledger'.events[many + 1] = event
      BY <1>2, <3>1, Appended DEF Wrote, IsLedger
    <3> HIDE DEF row, event, len, many, v
    <3>5. ASSUME NEW i \in DOMAIN ledger'.commands PROVE RowFaithful(ledger'.commands[i])
      <4>1. i = len + 1 \/ i \in 1..len
        BY <3>3
      <4> QED BY <3>2, <3>3, <4>1 DEF FaithfulInv
    <3>6. ASSUME NEW i \in DOMAIN ledger'.events PROVE EventFaithful(ledger'.events[i], i)
      <4>1. CASE ledger'.events = ledger.events
        BY <4>1 DEF FaithfulInv
      <4>2. CASE ledger'.events # ledger.events
        <5>1. i = many + 1 \/ i \in 1..many
          BY <3>4, <4>2
        <5> QED BY <3>2, <3>4, <4>2, <5>1 DEF FaithfulInv
      <4> QED BY <4>1, <4>2
    <3>7. ASSUME aborts' = 0 PROVE Rebuilds(ledger)'
      <4>1. Rebuilds(ledger)
        BY <1>5, <3>7 DEF FaithfulInv
      <4>2. RequestOf(CommandRow(ledger, request, Verdict(ledger, request))) = request
        BY <3>2 DEF row, v
      <4>3. Rebuilds(Execute(ledger, request))
        BY <1>2, <2>2, <4>1, <4>2, HistoryGrows
      <4>4. Rebuilds(ledger')
        BY <1>5, <4>3
      <4> QED BY <1>h, <4>4
    <3>8. (\A i \in DOMAIN ledger.commands : RowFaithful(ledger.commands[i]))'
      <4>1. \A row1 : RowFaithful(row1) => RowFaithful(row1)'
        BY <1>r
      <4> QED BY <3>5, <4>1
    <3> QED BY <3>6, <3>7, <3>8 DEF FaithfulInv, EventFaithful
  <2> QED BY <2>1, <2>2
<1>6. CASE /\ aborts' = aborts + 1
           /\ \E request \in Requests : ledger' = Abandon(ledger, request)
  <2>1. ledger'.commands = ledger.commands /\ ledger'.events = ledger.events /\ aborts' # 0
    BY <1>2, <1>3, <1>6, Abandoned
  <2> QED BY <1>2, <2>1 DEF FaithfulInv, RowFaithful, EventFaithful
<1> QED BY <1>1, <1>4, <1>5, <1>6 DEF StepKeeps

\* Whether the tables are faithful is decided with the scenario.
LEMMA FaithStays ==
  ASSUME ScenarioIsFaithful, scenario' = scenario
  PROVE  ScenarioIsFaithful'
<1>1. Requests' = Requests
  BY RequestsStay
<1>2. ASSUME NEW r PROVE ReadsBack(r)' <=> ReadsBack(r)
  BY DEF ReadsBack, EventRow, EventFor
<1>3. \A r : ReadsBack(r) => ReadsBack(r)'
  BY <1>2
<1>4. SealCommands' = SealCommands
  BY <1>1 DEF SealCommands
<1> QED BY <1>1, <1>3, <1>4 DEF ScenarioIsFaithful

\* In a scenario of any bodies every row and event is what it was written from,
\* and without aborts the ledger has a history, for any number of rows.
THEOREM FaithfulHolds == OpenSpec => [](FaithfulInv /\ ScenarioIsFaithful)
<1>0. IsScenario(scenario) => ScenarioIsFaithful
  BY ScenariosAreFaithful
<1>1. Blank => FaithfulInv
  <2> SUFFICES ASSUME Blank PROVE FaithfulInv
    OBVIOUS
  <2>1. ledger = EmptyLedger /\ ledger.commands = <<>> /\ ledger.events = <<>>
    BY InitialLedger DEF Blank
  <2>2. DOMAIN <<>> = {} /\ Len(<<>>) = 0
    OBVIOUS
  <2>3. IsHistory([n \in {0} |-> EmptyLedger], ledger)
    BY <2>1, <2>2 DEF IsHistory
  <2>4. Rebuilds(ledger)
    BY <2>3 DEF Rebuilds
  <2> QED BY <2>1, <2>2, <2>4 DEF FaithfulInv
<1>2. LedgerInv /\ ScenarioIsFaithful /\ [Next]_vars => ScenarioIsFaithful'
  <2> SUFFICES ASSUME LedgerInv, ScenarioIsFaithful, [Next]_vars PROVE ScenarioIsFaithful'
    OBVIOUS
  <2>1. scenario' = scenario
    BY StepsKeep DEF StepKeeps
  <2> QED BY <2>1, FaithStays
<1>3. LedgerInv /\ ScenarioIsFaithful /\ FaithfulInv /\ [Next]_vars => FaithfulInv'
  BY FaithfulSteps
<1> QED BY <1>0, <1>1, <1>2, <1>3, LedgerHolds, PTL DEF OpenSpec

\* In every scenario the model starts from, the requests and the events they
\* cause read back and their fingerprints differ: what insert_command_body,
\* decode_command_body and the fingerprints agree on for whole layouts.
THEOREM StartsAreFaithful == Spec => []StartsFaithful
<1>1. ScenarioIsFaithful => StartsFaithful
  BY DEF StartsFaithful
<1> QED BY <1>1, FaithfulHolds, SpecIsOpen, PTL

\* Every command row and every event row decodes to the value it was written
\* from, however many there are and whatever was rejected, repeated or aborted
\* (decode_command_body, decode_event_body), for bodies of any size.
THEOREM LedgersReadBack == OpenSpec => []LedgerReadsBack
<1>1. FaithfulInv => LedgerReadsBack
  BY DEF FaithfulInv, LedgerReadsBack, RowFaithful, EventFaithful
<1> QED BY <1>1, FaithfulHolds, PTL

\* A stored receipt answers only the very request that made its row: neither a
\* changed request nor the kernel's own commands are taken for it
\* (execute_in_transaction), for bodies of any size.
THEOREM ReceiptsAreTheirOwn == OpenSpec => []ReceiptIsForItsOwnRequest
<1>1. FaithfulInv /\ ScenarioIsFaithful => ReceiptIsForItsOwnRequest
  <2> SUFFICES ASSUME FaithfulInv, ScenarioIsFaithful, NEW request \in Requests,
                      Known(ledger, request.id),
                      RequestBytes(request) = RowOf(ledger, request.id).fingerprint
               PROVE  request = RowOf(ledger, request.id).origin
    BY DEF ReceiptIsForItsOwnRequest
  <2> DEFINE i == CHOOSE i \in DOMAIN ledger.commands : ledger.commands[i].id = request.id
             row == ledger.commands[i]
  <2>1. i \in DOMAIN ledger.commands /\ row.id = request.id
    BY DEF Known
  <2>2. RowOf(ledger, request.id) = row
    BY DEF RowOf
  <2> HIDE DEF i
  <2>3. RowFaithful(row)
    BY <2>1 DEF FaithfulInv
  <2>4. row.origin \in Requests /\ row.fingerprint = RequestBytes(row.origin)
    BY <2>1, <2>3 DEF RowFaithful
  <2> HIDE DEF row
  <2> QED BY <2>2, <2>4 DEF ScenarioIsFaithful
<1> QED BY <1>1, FaithfulHolds, PTL

\* As long as no transaction aborted, the daemon can restart from any ledger it
\* wrote: executing every row again, rejected ones too, rebuilds the ledger
\* itself (validate_replayed_materialized_state).
THEOREM RestartsArePossible == OpenSpec => []RestartIsPossible
<1>1. LedgerInv /\ FaithfulInv => RestartIsPossible
  <2> SUFFICES ASSUME LedgerInv, FaithfulInv, aborts = 0 PROVE Validates(ledger)
    BY DEF RestartIsPossible
  <2>1. Replay(ledger) = ledger
    BY ReplayFollowsHistory DEF LedgerInv, IsLedger, FaithfulInv
  <2>2. CommandsVerify(ledger)
    BY DEF FaithfulInv, RowFaithful, CommandsVerify
  <2>3. EventsVerify(ledger)
    BY DEF FaithfulInv, EventFaithful, EventsVerify
  <2> QED BY <2>1, <2>2, <2>3 DEF Validates
<1> QED BY <1>1, FaithfulHolds, LedgerHolds, PTL DEF OpenSpec

\* The model's own scenarios are among them.
COROLLARY LedgersOfTheModel ==
    Spec => [](TypeOK /\ MissionHasItsSource /\ LedgerReadsBack
               /\ ReceiptIsForItsOwnRequest /\ RestartIsPossible)
<1> QED BY SpecIsOpen, TypesHold, MissionsHaveTheirSource, LedgersReadBack,
           ReceiptsAreTheirOwn, RestartsArePossible, PTL DEF OpenSpec

=============================================================================
