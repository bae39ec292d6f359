-------------------------- MODULE CommandCodecProofs -------------------------
(***************************************************************************)
(* Proofs about the codecs: what a body is written to reads back, and no   *)
(* two requests and no two events share the bytes of their fingerprints,   *)
(* whatever the values of their fields are.                                *)
(*                                                                         *)
(* A row: every field has a column of its own, and a sum is read back from *)
(* the columns its alternatives fill.  A fingerprint: the bytes of a field *)
(* announce their own length, so a sequence of fields can be read in one   *)
(* way only, by induction over the fields.  That the tables of all kinds   *)
(* have the shape this needs is TablesAgree, which TLC evaluates: it is    *)
(* about finite tables and no value.                                       *)
(***************************************************************************)
EXTENDS CommandLedger, SequenceTheorems, WellFoundedInduction, TLAPS

-----------------------------------------------------------------------------
(* Sums.                                                                   *)

\* A shape fills columns of the sum's width, each column once.
Fits(shape, width) ==
    /\ shape \in Seq(1..width)
    /\ \A i, j \in DOMAIN shape : shape[i] = shape[j] => i = j

ShapesFit(shapes, width) ==
    /\ \A a \in DOMAIN shapes : a \in Nat /\ Fits(shapes[a], width)
    /\ \E a \in DOMAIN shapes : width \in Range(shapes[a])

\* The alternatives of an untagged sum fill different columns.
ShapesDiffer(shapes) ==
    \A a, b \in DOMAIN shapes : Range(shapes[a]) = Range(shapes[b]) => a = b

\* The shapes there are.
LEMMA ShapesThatFit ==
  ASSUME NEW w \in Nat
  PROVE  /\ Fits(<< >>, w)
         /\ \A c \in 1..w : Fits(<< c >>, w) /\ c \in Range(<< c >>)
         /\ \A c, d \in 1..w : c # d => Fits(<< c, d >>, w) /\ d \in Range(<< c, d >>)
         /\ w >= 3 => Fits(<< 1, 2, 3 >>, w)
         /\ w >= 4 => Fits(<< 1, 2, 3, 4 >>, w) /\ 4 \in Range(<< 1, 2, 3, 4 >>)
<1>1. Fits(<< >>, w)
  BY DEF Fits
<1>2. \A c \in 1..w : Fits(<< c >>, w) /\ c \in Range(<< c >>)
  <2> TAKE c \in 1..w
  <2>1. << c >> \in Seq(1..w) /\ DOMAIN << c >> = {1} /\ << c >>[1] = c
    OBVIOUS
  <2> QED BY <2>1 DEF Fits, Range
<1>3. \A c, d \in 1..w : c # d => Fits(<< c, d >>, w) /\ d \in Range(<< c, d >>)
  <2> SUFFICES ASSUME NEW c \in 1..w, NEW d \in 1..w, c # d
               PROVE  Fits(<< c, d >>, w) /\ d \in Range(<< c, d >>)
    OBVIOUS
  <2> DEFINE s == << c, d >>
  <2>1. s \in Seq(1..w) /\ DOMAIN s = {1, 2} /\ s[1] = c /\ s[2] = d
    OBVIOUS
  <2> HIDE DEF s
  <2>2. Fits(s, w) /\ d \in Range(s)
    BY <2>1 DEF Fits, Range
  <2> QED BY <2>2 DEF s
<1>4. w >= 3 => Fits(<< 1, 2, 3 >>, w)
  <2> SUFFICES ASSUME w >= 3 PROVE Fits(<< 1, 2, 3 >>, w)
    OBVIOUS
  <2> DEFINE s == << 1, 2, 3 >>
  <2>1. s \in Seq(1..w) /\ DOMAIN s = 1..3 /\ s[1] = 1 /\ s[2] = 2 /\ s[3] = 3
    OBVIOUS
  <2> HIDE DEF s
  <2>2. \A i \in 1..3 : s[i] = i
    BY <2>1
  <2>3. Fits(s, w)
    BY <2>1, <2>2 DEF Fits
  <2> QED BY <2>3 DEF s
<1>5. w >= 4 => Fits(<< 1, 2, 3, 4 >>, w) /\ 4 \in Range(<< 1, 2, 3, 4 >>)
  <2> SUFFICES ASSUME w >= 4 PROVE Fits(<< 1, 2, 3, 4 >>, w) /\ 4 \in Range(<< 1, 2, 3, 4 >>)
    OBVIOUS
  <2> DEFINE s == << 1, 2, 3, 4 >>
  <2>1. s \in Seq(1..w) /\ DOMAIN s = 1..4 /\ s[1] = 1 /\ s[2] = 2 /\ s[3] = 3 /\ s[4] = 4
    OBVIOUS
  <2> HIDE DEF s
  <2>2. \A i \in 1..4 : s[i] = i
    BY <2>1
  <2>3. Fits(s, w) /\ 4 \in Range(s)
    BY <2>1, <2>2 DEF Fits, Range
  <2> QED BY <2>3 DEF s
<1> QED BY <1>1, <1>2, <1>3, <1>4, <1>5

\* The sums' shapes, evaluated.
LEMMA SumsFit ==
  /\ DOMAIN SumColumns = {"CostObservation", "BudgetFreezeReason", "DirectChildWaitStatus",
        "ProcessSignalCause", "PiChildOwner", "GraphRevisionBody", "UsageFailure",
        "TerminalEvidence", "TranscriptReceipt", "DisposeBudget"}
  /\ \A sum \in DOMAIN SumColumns : \E n \in 1..4 : ShapesFit(SumColumns[sum], n)
  /\ \A sum \in Untagged : ShapesDiffer(SumColumns[sum])
<1>1. DOMAIN SumColumns = {"CostObservation", "BudgetFreezeReason", "DirectChildWaitStatus",
        "ProcessSignalCause", "PiChildOwner", "GraphRevisionBody", "UsageFailure",
        "TerminalEvidence", "TranscriptReceipt", "DisposeBudget"}
  BY DEF SumColumns
<1>a. /\ SumColumns["CostObservation"] = <<<<1>>, <<2>>, <<3>>>>
      /\ SumColumns["BudgetFreezeReason"] = <<<<1, 2>>, <<3>>, <<4>>>>
      /\ SumColumns["DirectChildWaitStatus"] = <<<<1>>, <<1>>, <<>>>>
      /\ SumColumns["ProcessSignalCause"] = <<<<1>>, <<>>>>
      /\ SumColumns["PiChildOwner"] = <<<<1>>, <<2>>, <<3>>>>
      /\ SumColumns["GraphRevisionBody"] = <<<<1>>, <<2>>>>
      /\ SumColumns["UsageFailure"] = <<<<1>>, <<2>>>>
      /\ SumColumns["TerminalEvidence"] = <<<<1, 2>>, <<2>>>>
      /\ SumColumns["TranscriptReceipt"] = <<<<1, 2, 3>>, <<1, 2, 3, 4>>, <<1>>>>
      /\ SumColumns["DisposeBudget"] = <<<<1>>, <<2, 3>>>>
  BY DEF SumColumns
<1>2. ShapesFit(<<<<1>>, <<2>>, <<3>>>>, 3)
  <2> DEFINE shapes == <<<<1>>, <<2>>, <<3>>>>
  <2>1. DOMAIN shapes = 1..3 /\ shapes[1] = <<1>> /\ shapes[2] = <<2>> /\ shapes[3] = <<3>>
    OBVIOUS
  <2>2. Fits(<<1>>, 3) /\ Fits(<<2>>, 3) /\ Fits(<<3>>, 3) /\ 3 \in Range(<<3>>)
    <3>1. 1 \in 1..3 /\ 2 \in 1..3 /\ 3 \in 1..3 /\ 3 \in Nat
      OBVIOUS
    <3> QED BY <3>1, ShapesThatFit
  <2> HIDE DEF shapes
  <2>3. ShapesFit(shapes, 3)
    BY <2>1, <2>2 DEF ShapesFit
  <2> QED BY <2>3 DEF shapes
<1>3. ShapesFit(<<<<1, 2>>, <<3>>, <<4>>>>, 4)
  <2> DEFINE shapes == <<<<1, 2>>, <<3>>, <<4>>>>
  <2>1. DOMAIN shapes = 1..3 /\ shapes[1] = <<1, 2>> /\ shapes[2] = <<3>> /\ shapes[3] = <<4>>
    OBVIOUS
  <2>2. Fits(<<1, 2>>, 4) /\ Fits(<<3>>, 4) /\ Fits(<<4>>, 4) /\ 4 \in Range(<<4>>)
    <3>1. 1 \in 1..4 /\ 2 \in 1..4 /\ 3 \in 1..4 /\ 4 \in 1..4 /\ 1 # 2 /\ 4 \in Nat
      OBVIOUS
    <3> QED BY <3>1, ShapesThatFit
  <2> HIDE DEF shapes
  <2>3. ShapesFit(shapes, 4)
    BY <2>1, <2>2 DEF ShapesFit
  <2> QED BY <2>3 DEF shapes
<1>4. ShapesFit(<<<<1>>, <<1>>, <<>>>>, 1)
  <2> DEFINE shapes == <<<<1>>, <<1>>, <<>>>>
  <2>1. DOMAIN shapes = 1..3 /\ shapes[1] = <<1>> /\ shapes[2] = <<1>> /\ shapes[3] = <<>>
    OBVIOUS
  <2>2. Fits(<<1>>, 1) /\ Fits(<<1>>, 1) /\ Fits(<<>>, 1) /\ 1 \in Range(<<1>>)
    <3>1. 1 \in 1..1 /\ 1 \in Nat
      OBVIOUS
    <3> QED BY <3>1, ShapesThatFit
  <2> HIDE DEF shapes
  <2>3. ShapesFit(shapes, 1)
    BY <2>1, <2>2 DEF ShapesFit
  <2> QED BY <2>3 DEF shapes
<1>5. ShapesFit(<<<<1>>, <<>>>>, 1)
  <2> DEFINE shapes == <<<<1>>, <<>>>>
  <2>1. DOMAIN shapes = 1..2 /\ shapes[1] = <<1>> /\ shapes[2] = <<>>
    OBVIOUS
  <2>2. Fits(<<1>>, 1) /\ Fits(<<>>, 1) /\ 1 \in Range(<<1>>)
    <3>1. 1 \in 1..1 /\ 1 \in Nat
      OBVIOUS
    <3> QED BY <3>1, ShapesThatFit
  <2> HIDE DEF shapes
  <2>3. ShapesFit(shapes, 1)
    BY <2>1, <2>2 DEF ShapesFit
  <2> QED BY <2>3 DEF shapes
<1>6. ShapesFit(<<<<1>>, <<2>>>>, 2)
  <2> DEFINE shapes == <<<<1>>, <<2>>>>
  <2>1. DOMAIN shapes = 1..2 /\ shapes[1] = <<1>> /\ shapes[2] = <<2>>
    OBVIOUS
  <2>2. Fits(<<1>>, 2) /\ Fits(<<2>>, 2) /\ 2 \in Range(<<2>>)
    <3>1. 1 \in 1..2 /\ 2 \in 1..2 /\ 2 \in Nat
      OBVIOUS
    <3> QED BY <3>1, ShapesThatFit
  <2> HIDE DEF shapes
  <2>3. ShapesFit(shapes, 2)
    BY <2>1, <2>2 DEF ShapesFit
  <2> QED BY <2>3 DEF shapes
<1>7. ShapesFit(<<<<1, 2>>, <<2>>>>, 2)
  <2> DEFINE shapes == <<<<1, 2>>, <<2>>>>
  <2>1. DOMAIN shapes = 1..2 /\ shapes[1] = <<1, 2>> /\ shapes[2] = <<2>>
    OBVIOUS
  <2>2. Fits(<<1, 2>>, 2) /\ Fits(<<2>>, 2) /\ 2 \in Range(<<2>>)
    <3>1. 1 \in 1..2 /\ 2 \in 1..2 /\ 1 # 2 /\ 2 \in Nat
      OBVIOUS
    <3> QED BY <3>1, ShapesThatFit
  <2> HIDE DEF shapes
  <2>3. ShapesFit(shapes, 2)
    BY <2>1, <2>2 DEF ShapesFit
  <2> QED BY <2>3 DEF shapes
<1>8. ShapesFit(<<<<1, 2, 3>>, <<1, 2, 3, 4>>, <<1>>>>, 4)
  <2> DEFINE shapes == <<<<1, 2, 3>>, <<1, 2, 3, 4>>, <<1>>>>
  <2>1. DOMAIN shapes = 1..3 /\ shapes[1] = <<1, 2, 3>> /\ shapes[2] = <<1, 2, 3, 4>> /\ shapes[3] = <<1>>
    OBVIOUS
  <2>2. Fits(<<1, 2, 3>>, 4) /\ Fits(<<1, 2, 3, 4>>, 4) /\ Fits(<<1>>, 4) /\ 4 \in Range(<<1, 2, 3, 4>>)
    <3>1. 1 \in 1..4 /\ 2 \in 1..4 /\ 3 \in 1..4 /\ 4 \in 1..4 /\ 4 \in Nat
      OBVIOUS
    <3> QED BY <3>1, ShapesThatFit
  <2> HIDE DEF shapes
  <2>3. ShapesFit(shapes, 4)
    BY <2>1, <2>2 DEF ShapesFit
  <2> QED BY <2>3 DEF shapes
<1>9. ShapesFit(<<<<1>>, <<2, 3>>>>, 3)
  <2> DEFINE shapes == <<<<1>>, <<2, 3>>>>
  <2>1. DOMAIN shapes = 1..2 /\ shapes[1] = <<1>> /\ shapes[2] = <<2, 3>>
    OBVIOUS
  <2>2. Fits(<<1>>, 3) /\ Fits(<<2, 3>>, 3) /\ 3 \in Range(<<2, 3>>)
    <3>1. 1 \in 1..3 /\ 2 \in 1..3 /\ 3 \in 1..3 /\ 3 \in Nat
      OBVIOUS
    <3> QED BY <3>1, ShapesThatFit
  <2> HIDE DEF shapes
  <2>3. ShapesFit(shapes, 3)
    BY <2>1, <2>2 DEF ShapesFit
  <2> QED BY <2>3 DEF shapes
<1>10. ShapesDiffer(<<<<1>>, <<2>>, <<3>>>>) /\ ShapesDiffer(<<<<1>>, <<2>>>>)
  BY DEF ShapesDiffer, Range
<1>11. ASSUME NEW sum \in DOMAIN SumColumns PROVE \E n \in 1..4 : ShapesFit(SumColumns[sum], n)
  <2>1. 1 \in 1..4 /\ 2 \in 1..4 /\ 3 \in 1..4 /\ 4 \in 1..4
    OBVIOUS
  <2> HIDE DEF SumColumns
  <2>2. CASE sum \in {"CostObservation", "BudgetFreezeReason", "DirectChildWaitStatus",
                      "ProcessSignalCause", "PiChildOwner"}
    BY <1>a, <1>2, <1>3, <1>4, <1>5, <2>1, <2>2, Zenon
  <2>3. CASE sum \in {"GraphRevisionBody", "UsageFailure", "TerminalEvidence",
                      "TranscriptReceipt", "DisposeBudget"}
    BY <1>a, <1>6, <1>7, <1>8, <1>9, <2>1, <2>3, Zenon
  <2> QED BY <1>1, <2>2, <2>3
<1>12. \A sum \in Untagged : ShapesDiffer(SumColumns[sum])
  BY <1>a, <1>10, Zenon DEF Untagged
<1> QED BY <1>1, <1>11, <1>12

\* A function on the first numbers is a sequence.
LEMMA IsSequence ==
  ASSUME NEW S, NEW n \in Nat, NEW f, f = [i \in 1..n |-> f[i]], \A i \in 1..n : f[i] \in S
  PROVE  f \in Seq(S) /\ Len(f) = n /\ DOMAIN f = 1..n
<1>1. f \in [1..n -> S]
  OBVIOUS
<1>2. f \in Seq(S)
  BY <1>1, SeqDef
<1>3. DOMAIN f = 1..n
  BY <1>1
<1> QED BY <1>2, <1>3

\* What a sequence is made of.
LEMMA Elements ==
  ASSUME NEW S, NEW s \in Seq(S)
  PROVE  /\ Len(s) \in Nat /\ DOMAIN s = 1..Len(s) /\ s = [i \in DOMAIN s |-> s[i]]
         /\ \A i \in DOMAIN s : s[i] \in S
         /\ Range(s) \subseteq S
<1>1. /\ Len(s) \in Nat /\ DOMAIN s = 1..Len(s) /\ s = [i \in DOMAIN s |-> s[i]]
      /\ \A i \in DOMAIN s : s[i] \in S
  OBVIOUS
<1> QED BY <1>1 DEF Range

\* A sum's columns are of its width.
LEMMA WidthsFit ==
  ASSUME NEW sum \in DOMAIN SumColumns
  PROVE  /\ Width(sum) \in Nat
         /\ \A a \in DOMAIN SumColumns[sum] : a \in Nat /\ Fits(SumColumns[sum][a], Width(sum))
<1> DEFINE shapes == SumColumns[sum]
           P(n) == /\ \A a \in DOMAIN shapes : Range(shapes[a]) \subseteq 1..n
                   /\ \E a \in DOMAIN shapes : n = 0 \/ n \in Range(shapes[a])
<1>1. PICK n \in 1..4 : ShapesFit(shapes, n)
  BY SumsFit
<1> HIDE DEF shapes
<1>2. \A a \in DOMAIN shapes : Range(shapes[a]) \subseteq 1..n
  <2> SUFFICES ASSUME NEW a \in DOMAIN shapes, NEW i \in DOMAIN shapes[a] PROVE shapes[a][i] \in 1..n
    BY DEF Range
  <2>1. shapes[a] \in Seq(1..n)
    BY <1>1 DEF ShapesFit, Fits
  <2> QED BY <2>1
<1>3. n \in 0..4 /\ P(n)
  BY <1>1, <1>2 DEF ShapesFit
<1>4. Width(sum) = CHOOSE m \in 0..4 : P(m)
  BY DEF Width, shapes
<1>5. Width(sum) \in 0..4 /\ P(Width(sum))
  <2> HIDE DEF P
  <2> QED BY <1>3, <1>4
<1>6. ASSUME NEW a \in DOMAIN shapes PROVE a \in Nat /\ Fits(shapes[a], Width(sum))
  <2>1. a \in Nat /\ Fits(shapes[a], n)
    BY <1>1 DEF ShapesFit
  <2>2. \A i \in DOMAIN shapes[a] : shapes[a][i] \in 1..Width(sum)
    BY <1>5 DEF Range
  <2>3. shapes[a] \in Seq(1..n)
    BY <2>1 DEF Fits
  <2>4. shapes[a] \in Seq(1..Width(sum))
    <3>1. Len(shapes[a]) \in Nat /\ DOMAIN shapes[a] = 1..Len(shapes[a])
          /\ shapes[a] = [i \in 1..Len(shapes[a]) |-> shapes[a][i]]
      BY <2>3
    <3> QED BY <2>2, <3>1, IsSequence
  <2> QED BY <2>1, <2>4 DEF Fits
<1> QED BY <1>5, <1>6 DEF shapes

\* A value of a sum is read back from the columns it is written to.
LEMMA SumReadsBack ==
  ASSUME NEW sum \in DOMAIN SumColumns, NEW value \in Seq(Int), value # << >>,
         value[1] \in DOMAIN SumColumns[sum],
         Len(value) = 1 + Len(SumColumns[sum][value[1]])
  PROVE  SumFromColumns(sum, SumToColumns(sum, value)) = value
<1> DEFINE a == Head(value)
           shape == SumColumns[sum][a]
           w == Width(sum)
           filled == [c \in 1..w |-> IF c \in Range(shape)
                                     THEN << Tail(value)[CHOOSE i \in DOMAIN shape : shape[i] = c] >>
                                     ELSE NULL]
           columns == IF sum \in Untagged THEN filled ELSE << << a >> >> \o filled
           payload == IF sum \in Untagged THEN columns ELSE Tail(columns)
           matches(b) == /\ sum \notin Untagged => columns[1] = << b >>
                         /\ \A c \in 1..w : payload[c] # NULL <=> c \in Range(SumColumns[sum][b])
<1>0. a = value[1]
  OBVIOUS
<1>1. w \in Nat /\ \A b \in DOMAIN SumColumns[sum] : b \in Nat /\ Fits(SumColumns[sum][b], w)
  BY WidthsFit
<1>2. shape \in Seq(1..w) /\ \A i, j \in DOMAIN shape : shape[i] = shape[j] => i = j
  BY <1>0, <1>1 DEF Fits
<1>3. Head(value) = a /\ Tail(value) \in Seq(Int) /\ Len(Tail(value)) = Len(shape)
      /\ \A i \in 1..Len(shape) : Tail(value)[i] = value[i + 1]
  BY <1>0
<1>4. columns = SumToColumns(sum, value)
  BY DEF SumToColumns
<1> HIDE DEF shape, w
<1>5. filled \in Seq({NULL} \cup {<< x >> : x \in Int}) /\ Len(filled) = w /\ DOMAIN filled = 1..w
  <2>1. ASSUME NEW c \in 1..w PROVE filled[c] \in {NULL} \cup {<< x >> : x \in Int}
    <3>1. CASE c \in Range(shape)
      <4> DEFINE j == CHOOSE i \in DOMAIN shape : shape[i] = c
      <4>1. j \in DOMAIN shape
        BY <3>1 DEF Range
      <4> HIDE DEF j
      <4>2. Tail(value)[j] \in Int
        BY <1>2, <1>3, <4>1
      <4>3. filled[c] = << Tail(value)[j] >>
        BY <3>1 DEF j
      <4> HIDE DEF filled
      <4> QED BY <4>2, <4>3
    <3>2. CASE c \notin Range(shape)
      BY <3>2
    <3> QED BY <3>1, <3>2
  <2>2. filled = [c \in 1..w |-> filled[c]]
    <3> DEFINE e(c) == IF c \in Range(shape)
                       THEN << Tail(value)[CHOOSE i \in DOMAIN shape : shape[i] = c] >> ELSE NULL
    <3>1. filled = [c \in 1..w |-> e(c)]
      OBVIOUS
    <3> HIDE DEF e, filled
    <3> QED BY <3>1
  <2>3. w \in Nat
    BY <1>1 DEF w
  <2> HIDE DEF filled
  <2> QED BY <2>1, <2>2, <2>3, IsSequence, SMTT(30)
<1>6. \A c \in 1..w : filled[c] # NULL <=> c \in Range(shape)
  BY DEF NULL
<1>7. \A i \in DOMAIN shape : filled[shape[i]] = << Tail(value)[i] >>
  <2> TAKE i \in DOMAIN shape
  <2>1. shape[i] \in 1..w /\ shape[i] \in Range(shape)
    <3>1. shape[i] \in 1..w
      BY <1>2, Elements
    <3> QED BY <3>1 DEF Range
  <2>2. (CHOOSE j \in DOMAIN shape : shape[j] = shape[i]) = i
    BY <1>2
  <2> QED BY <2>1, <2>2
<1> HIDE DEF filled
<1>8. payload = filled /\ (sum \notin Untagged => columns[1] = << a >>)
  <2>1. CASE sum \in Untagged
    BY <2>1
  <2>2. CASE sum \notin Untagged
    <3> DEFINE S == {NULL} \cup {<< x >> : x \in Int}
    <3>1. << a >> \in S /\ filled \in Seq(S)
      BY <1>5
    <3> HIDE DEF S, a
    <3>2. columns = << << a >> >> \o filled /\ payload = Tail(columns)
      BY <2>2
    <3>3. Tail(<< << a >> >> \o filled) = filled /\ (<< << a >> >> \o filled)[1] = << a >>
      BY <3>1, SMTT(30)
    <3> QED BY <3>2, <3>3
  <2> QED BY <2>1, <2>2
<1>9. matches(a)
  BY <1>6, <1>8 DEF shape
<1>10. ASSUME NEW b \in DOMAIN SumColumns[sum], matches(b) PROVE b = a
  <2>1. CASE sum \notin Untagged
    <3>1. << b >> = << a >>
      BY <1>8, <1>10, <2>1
    <3> HIDE DEF a
    <3> QED BY <3>1
  <2>2. CASE sum \in Untagged
    <3>1. \A c \in 1..w : c \in Range(shape) <=> c \in Range(SumColumns[sum][b])
      BY <1>6, <1>8, <1>10
    <3>2. Range(shape) \subseteq 1..w /\ Range(SumColumns[sum][b]) \subseteq 1..w
      <4>1. SumColumns[sum][b] \in Seq(1..w)
        BY <1>1 DEF Fits
      <4> HIDE DEF columns, payload
      <4> QED BY <1>2, <4>1, Elements
    <3>3. Range(SumColumns[sum][a]) = Range(SumColumns[sum][b])
      BY <3>1, <3>2 DEF shape
    <3> QED BY <2>2, <3>3, SumsFit DEF ShapesDiffer
  <2> QED BY <2>1, <2>2
<1> DEFINE alternatives == {b \in DOMAIN SumColumns[sum] : matches(b)}
<1>11. alternatives = {a}
  <2> HIDE DEF matches
  <2> QED BY <1>9, <1>10
<1>12. SumFromColumns(sum, columns) =
          LET alt == CHOOSE b \in alternatives : TRUE
          IN  IF alternatives = {} THEN Corrupt
              ELSE << alt >> \o [i \in DOMAIN SumColumns[sum][alt] |-> payload[SumColumns[sum][alt][i]][1]]
  BY DEF SumFromColumns, w
<1> HIDE DEF alternatives
<1>13. (CHOOSE b \in alternatives : TRUE) = a
  BY <1>11
<1>14. SumFromColumns(sum, columns) = << a >> \o [i \in DOMAIN shape |-> filled[shape[i]][1]]
  <2> HIDE DEF columns, payload
  <2> QED BY <1>8, <1>11, <1>12, <1>13 DEF shape
<1>15. [i \in DOMAIN shape |-> filled[shape[i]][1]] = Tail(value)
  <2>1. [i \in DOMAIN shape |-> filled[shape[i]][1]] = [i \in DOMAIN shape |-> Tail(value)[i]]
    <3>1. \A i \in DOMAIN shape : filled[shape[i]][1] = Tail(value)[i]
      <4> TAKE i \in DOMAIN shape
      <4>1. filled[shape[i]] = << Tail(value)[i] >>
        BY <1>7
      <4>2. \A x : << x >>[1] = x
        OBVIOUS
      <4> HIDE DEF a
      <4> QED BY <4>1, <4>2, Zenon
    <3> HIDE DEF a
    <3> QED BY <3>1
  <2>2. DOMAIN shape = 1..Len(shape) /\ Len(shape) \in Nat
    BY <1>2
  <2>3. DOMAIN Tail(value) = DOMAIN shape /\ Tail(value) = [i \in DOMAIN Tail(value) |-> Tail(value)[i]]
    BY <1>3, <2>2, Elements, ZenonT(40)
  <2> HIDE DEF a
  <2> QED BY <2>1, <2>3
<1>16. << Head(value) >> \o Tail(value) = value
  OBVIOUS
<1> QED BY <1>3, <1>4, <1>14, <1>15, <1>16

-----------------------------------------------------------------------------
(* Rows.                                                                   *)

\* None of the plain types is a sum.
LEMMA PlainTypes ==
  N \notin DOMAIN SumColumns /\ T \notin DOMAIN SumColumns /\ O \notin DOMAIN SumColumns
  /\ N # T /\ N # O /\ T # O
BY SumsFit DEF N, T, O

\* A value of any type is read back from the columns it is written to.
LEMMA FieldReadsBack ==
  ASSUME NEW type, NEW value, WellTyped(type, value)
  PROVE  FromColumns(type, ToColumns(type, value)) = value
<1>0. value \in Seq(Int)
  BY DEF WellTyped
<1>1. CASE type \in DOMAIN SumColumns
  <2>1. type # N /\ type # T /\ type # O
    BY <1>1, PlainTypes
  <2>2. /\ value # <<>> /\ value[1] \in DOMAIN SumColumns[type]
        /\ Len(value) = 1 + Len(SumColumns[type][value[1]])
    BY <1>1, <2>1 DEF WellTyped
  <2>3. SumFromColumns(type, SumToColumns(type, value)) = value
    BY <1>0, <1>1, <2>2, SumReadsBack
  <2> QED BY <1>1, <2>1, <2>3 DEF FromColumns, ToColumns
<1>2. CASE type \notin DOMAIN SumColumns
  <2>1. ToColumns(type, value) = << value >> /\ << value >>[1] = value
    BY <1>2 DEF ToColumns
  <2>2. CASE type \in {N, T}
    <3>1. value # << >>
      BY <1>0, <1>2, <2>2, PlainTypes DEF WellTyped
    <3>2. FromColumns(type, << value >>) = IF << value >>[1] = NULL THEN Corrupt ELSE << value >>[1]
      BY <1>2, <2>2, PlainTypes DEF FromColumns
    <3> QED BY <2>1, <3>1, <3>2 DEF NULL
  <2>3. CASE type = O
    <3>1. type \notin {N, T}
      BY <2>3, PlainTypes
    <3>2. FromColumns(type, << value >>) = << value >>[1]
      BY <1>2, <2>3, <3>1 DEF FromColumns
    <3> QED BY <2>1, <3>2
  <2>4. CASE type \notin {N, T, O}
    <3>1. Len(value) = 1 /\ value[1] \in StoredCodes[type]
      BY <1>2, <2>4 DEF WellTyped
    <3>2. FromColumns(type, << value >>) =
             IF << value >>[1] # NULL /\ << value >>[1][1] \in StoredCodes[type]
             THEN << value >>[1] ELSE Corrupt
      BY <1>2, <2>4 DEF FromColumns
    <3>3. value # NULL
      BY <1>0, <3>1 DEF NULL
    <3> QED BY <2>1, <3>1, <3>2, <3>3
  <2> QED BY <2>2, <2>3, <2>4
<1> QED BY <1>1, <1>2

\* A body whose fields are read from the columns they were written to, each from
\* its own, is read back, whatever its values are (insert_command_body and
\* decode_command_body, insert_event_body and decode_event_body).
THEOREM BodiesReadBack ==
  ASSUME NEW layout, NEW columns, AreColumns(layout, columns), NEW body, IsBody(layout, body)
  PROVE  FromRow(layout, columns, ToRow(layout, columns, body)) = body
<1> DEFINE row == ToRow(layout, columns, body)
<1>1. ASSUME NEW f \in DOMAIN layout
      PROVE  columns[f] \in DOMAIN row /\ row[columns[f]] = ToColumns(layout[f], body[f])
  <2>1. columns[f] \in Range(columns)
    BY DEF AreColumns, Range
  <2>2. (CHOOSE g \in DOMAIN columns : columns[g] = columns[f]) = f
    BY DEF AreColumns
  <2> QED BY <2>1, <2>2 DEF ToRow
<1> HIDE DEF row
<1>2. \A f \in DOMAIN layout : FromColumns(layout[f], row[columns[f]]) = body[f]
  BY <1>1, FieldReadsBack DEF IsBody
<1>3. FromRow(layout, columns, row) = [f \in DOMAIN layout |-> body[f]]
  BY <1>1, <1>2 DEF FromRow
<1> QED BY <1>3 DEF row, IsBody

-----------------------------------------------------------------------------
(* Fingerprints.                                                           *)

\* Two texts that are equal start with equal parts of the same length.
LEMMA SameLength ==
  ASSUME NEW S, NEW s \in Seq(S), NEW t \in Seq(S), NEW x \in Seq(S), NEW y \in Seq(S),
         s \o x = t \o y, Len(s) = Len(t)
  PROVE  s = t /\ x = y
<1>1. /\ Len(s \o x) = Len(s) + Len(x) /\ Len(t \o y) = Len(t) + Len(y)
      /\ \A i \in 1..Len(s) + Len(x) :
            (s \o x)[i] = IF i <= Len(s) THEN s[i] ELSE x[i - Len(s)]
      /\ \A i \in 1..Len(t) + Len(y) :
            (t \o y)[i] = IF i <= Len(t) THEN t[i] ELSE y[i - Len(t)]
  BY ConcatProperties
<1>2. Len(s) \in Nat /\ Len(x) \in Nat /\ Len(y) \in Nat /\ Len(x) = Len(y)
  BY <1>1
<1>3. ASSUME NEW i \in 1..Len(s) PROVE s[i] = t[i]
  <2>1. i \in 1..Len(s) + Len(x) /\ i <= Len(s)
    BY <1>2
  <2> QED BY <1>1, <1>2, <2>1
<1>4. ASSUME NEW i \in 1..Len(x) PROVE x[i] = y[i]
  <2>1. /\ i + Len(s) \in 1..Len(s) + Len(x) /\ ~(i + Len(s) <= Len(s))
        /\ (i + Len(s)) - Len(s) = i
    BY <1>2
  <2> QED BY <1>1, <1>2, <2>1
<1> QED BY <1>2, <1>3, <1>4, SeqEqual

\* The cause of a signal: put_process_signal_cause writes a zero for the second
\* alternative.
LEMMA CauseBytes ==
  ASSUME NEW x, WellTyped("ProcessSignalCause", x)
  PROVE  /\ x \in Seq(Int)
         /\ \/ x[1] = 1 /\ Len(x) = 2 /\ Bytes("ProcessSignalCause", x) = x
            \/ x = << 2 >> /\ Bytes("ProcessSignalCause", x) = << 2, 0 >>
<1> DEFINE type == "ProcessSignalCause"
<1>1. type # T /\ type # O /\ type # N /\ type \in DOMAIN SumColumns
  BY PlainTypes, SumsFit DEF N, T, O
<1>2. x \in Seq(Int) /\ x # << >> /\ x[1] \in DOMAIN SumColumns[type]
      /\ Len(x) = 1 + Len(SumColumns[type][x[1]])
  BY <1>1 DEF WellTyped
<1>3. SumColumns[type] = << << 1 >>, << >> >>
  BY DEF SumColumns
<1>4. DOMAIN << << 1 >>, << >> >> = {1, 2} /\ Len(<< 1 >>) = 1 /\ Len(<< >>) = 0
      /\ << << 1 >>, << >> >>[1] = << 1 >> /\ << << 1 >>, << >> >>[2] = << >>
  OBVIOUS
<1> DEFINE last == IF x = << 2 >> THEN << 0 >> ELSE << >>
<1>5. Bytes(type, x) = x \o last
  BY <1>1 DEF Bytes
<1>6. x[1] \in {1, 2}
  BY <1>2, <1>3, <1>4
<1>7. CASE x[1] = 1
  <2>1. Len(x) = 2
    BY <1>2, <1>3, <1>4, <1>7
  <2>2. x # << 2 >>
    BY <1>7
  <2>3. last = << >>
    BY <2>2
  <2>4. x \o << >> = x
    BY <1>2
  <2> QED BY <1>2, <1>5, <1>7, <2>1, <2>3, <2>4
<1>8. CASE x[1] = 2
  <2>1. Len(x) = 1
    BY <1>2, <1>3, <1>4, <1>8
  <2>2. x = << 2 >>
    BY <1>2, <1>8, <2>1
  <2>3. last = << 0 >>
    BY <2>2
  <2>4. << 2 >> \o << 0 >> = << 2, 0 >>
    <3>1. /\ << 2 >> \in Seq(Int) /\ << 0 >> \in Seq(Int) /\ << 2, 0 >> \in Seq(Int)
          /\ Len(<< 2 >>) = 1 /\ Len(<< 0 >>) = 1 /\ Len(<< 2, 0 >>) = 2
          /\ << 2, 0 >>[1] = 2 /\ << 2, 0 >>[2] = 0 /\ << 2 >>[1] = 2 /\ << 0 >>[1] = 0
      OBVIOUS
    <3> DEFINE u == << 2 >> \o << 0 >>
    <3>2. u \in Seq(Int) /\ Len(u) = 2 /\ u[1] = 2 /\ u[2] = 0
      BY <3>1, ConcatProperties
    <3> HIDE DEF u
    <3>3. \A i \in 1..2 : u[i] = << 2, 0 >>[i]
      BY <3>1, <3>2
    <3>4. u = << 2, 0 >>
      BY <3>1, <3>2, <3>3, SeqEqual
    <3> QED BY <3>4 DEF u
  <2> HIDE DEF last
  <2> QED BY <1>2, <1>5, <2>2, <2>3, <2>4
<1> QED BY <1>6, <1>7, <1>8

\* The length of a field's bytes, told from the first of them.
Announced(type, first) ==
    CASE type = T -> 1 + first
      [] type = O -> 1 + first
      [] type = "ProcessSignalCause" -> 2
      [] type \in DOMAIN SumColumns \ {"ProcessSignalCause"} -> 1 + Len(SumColumns[type][first])
      [] OTHER -> 1

\* The bytes of a field announce their length, and tell its values apart.
LEMMA BytesAnnounced ==
  ASSUME NEW type, NEW value, WellTyped(type, value)
  PROVE  /\ Bytes(type, value) \in Seq(Int) /\ Bytes(type, value) # << >>
         /\ Len(Bytes(type, value)) = Announced(type, Bytes(type, value)[1])
<1>0. value \in Seq(Int)
  BY DEF WellTyped
<1>s. "ProcessSignalCause" \in DOMAIN SumColumns
  BY SumsFit
<1>1. CASE type = T
  <2>1. Bytes(type, value) = << Len(value) >> \o value
    BY <1>1, <1>s, PlainTypes DEF Bytes
  <2>2. Announced(type, Len(value)) = 1 + Len(value)
    BY <1>1, <1>s, PlainTypes DEF Announced
  <2> QED BY <1>0, <2>1, <2>2
<1>2. CASE type = O
  <2>1. Bytes(type, value) = IF value = << >> THEN << 0 >> ELSE << 1 >> \o value
    BY <1>2, <1>s, PlainTypes DEF Bytes
  <2>2. \A n : Announced(type, n) = 1 + n
    BY <1>2, <1>s, PlainTypes DEF Announced
  <2>3. Len(value) <= 1
    BY <1>2, PlainTypes DEF WellTyped
  <2> QED BY <1>0, <2>1, <2>2, <2>3
<1>3. CASE type = "ProcessSignalCause"
  <2>1. type # T /\ type # O /\ type # N /\ type \in DOMAIN SumColumns
    BY <1>3, <1>s, PlainTypes
  <2>3. \A n : Announced(type, n) = 2
    BY <1>3, <2>1 DEF Announced
  <2>4. << 2, 0 >> \in Seq(Int) /\ Len(<< 2, 0 >>) = 2 /\ << 2, 0 >> # << >>
    OBVIOUS
  <2>5. CASE value # << 2 >>
    <3>1. Len(value) = 2 /\ Bytes(type, value) = value
      BY <1>3, <2>5, CauseBytes
    <3>2. value # << >>
      BY <1>0, <3>1, SMTT(30)
    <3> QED BY <1>0, <2>3, <3>1, <3>2
  <2>6. CASE value = << 2 >>
    <3>1. Bytes(type, value) = << 2, 0 >>
      <4>1. << 2 >>[1] # 1
        OBVIOUS
      <4> QED BY <1>3, <2>6, <4>1, CauseBytes
    <3> QED BY <2>3, <2>4, <3>1
  <2> QED BY <2>5, <2>6
<1>4. CASE type \notin {T, O, "ProcessSignalCause"}
  <2>1. Bytes(type, value) = value
    BY <1>4 DEF Bytes
  <2>2. CASE type \in DOMAIN SumColumns
    <3>1. /\ value # << >> /\ Len(value) = 1 + Len(SumColumns[type][value[1]])
      BY <1>4, <2>2, PlainTypes DEF WellTyped
    <3>2. Announced(type, value[1]) = 1 + Len(SumColumns[type][value[1]])
      BY <1>4, <2>2 DEF Announced
    <3> QED BY <1>0, <2>1, <3>1, <3>2
  <2>3. CASE type \notin DOMAIN SumColumns
    <3>1. Len(value) = 1
      BY <1>4, <2>3 DEF WellTyped
    <3>2. Announced(type, value[1]) = 1
      BY <1>4, <2>3 DEF Announced
    <3>3. value # << >>
      BY <1>0, <3>1
    <3> QED BY <1>0, <2>1, <3>1, <3>2, <3>3
  <2> QED BY <2>2, <2>3
<1> QED BY <1>1, <1>2, <1>3, <1>4

\* No two values of a type have the same bytes.
LEMMA BytesDiffer ==
  ASSUME NEW type, NEW v, NEW w, WellTyped(type, v), WellTyped(type, w),
         Bytes(type, v) = Bytes(type, w)
  PROVE  v = w
<1>0. v \in Seq(Int) /\ w \in Seq(Int)
  BY DEF WellTyped
<1>s. "ProcessSignalCause" \in DOMAIN SumColumns
  BY SumsFit
<1>c. ASSUME NEW a \in Int, NEW b \in Int, << a >> \o v = << b >> \o w PROVE v = w
  <2>1. << a >> \in Seq(Int) /\ << b >> \in Seq(Int) /\ Len(<< a >>) = 1 /\ Len(<< b >>) = 1
    OBVIOUS
  <2> QED BY <1>0, <1>c, <2>1, SameLength
<1>1. CASE type = T
  <2>1. \A x : Bytes(type, x) = << Len(x) >> \o x
    BY <1>1, <1>s, PlainTypes DEF Bytes
  <2>2. Len(v) \in Int /\ Len(w) \in Int
    BY <1>0
  <2> QED BY <1>c, <2>1, <2>2
<1>2. CASE type = O
  <2>1. \A x : Bytes(type, x) = IF x = << >> THEN << 0 >> ELSE << 1 >> \o x
    BY <1>2, <1>s, PlainTypes DEF Bytes
  <2>2. \A x \in Seq(Int) : (<< 1 >> \o x)[1] = 1
    OBVIOUS
  <2>3. << 0 >>[1] = 0
    OBVIOUS
  <2>4. CASE v = << >> /\ w # << >>
    <3>1. Bytes(type, v) = << 0 >> /\ Bytes(type, w) = << 1 >> \o w
      BY <2>1, <2>4
    <3>2. Bytes(type, v)[1] = 0 /\ Bytes(type, w)[1] = 1
      BY <1>0, <2>2, <2>3, <3>1
    <3> QED BY <3>2
  <2>5. CASE v # << >> /\ w = << >>
    <3>1. Bytes(type, w) = << 0 >> /\ Bytes(type, v) = << 1 >> \o v
      BY <2>1, <2>5
    <3>2. Bytes(type, w)[1] = 0 /\ Bytes(type, v)[1] = 1
      BY <1>0, <2>2, <2>3, <3>1
    <3> QED BY <3>2
  <2>6. CASE v # << >> /\ w # << >>
    <3>1. Bytes(type, w) = << 1 >> \o w /\ Bytes(type, v) = << 1 >> \o v
      BY <2>1, <2>6
    <3> QED BY <1>c, <3>1
  <2> QED BY <2>4, <2>5, <2>6
<1>3. CASE type = "ProcessSignalCause"
  <2>1. << 2, 0 >>[1] = 2
    OBVIOUS
  <2> QED BY <1>3, <2>1, CauseBytes
<1>4. CASE type \notin {T, O, "ProcessSignalCause"}
  <2>1. \A x : Bytes(type, x) = x
    BY <1>4 DEF Bytes
  <2> QED BY <2>1
<1> QED BY <1>1, <1>2, <1>3, <1>4

\* Texts that start with a and with b, which stand for v and for w, are equal
\* only if v and w are, and the rests.
ReadOneWay(a, b, v, w) ==
    /\ a \in Seq(Int) /\ b \in Seq(Int)
    /\ \A x, y \in Seq(Int) : a \o x = b \o y => x = y /\ v = w

\* The bytes of a field can be read in one way.
LEMMA FieldsRead ==
  ASSUME NEW type, NEW v, NEW w, WellTyped(type, v), WellTyped(type, w)
  PROVE  ReadOneWay(Bytes(type, v), Bytes(type, w), v, w)
<1> DEFINE s == Bytes(type, v)
           t == Bytes(type, w)
<1>1. s \in Seq(Int) /\ s # << >> /\ Len(s) = Announced(type, s[1])
  BY BytesAnnounced
<1>2. t \in Seq(Int) /\ t # << >> /\ Len(t) = Announced(type, t[1])
  BY BytesAnnounced
<1>3. \A u \in Seq(Int) : \A z \in Seq(Int) : u # << >> => (u \o z)[1] = u[1]
  <2> TAKE u \in Seq(Int)
  <2> TAKE z \in Seq(Int)
  <2> HAVE u # << >>
  <2>1. Len(u) \in Nat /\ Len(u) # 0 /\ Len(z) \in Nat
    OBVIOUS
  <2>2. 1 \in 1..(Len(u) + Len(z)) /\ 1 <= Len(u)
    BY <2>1
  <2> QED BY <2>2, ConcatProperties
<1>d. s = t => v = w
  BY BytesDiffer
<1> HIDE DEF s, t
<1>4. ASSUME NEW x \in Seq(Int), NEW y \in Seq(Int), s \o x = t \o y PROVE x = y /\ v = w
  <2>1. s[1] = t[1]
    BY <1>1, <1>2, <1>3, <1>4
  <2>2. s = t /\ x = y
    BY <1>1, <1>2, <1>4, <2>1, SameLength
  <2> QED BY <1>d, <2>2
<1>5. ReadOneWay(s, t, v, w)
  BY <1>1, <1>2, <1>4 DEF ReadOneWay
<1> QED BY <1>5 DEF s, t

\* Concatenation is associative.
LEMMA Associative == \A s, t, u \in Seq(Int) : (s \o t) \o u = s \o (t \o u)
BY ConcatAssociative, SMTT(30)

\* What is read in one way, followed by what is read in one way.
LEMMA ReadOn ==
  ASSUME NEW a, NEW b, NEW v, NEW w, ReadOneWay(a, b, v, w),
         NEW p, NEW q, NEW x, NEW y, ReadOneWay(p, q, x, y)
  PROVE  ReadOneWay(a \o p, b \o q, << v, x >>, << w, y >>)
<1>1. a \in Seq(Int) /\ b \in Seq(Int) /\ p \in Seq(Int) /\ q \in Seq(Int)
  BY DEF ReadOneWay
<1>2. a \o p \in Seq(Int) /\ b \o q \in Seq(Int)
  BY <1>1
<1>3. ASSUME NEW s \in Seq(Int), NEW t \in Seq(Int), (a \o p) \o s = (b \o q) \o t
      PROVE  s = t /\ << v, x >> = << w, y >>
  <2>1. (a \o p) \o s = a \o (p \o s)
    BY <1>1, Associative, ZenonT(40)
  <2>2. (b \o q) \o t = b \o (q \o t)
    BY <1>1, Associative, ZenonT(40)
  <2>3. p \o s \in Seq(Int) /\ q \o t \in Seq(Int)
    BY <1>1
  <2>4. a \o (p \o s) = b \o (q \o t)
    BY <1>3, <2>1, <2>2
  <2>5. p \o s = q \o t /\ v = w
    BY <2>3, <2>4 DEF ReadOneWay
  <2>6. s = t /\ x = y
    BY <2>5 DEF ReadOneWay
  <2> QED BY <2>5, <2>6
<1> QED BY <1>2, <1>3 DEF ReadOneWay

\* What is read in one way stands for less as well.
LEMMA ReadLess ==
  ASSUME NEW a, NEW b, NEW v, NEW w, ReadOneWay(a, b, v, w), NEW x, NEW y, v = w => x = y
  PROVE  ReadOneWay(a, b, x, y)
BY DEF ReadOneWay

\* A sequence of texts, put together up to each of them.
Joins(joined, seqs, n) ==
    joined = [i \in 1..n |-> IF i = 1 THEN seqs[i] ELSE joined[i - 1] \o seqs[i]]

\* FlattenSeq puts all of them together.
LEMMA FlattenedIsJoined ==
  ASSUME NEW S, NEW seqs \in Seq(S), Len(seqs) # 0
  PROVE  FlattenSeq(seqs) = (CHOOSE joined : Joins(joined, seqs, Len(seqs)))[Len(seqs)]
BY DEF FlattenSeq, Joins

\* Every set of naturals has a least one.
LEMMA LeastNatural ==
  ASSUME NEW Numbers \in SUBSET Nat, Numbers # {}
  PROVE  \E n \in Numbers : \A m \in Numbers : n <= m
<1> DEFINE R == {ss \in Nat \X Nat : ss[1] < ss[2]}
<1>1. IsWellFoundedOn(R, Nat)
  BY NatLessThanWellFounded DEF OpToRel
<1>2. PICK n \in Numbers : \A m \in Numbers : ~(<<m, n>> \in R)
  BY <1>1, WFMin
<1>3. \A m \in Numbers : ~(m < n)
  BY <1>2
<1> QED BY <1>3

\* The texts put together exist, as many as there are.
LEMMA JoinsExist ==
  ASSUME NEW seqs, NEW len \in Nat
  PROVE  \E joined : Joins(joined, seqs, len)
<1> DEFINE Failing == {n \in Nat : ~\E joined : Joins(joined, seqs, n)}
<1>1. SUFFICES ASSUME Failing # {} PROVE FALSE
  OBVIOUS
<1>2. PICK n \in Failing : \A m \in Failing : n <= m
  BY <1>1, LeastNatural
<1>3. n \in Nat /\ ~\E joined : Joins(joined, seqs, n)
  OBVIOUS
<1>4. CASE n = 0
  <2>1. Joins([i \in 1..0 |-> 0], seqs, 0)
    BY DEF Joins
  <2> QED BY <1>3, <1>4, <2>1
<1>5. CASE n # 0
  <2>1. n - 1 \in Nat /\ ~(n <= n - 1)
    BY <1>3, <1>5
  <2>2. PICK joined : Joins(joined, seqs, n - 1)
    BY <1>2, <2>1
  <2> DEFINE step(g, i) == IF i = 1 THEN seqs[i] ELSE g[i - 1] \o seqs[i]
             longer == [i \in 1..n |-> step(joined, i)]
  <2>3. \A i \in 1..(n - 1) : joined[i] = step(joined, i)
    BY <2>2 DEF Joins
  <2>4. ASSUME NEW i \in 1..n PROVE step(joined, i) = step(longer, i)
    <3>1. CASE i # 1
      <4>1. i - 1 \in 1..(n - 1) /\ i - 1 \in 1..n
        BY <1>3, <3>1
      <4>2. joined[i - 1] = step(joined, i - 1)
        BY <2>3, <4>1
      <4>3. longer[i - 1] = step(joined, i - 1)
        BY <4>1
      <4> HIDE DEF longer
      <4> QED BY <3>1, <4>2, <4>3
    <3>2. CASE i = 1
      BY <3>2
    <3> QED BY <3>1, <3>2
  <2>5. longer = [i \in 1..n |-> step(longer, i)]
    <3> HIDE DEF step
    <3> QED BY <2>4
  <2> HIDE DEF longer
  <2>6. Joins(longer, seqs, n)
    BY <2>5 DEF Joins
  <2> QED BY <1>3, <2>6
<1> QED BY <1>4, <1>5

\* The bytes of n fields put together.
JoinsFields(joined, n, types, values) ==
    /\ \A i \in 1..n : WellTyped(types[i], values[i])
    /\ Joins(joined, [i \in 1..n |-> Bytes(types[i], values[i])], n)

First(n, values) == [i \in 1..n |-> values[i]]

\* Two sequences of fields put together can be read in one way, however many
\* fields there are.
LEMMA JoinedRead ==
  ASSUME NEW n \in Nat, NEW types, NEW v, NEW w, NEW a, NEW b,
         JoinsFields(a, n, types, v), JoinsFields(b, n, types, w), n # 0
  PROVE  ReadOneWay(a[n], b[n], First(n, v), First(n, w))
<1> DEFINE Claim(i) == ReadOneWay(a[i], b[i], First(i, v), First(i, w))
           Failing == {i \in 1..n : ~Claim(i)}
           p(i) == Bytes(types[i], v[i])
           q(i) == Bytes(types[i], w[i])
<1>1. /\ \A i \in 1..n : a[i] = IF i = 1 THEN p(i) ELSE a[i - 1] \o p(i)
      /\ \A i \in 1..n : b[i] = IF i = 1 THEN q(i) ELSE b[i - 1] \o q(i)
  BY DEF Joins, JoinsFields
<1>2. \A i \in 1..n : ReadOneWay(p(i), q(i), v[i], w[i])
  BY FieldsRead DEF JoinsFields
<1> HIDE DEF p, q
<1>4. SUFFICES ASSUME Failing # {} PROVE FALSE
  <2>1. n \in 1..n
    OBVIOUS
  <2> HIDE DEF Claim
  <2>2. Failing = {} => Claim(n)
    BY <2>1
  <2> QED BY <2>2 DEF Claim
<1>5. PICK i \in Failing : \A m \in Failing : i <= m
  <2>1. Failing \in SUBSET Nat
    <3> HIDE DEF Claim
    <3> QED OBVIOUS
  <2> HIDE DEF Failing
  <2> QED BY <1>4, <2>1, LeastNatural
<1>6. i \in 1..n /\ ~Claim(i)
  OBVIOUS
<1>7. CASE i = 1
  <2>1. a[1] = p(1) /\ b[1] = q(1) /\ ReadOneWay(p(1), q(1), v[1], w[1])
    BY <1>1, <1>2, <1>6, <1>7
  <2>2. v[1] = w[1] => First(1, v) = First(1, w)
    BY DEF First
  <2>3. Claim(1)
    BY <2>1, <2>2, ReadLess
  <2> QED BY <1>6, <1>7, <2>3
<1>8. CASE i # 1
  <2>1. i - 1 \in 1..n /\ ~(i <= i - 1)
    BY <1>6, <1>8
  <2>2. Claim(i - 1)
    BY <1>5, <2>1
  <2>3. a[i] = a[i - 1] \o p(i) /\ b[i] = b[i - 1] \o q(i) /\ ReadOneWay(p(i), q(i), v[i], w[i])
    BY <1>1, <1>2, <1>6, <1>8
  <2> DEFINE before == First(i - 1, v)
             other == First(i - 1, w)
             x == First(i, v)
             y == First(i, w)
  <2>4. << before, v[i] >> = << other, w[i] >> => x = y
    <3> SUFFICES ASSUME << before, v[i] >> = << other, w[i] >> PROVE x = y
      OBVIOUS
    <3>1. before = other /\ v[i] = w[i]
      <4> HIDE DEF before, other
      <4> QED OBVIOUS
    <3>2. \A k \in 1..(i - 1) : before[k] = v[k] /\ other[k] = w[k]
      BY DEF First
    <3> HIDE DEF before, other
    <3>3. ASSUME NEW k \in 1..i PROVE v[k] = w[k]
      <4>1. k = i \/ k \in 1..(i - 1)
        BY <1>6
      <4> QED BY <3>1, <3>2, <4>1
    <3> QED BY <3>3 DEF First
  <2>5. ReadOneWay(a[i - 1], b[i - 1], before, other)
    BY <2>2
  <2> HIDE DEF before, other, x, y
  <2>6. ReadOneWay(a[i - 1] \o p(i), b[i - 1] \o q(i), << before, v[i] >>, << other, w[i] >>)
    BY <2>3, <2>5, ReadOn
  <2>7. ReadOneWay(a[i], b[i], x, y)
    BY <2>3, <2>4, <2>6, ReadLess
  <2> QED BY <1>6, <2>7 DEF x, y
<1> QED BY <1>7, <1>8

\* A fingerprint is a text, the one of a body without fields the empty one.
LEMMA FingerprintIsJoined ==
  ASSUME NEW layout, NEW fields, AreFields(layout, fields), NEW body, IsBody(layout, body)
  PROVE  LET n == Len(fields)
             types == [i \in 1..n |-> layout[fields[i]]]
             values == [i \in 1..n |-> body[fields[i]]]
             texts == [i \in 1..n |-> Bytes(types[i], values[i])]
         IN  /\ n \in Nat /\ \A i \in 1..n : WellTyped(types[i], values[i])
             /\ n = 0 => Fingerprint(layout, fields, body) = << >>
             /\ n # 0 => \E joined : /\ Joins(joined, texts, n)
                                     /\ Fingerprint(layout, fields, body) = joined[n]
<1> DEFINE n == Len(fields)
           types == [i \in 1..n |-> layout[fields[i]]]
           values == [i \in 1..n |-> body[fields[i]]]
           texts == [i \in 1..n |-> Bytes(types[i], values[i])]
<1>1. n \in Nat /\ DOMAIN fields = 1..n /\ \A i \in 1..n : fields[i] \in DOMAIN layout
  BY Elements DEF AreFields
<1>2. \A i \in 1..n : WellTyped(types[i], values[i])
  BY <1>1 DEF IsBody
<1>3. texts = [i \in DOMAIN fields |-> Bytes(layout[fields[i]], body[fields[i]])]
  BY <1>1
<1>4. Fingerprint(layout, fields, body) = FlattenSeq(texts)
  BY <1>3 DEF Fingerprint
<1>5. texts \in Seq(Seq(Int)) /\ Len(texts) = n
  <2>1. \A i \in 1..n : texts[i] \in Seq(Int)
    BY <1>2, BytesAnnounced
  <2>2. texts = [i \in 1..n |-> texts[i]]
    <3> DEFINE e(i) == Bytes(types[i], values[i])
    <3>1. texts = [i \in 1..n |-> e(i)]
      OBVIOUS
    <3> HIDE DEF e, texts
    <3> QED BY <3>1
  <2> HIDE DEF texts
  <2> QED BY <1>1, <2>1, <2>2, IsSequence
<1> HIDE DEF texts, n
<1>6. CASE n = 0
  <2>1. FlattenSeq(texts) = texts /\ texts = << >>
    BY <1>5, <1>6 DEF FlattenSeq
  <2> QED BY <1>1, <1>2, <1>4, <1>6, <2>1 DEF n, texts
<1>7. CASE n # 0
  <2> DEFINE joined == CHOOSE joined : Joins(joined, texts, n)
  <2>1. FlattenSeq(texts) = joined[n]
    BY <1>5, <1>7, FlattenedIsJoined
  <2>2. Joins(joined, texts, n)
    BY <1>1, JoinsExist
  <2> HIDE DEF joined
  <2>3. \E j : Joins(j, texts, n) /\ Fingerprint(layout, fields, body) = j[n]
    BY <1>4, <2>1, <2>2
  <2> QED BY <1>1, <1>2, <1>7, <2>3 DEF n, texts
<1> QED BY <1>6, <1>7

\* Two bodies of a layout have the same fingerprint only if they are the same,
\* whatever their values are: the length before a text, the presence before an
\* Option and the alternative before a payload leave one way to read it
\* (request_fingerprint, event_fingerprint).
THEOREM FingerprintsTellBodiesApart ==
  ASSUME NEW layout, NEW fields, AreFields(layout, fields),
         NEW v, NEW w, IsBody(layout, v), IsBody(layout, w)
  PROVE  /\ Fingerprint(layout, fields, v) \in Seq(Int)
         /\ Fingerprint(layout, fields, v) = Fingerprint(layout, fields, w) => v = w
<1> DEFINE n == Len(fields)
           types == [i \in 1..n |-> layout[fields[i]]]
           vs == [i \in 1..n |-> v[fields[i]]]
           ws == [i \in 1..n |-> w[fields[i]]]
           a == Fingerprint(layout, fields, v)
           b == Fingerprint(layout, fields, w)
<1>1. /\ n \in Nat /\ \A i \in 1..n : WellTyped(types[i], vs[i])
      /\ n = 0 => a = << >>
      /\ n # 0 => \E joined : /\ Joins(joined, [i \in 1..n |-> Bytes(types[i], vs[i])], n)
                              /\ a = joined[n]
  BY FingerprintIsJoined
<1>2. /\ \A i \in 1..n : WellTyped(types[i], ws[i])
      /\ n # 0 => \E joined : /\ Joins(joined, [i \in 1..n |-> Bytes(types[i], ws[i])], n)
                              /\ b = joined[n]
  BY FingerprintIsJoined
<1> HIDE DEF types, a, b
<1>3. CASE n = 0
  <2>1. DOMAIN fields = {}
    BY <1>3, Elements DEF AreFields
  <2>2. DOMAIN layout = {}
    BY <2>1 DEF AreFields, Range
  <2>3. v = w
    BY <2>2 DEF IsBody
  <2>4. a \in Seq(Int)
    BY <1>1, <1>3
  <2> QED BY <2>3, <2>4 DEF a
<1>4. CASE n # 0
  <2>1. PICK ja : /\ Joins(ja, [i \in 1..n |-> Bytes(types[i], vs[i])], n)
                  /\ a = ja[n]
    BY <1>1, <1>4
  <2>2. PICK jb : /\ Joins(jb, [i \in 1..n |-> Bytes(types[i], ws[i])], n)
                  /\ b = jb[n]
    BY <1>2, <1>4
  <2> HIDE DEF vs, ws
  <2> DEFINE x == First(n, vs)
             y == First(n, ws)
  <2>3. ReadOneWay(a, b, x, y)
    <3>1. JoinsFields(ja, n, types, vs) /\ JoinsFields(jb, n, types, ws)
      BY <1>1, <1>2, <2>1, <2>2 DEF JoinsFields
    <3> HIDE DEF n
    <3>2. ReadOneWay(ja[n], jb[n], x, y)
      BY <1>1, <1>4, <3>1, JoinedRead
    <3> QED BY <2>1, <2>2, <3>2
  <2>4. ASSUME a = b PROVE v = w
    <3>1. << >> \in Seq(Int) /\ a \o << >> = b \o << >>
      BY <2>4
    <3>2. \A i \in 1..n : vs[i] = ws[i]
      <4>1. x = y
        <5> HIDE DEF x, y
        <5> QED BY <2>3, <3>1 DEF ReadOneWay
      <4>2. \A i \in 1..n : x[i] = vs[i] /\ y[i] = ws[i]
        BY DEF First
      <4> HIDE DEF x, y
      <4> QED BY <4>1, <4>2
    <3>3. DOMAIN fields = 1..n
      BY Elements DEF AreFields
    <3>4. \A i \in DOMAIN fields : v[fields[i]] = w[fields[i]]
      BY <3>2, <3>3 DEF vs, ws
    <3>5. \A f \in DOMAIN layout : v[f] = w[f]
      <4> TAKE f \in DOMAIN layout
      <4>1. PICK i \in DOMAIN fields : f = fields[i]
        BY DEF AreFields, Range
      <4> QED BY <3>4, <4>1
    <3> QED BY <3>5 DEF IsBody
  <2>5. a \in Seq(Int)
    BY <2>3 DEF ReadOneWay
  <2> QED BY <2>4, <2>5 DEF a, b
<1> QED BY <1>3, <1>4

-----------------------------------------------------------------------------
(* Requests and events of any body.  The tables are in step (TablesAgree), *)
(* so what follows holds of whatever values the bodies have.               *)

\* A request: any identity, any envelope with a known capability, any body of
\* its kind.
IsRequest(r) ==
    /\ r = Request(r.id, r.principal, r.grant, r.capability, r.generation, r.kind, r.body)
    /\ WellTyped(T, r.id)
    /\ r.principal \in Int /\ r.grant \in Int /\ r.generation \in Int
    /\ r.capability \in Range(Capabilities)
    /\ r.kind \in Kinds
    /\ IsBody(Layout(r.kind), r.body)

\* An event: any number, the identity of its command and any body of its kind.
IsEvent(e) ==
    /\ e = [id |-> e.id, command |-> e.command, kind |-> e.kind, body |-> e.body]
    /\ e.id \in Int
    /\ WellTyped(T, e.command)
    /\ e.kind \in Events
    /\ IsBody(LayoutOfEvent(e.kind), e.body)

\* The position of a name in a list of codes leads back to it.
LEMMA CodeIsRead ==
  ASSUME NEW codes \in Seq(STRING), NEW name \in Range(codes)
  PROVE  LET code == CHOOSE i \in DOMAIN codes : codes[i] = name
         IN  code \in Int /\ codes[code] = name
<1> DEFINE code == CHOOSE i \in DOMAIN codes : codes[i] = name
<1>1. \E i \in DOMAIN codes : codes[i] = name
  BY DEF Range
<1>2. code \in DOMAIN codes /\ codes[code] = name
  BY <1>1
<1>3. DOMAIN codes = 1..Len(codes)
  BY Elements
<1> HIDE DEF code
<1> QED BY <1>2, <1>3 DEF code

\* The codes of a command lead back to its kind.
LEMMA CommandCodes ==
  ASSUME NEW kind \in Kinds
  PROVE  /\ CommandCode(Outer(kind)) \in Int
         /\ StoredCommandKinds[CommandCode(Outer(kind))] = Outer(kind)
         /\ IsStudy(kind) => /\ StudyCommandCode(kind) \in Int
                             /\ StoredStudyCommandKinds[StudyCommandCode(kind)] = kind
         /\ Outer(kind) = "StudyTransition" <=> IsStudy(kind)
         /\ ~IsStudy(kind) => Outer(kind) = kind
<1>1. Outer(kind) \in Range(CommandKinds)
  BY TablesAgree DEF TablesInStep, CommandInStep
<1>2. CommandKinds \in Seq(STRING) /\ StudyCommandKinds \in Seq(STRING)
  BY TablesAgree DEF TablesInStep
<1>3. IsStudy(kind) <=> kind \in Range(StudyCommandKinds)
  BY DEF IsStudy
<1>4. Outer(kind) = "StudyTransition" <=> IsStudy(kind)
  BY <1>3 DEF Kinds, Outer
<1>5. ~IsStudy(kind) => Outer(kind) = kind
  BY DEF Outer
<1> QED BY <1>1, <1>2, <1>3, <1>4, <1>5, CodeIsRead
        DEF CommandCode, StudyCommandCode, StoredCommandKinds, StoredStudyCommandKinds

\* So do the codes of an event.
LEMMA EventCodes ==
  ASSUME NEW kind \in Events
  PROVE  /\ EventCode(OuterEvent(kind)) \in Int
         /\ StoredEventKinds[EventCode(OuterEvent(kind))] = OuterEvent(kind)
         /\ IsStudyEvent(kind) => /\ StudyEventCode(kind) \in Int
                                  /\ StoredStudyEventKinds[StudyEventCode(kind)] = kind
         /\ OuterEvent(kind) = "StudyTransition" <=> IsStudyEvent(kind)
         /\ ~IsStudyEvent(kind) => OuterEvent(kind) = kind
<1>1. OuterEvent(kind) \in Range(EventKinds)
  BY TablesAgree DEF TablesInStep, EventInStep
<1>2. EventKinds \in Seq(STRING) /\ StudyEventKinds \in Seq(STRING)
  BY TablesAgree DEF TablesInStep
<1>3. IsStudyEvent(kind) <=> kind \in Range(StudyEventKinds)
  BY DEF IsStudyEvent
<1>4. OuterEvent(kind) = "StudyTransition" <=> IsStudyEvent(kind)
  BY <1>3 DEF Events, OuterEvent
<1>5. ~IsStudyEvent(kind) => OuterEvent(kind) = kind
  BY DEF OuterEvent
<1> QED BY <1>1, <1>2, <1>3, <1>4, <1>5, CodeIsRead
        DEF EventCode, StudyEventCode, StoredEventKinds, StoredStudyEventKinds

\* The code of a capability leads back to it.
LEMMA CapabilityCodes ==
  ASSUME NEW capability \in Range(Capabilities)
  PROVE  /\ CapabilityCode(capability) \in Int
         /\ StoredCapabilities[CapabilityCode(capability)] = capability
<1>1. Capabilities \in Seq(STRING)
  BY TablesAgree DEF TablesInStep
<1> QED BY <1>1, CodeIsRead DEF CapabilityCode, StoredCapabilities

\* A command's body reads back, whatever its values are.
LEMMA CommandBodyReadsBack ==
  ASSUME NEW kind \in Kinds, NEW body, IsBody(Layout(kind), body)
  PROVE  DecodeCommandBody(CommandCode(Outer(kind)), InsertCommandBody(kind, body))
           = [kind |-> kind, body |-> body]
<1> DEFINE columns == ToRow(Layout(kind), Inserts(kind), body)
           study == IF IsStudy(kind) THEN StudyCommandCode(kind) ELSE 0
<1>1. AreColumns(Layout(kind), Inserts(kind)) /\ Reads(kind) = Inserts(kind)
  BY TablesAgree DEF TablesInStep, CommandInStep
<1>2. FromRow(Layout(kind), Reads(kind), columns) = body
  BY <1>1, BodiesReadBack
<1>3. InsertCommandBody(kind, body) = [study |-> study, columns |-> columns]
  BY DEF InsertCommandBody
<1> HIDE DEF columns
<1> DEFINE outer == StoredCommandKinds[CommandCode(Outer(kind))]
           decoded == IF outer = "StudyTransition" THEN StoredStudyCommandKinds[study] ELSE outer
<1>4. decoded = kind
  BY CommandCodes
<1>5. DecodeCommandBody(CommandCode(Outer(kind)), [study |-> study, columns |-> columns])
        = [kind |-> decoded, body |-> FromRow(Layout(decoded), Reads(decoded), columns)]
  BY DEF DecodeCommandBody
<1> HIDE DEF decoded, study
<1> QED BY <1>2, <1>3, <1>4, <1>5

\* So does an event's.
LEMMA EventBodyReadsBack ==
  ASSUME NEW kind \in Events, NEW body, IsBody(LayoutOfEvent(kind), body)
  PROVE  DecodeEventBody(EventCode(OuterEvent(kind)), InsertEventBody(kind, body))
           = [kind |-> kind, body |-> body]
<1> DEFINE columns == ToRow(LayoutOfEvent(kind), InsertsOfEvent(kind), body)
           study == IF IsStudyEvent(kind) THEN StudyEventCode(kind) ELSE 0
<1>1. AreColumns(LayoutOfEvent(kind), InsertsOfEvent(kind)) /\ ReadsOfEvent(kind) = InsertsOfEvent(kind)
  BY TablesAgree DEF TablesInStep, EventInStep
<1>2. FromRow(LayoutOfEvent(kind), ReadsOfEvent(kind), columns) = body
  BY <1>1, BodiesReadBack
<1>3. InsertEventBody(kind, body) = [study |-> study, columns |-> columns]
  BY DEF InsertEventBody
<1> HIDE DEF columns
<1> DEFINE outer == StoredEventKinds[EventCode(OuterEvent(kind))]
           decoded == IF outer = "StudyTransition" THEN StoredStudyEventKinds[study] ELSE outer
<1>4. decoded = kind
  BY EventCodes
<1>5. DecodeEventBody(EventCode(OuterEvent(kind)), [study |-> study, columns |-> columns])
        = [kind |-> decoded, body |-> FromRow(LayoutOfEvent(decoded), ReadsOfEvent(decoded), columns)]
  BY DEF DecodeEventBody
<1> HIDE DEF decoded, study
<1> QED BY <1>2, <1>3, <1>4, <1>5

\* No two requests share their fingerprint's bytes: not with another identity,
\* another envelope, another kind of command or another body
\* (request_fingerprint; execute_in_transaction answers a repeated identity
\* from its row by comparing fingerprints).
THEOREM RequestsAreToldApart ==
  ASSUME NEW r, NEW q, IsRequest(r), IsRequest(q), RequestBytes(r) = RequestBytes(q)
  PROVE  r = q
<1> DEFINE id(x) == Bytes(T, x.id)
           envelope(x) == <<x.principal, x.grant, CapabilityCode(x.capability),
                            x.generation, CommandCode(Outer(x.kind))>>
           study(x) == IF IsStudy(x.kind) THEN <<StudyCommandCode(x.kind)>> ELSE <<>>
           text(x) == Fingerprint(Layout(x.kind), Fields(x.kind), x.body)
           typed(x) == study(x) \o text(x)
           rest(x) == envelope(x) \o typed(x)
<1>1. ASSUME NEW x, IsRequest(x)
      PROVE  /\ RequestBytes(x) = id(x) \o rest(x)
             /\ id(x) \in Seq(Int) /\ envelope(x) \in Seq(Int) /\ study(x) \in Seq(Int)
             /\ text(x) \in Seq(Int) /\ typed(x) \in Seq(Int) /\ rest(x) \in Seq(Int)
  <2>1. id(x) \in Seq(Int)
    BY <1>1, BytesAnnounced DEF IsRequest
  <2>2. envelope(x) \in Seq(Int)
    <3>1. x.kind \in Kinds /\ x.capability \in Range(Capabilities)
      BY <1>1 DEF IsRequest
    <3>2. CapabilityCode(x.capability) \in Int /\ CommandCode(Outer(x.kind)) \in Int
      BY <3>1, CapabilityCodes, CommandCodes
    <3>3. x.principal \in Int /\ x.grant \in Int /\ x.generation \in Int
      BY <1>1 DEF IsRequest
    <3> QED BY <3>2, <3>3
  <2>3. study(x) \in Seq(Int)
    <3>1. x.kind \in Kinds
      BY <1>1 DEF IsRequest
    <3>2. IsStudy(x.kind) => StudyCommandCode(x.kind) \in Int
      BY <3>1, CommandCodes
    <3> QED BY <3>2
  <2>4. text(x) \in Seq(Int)
    <3>1. x.kind \in Kinds /\ IsBody(Layout(x.kind), x.body)
      BY <1>1 DEF IsRequest
    <3>2. AreFields(Layout(x.kind), Fields(x.kind))
      BY <3>1, TablesAgree DEF TablesInStep, CommandInStep
    <3> QED BY <3>1, <3>2, FingerprintsTellBodiesApart
  <2>5. RequestBytes(x) = ((id(x) \o envelope(x)) \o study(x)) \o text(x)
    BY DEF RequestBytes
  <2> HIDE DEF id, envelope, study, text
  <2>6. (id(x) \o envelope(x)) \in Seq(Int) /\ typed(x) \in Seq(Int) /\ rest(x) \in Seq(Int)
    BY <2>1, <2>2, <2>3, <2>4
  <2>7. RequestBytes(x) = (id(x) \o envelope(x)) \o typed(x)
    BY <2>3, <2>4, <2>5, <2>6, Associative
  <2> HIDE DEF typed
  <2>8. RequestBytes(x) = id(x) \o rest(x)
    BY <2>1, <2>2, <2>6, <2>7, Associative
  <2> HIDE DEF rest
  <2> QED BY <2>1, <2>2, <2>3, <2>4, <2>6, <2>8
<1>2. r.id = q.id /\ rest(r) = rest(q)
  <2>1. ReadOneWay(id(r), id(q), r.id, q.id)
    BY FieldsRead DEF IsRequest
  <2> HIDE DEF id, rest
  <2>2. rest(r) \in Seq(Int) /\ rest(q) \in Seq(Int) /\ id(r) \o rest(r) = id(q) \o rest(q)
    BY <1>1
  <2> QED BY <2>1, <2>2 DEF ReadOneWay
<1>3. envelope(r) = envelope(q) /\ typed(r) = typed(q)
  <2>1. Len(envelope(r)) = Len(envelope(q))
    OBVIOUS
  <2>2. /\ envelope(r) \in Seq(Int) /\ envelope(q) \in Seq(Int)
        /\ typed(r) \in Seq(Int) /\ typed(q) \in Seq(Int)
    BY <1>1
  <2>3. envelope(r) \o typed(r) = envelope(q) \o typed(q)
    BY <1>2
  <2> HIDE DEF envelope, typed
  <2> QED BY <2>1, <2>2, <2>3, SameLength
<1>4. /\ r.principal = q.principal /\ r.grant = q.grant /\ r.generation = q.generation
      /\ CapabilityCode(r.capability) = CapabilityCode(q.capability)
      /\ CommandCode(Outer(r.kind)) = CommandCode(Outer(q.kind))
  BY <1>3
<1>5. r.capability = q.capability
  BY <1>4, CapabilityCodes DEF IsRequest
<1>6. r.kind \in Kinds /\ q.kind \in Kinds
  BY DEF IsRequest
<1>7. Outer(r.kind) = Outer(q.kind) /\ (IsStudy(r.kind) <=> IsStudy(q.kind))
  BY <1>4, <1>6, CommandCodes
<1>8. r.kind = q.kind /\ text(r) = text(q)
  <2>1. CASE IsStudy(r.kind)
    <3>1. study(r) = <<StudyCommandCode(r.kind)>> /\ study(q) = <<StudyCommandCode(q.kind)>>
      BY <1>7, <2>1
    <3>2. Len(study(r)) = Len(study(q))
      BY <3>1
    <3>3. study(r) = study(q) /\ text(r) = text(q)
      <4> HIDE DEF id, envelope, study, text
      <4> QED BY <1>1, <1>3, <3>2, SameLength
    <3>4. StudyCommandCode(r.kind) = StudyCommandCode(q.kind)
      BY <3>1, <3>3
    <3> QED BY <1>6, <1>7, <2>1, <3>3, <3>4, CommandCodes
  <2>2. CASE ~IsStudy(r.kind)
    <3>1. study(r) = <<>> /\ study(q) = <<>>
      BY <1>7, <2>2
    <3>2. r.kind = q.kind
      BY <1>6, <1>7, <2>2, CommandCodes
    <3>3. text(r) \in Seq(Int) /\ text(q) \in Seq(Int)
      BY <1>1
    <3> HIDE DEF id, envelope, study, text
    <3> QED BY <1>3, <3>1, <3>2, <3>3
  <2> QED BY <2>1, <2>2
<1>9. r.body = q.body
  <2>1. AreFields(Layout(r.kind), Fields(r.kind))
    BY <1>6, TablesAgree DEF TablesInStep, CommandInStep
  <2>2. IsBody(Layout(r.kind), r.body) /\ IsBody(Layout(r.kind), q.body)
    BY <1>8 DEF IsRequest
  <2> QED BY <1>8, <2>1, <2>2, FingerprintsTellBodiesApart
<1> QED BY <1>2, <1>4, <1>5, <1>8, <1>9 DEF IsRequest

\* No two events share theirs: replay_ledger, which compares fingerprints, takes
\* no event for another (event_fingerprint).
THEOREM EventsAreToldApart ==
  ASSUME NEW e, NEW d, IsEvent(e), IsEvent(d), EventBytes(e) = EventBytes(d)
  PROVE  e = d
<1> DEFINE number(x) == <<x.id>>
           command(x) == Bytes(T, x.command)
           code(x) == <<EventCode(OuterEvent(x.kind))>>
           study(x) == IF IsStudyEvent(x.kind) THEN <<StudyEventCode(x.kind)>> ELSE <<>>
           text(x) == Fingerprint(LayoutOfEvent(x.kind), FieldsOfEvent(x.kind), x.body)
           typed(x) == study(x) \o text(x)
           coded(x) == code(x) \o typed(x)
           rest(x) == command(x) \o coded(x)
<1>1. ASSUME NEW x, IsEvent(x)
      PROVE  /\ EventBytes(x) = number(x) \o rest(x)
             /\ number(x) \in Seq(Int) /\ command(x) \in Seq(Int) /\ code(x) \in Seq(Int)
             /\ study(x) \in Seq(Int) /\ text(x) \in Seq(Int) /\ typed(x) \in Seq(Int)
             /\ coded(x) \in Seq(Int) /\ rest(x) \in Seq(Int)
  <2>1. x.id \in Int /\ x.kind \in Events /\ IsBody(LayoutOfEvent(x.kind), x.body)
    BY <1>1 DEF IsEvent
  <2>2. number(x) \in Seq(Int)
    BY <2>1
  <2>3. command(x) \in Seq(Int)
    BY <1>1, BytesAnnounced DEF IsEvent
  <2>4. code(x) \in Seq(Int)
    <3>1. EventCode(OuterEvent(x.kind)) \in Int
      BY <2>1, EventCodes
    <3> QED BY <3>1
  <2>5. study(x) \in Seq(Int)
    <3>1. IsStudyEvent(x.kind) => StudyEventCode(x.kind) \in Int
      BY <2>1, EventCodes
    <3> QED BY <3>1
  <2>6. text(x) \in Seq(Int)
    <3>1. AreFields(LayoutOfEvent(x.kind), FieldsOfEvent(x.kind))
      BY <2>1, TablesAgree DEF TablesInStep, EventInStep
    <3> QED BY <2>1, <3>1, FingerprintsTellBodiesApart
  <2>7. EventBytes(x) = (((number(x) \o command(x)) \o code(x)) \o study(x)) \o text(x)
    BY DEF EventBytes
  <2> HIDE DEF number, command, code, study, text
  <2>8. /\ (number(x) \o command(x)) \in Seq(Int)
        /\ ((number(x) \o command(x)) \o code(x)) \in Seq(Int)
        /\ typed(x) \in Seq(Int) /\ coded(x) \in Seq(Int) /\ rest(x) \in Seq(Int)
    BY <2>2, <2>3, <2>4, <2>5, <2>6
  <2>9. EventBytes(x) = ((number(x) \o command(x)) \o code(x)) \o typed(x)
    BY <2>5, <2>6, <2>7, <2>8, Associative, ZenonT(40)
  <2> HIDE DEF typed
  <2>10. EventBytes(x) = (number(x) \o command(x)) \o coded(x)
    BY <2>4, <2>8, <2>9, Associative, SMTT(30)
  <2> HIDE DEF coded
  <2>11. EventBytes(x) = number(x) \o rest(x)
    BY <2>2, <2>3, <2>8, <2>10, Associative
  <2> HIDE DEF rest
  <2> QED BY <2>2, <2>3, <2>4, <2>5, <2>6, <2>8, <2>11
<1>2. number(e) = number(d) /\ rest(e) = rest(d)
  <2>1. Len(number(e)) = Len(number(d))
    OBVIOUS
  <2> HIDE DEF number, rest
  <2> QED BY <1>1, <2>1, SameLength
<1>3. e.command = d.command /\ coded(e) = coded(d)
  <2>1. ReadOneWay(command(e), command(d), e.command, d.command)
    BY FieldsRead DEF IsEvent
  <2>2. command(e) \o coded(e) = command(d) \o coded(d)
    BY <1>2
  <2> HIDE DEF number, command, coded
  <2>3. coded(e) \in Seq(Int) /\ coded(d) \in Seq(Int)
    BY <1>1
  <2> QED BY <2>1, <2>2, <2>3 DEF ReadOneWay
<1>4. code(e) = code(d) /\ typed(e) = typed(d)
  <2>1. Len(code(e)) = Len(code(d))
    OBVIOUS
  <2>2. code(e) \o typed(e) = code(d) \o typed(d)
    BY <1>3
  <2>3. /\ code(e) \in Seq(Int) /\ code(d) \in Seq(Int)
        /\ typed(e) \in Seq(Int) /\ typed(d) \in Seq(Int)
    BY <1>1
  <2> HIDE DEF code, typed
  <2> QED BY <2>1, <2>2, <2>3, SameLength
<1>5. e.id = d.id /\ EventCode(OuterEvent(e.kind)) = EventCode(OuterEvent(d.kind))
  BY <1>2, <1>4
<1>6. e.kind \in Events /\ d.kind \in Events
  BY DEF IsEvent
<1>7. OuterEvent(e.kind) = OuterEvent(d.kind) /\ (IsStudyEvent(e.kind) <=> IsStudyEvent(d.kind))
  BY <1>5, <1>6, EventCodes
<1>8. e.kind = d.kind /\ text(e) = text(d)
  <2>1. CASE IsStudyEvent(e.kind)
    <3>1. study(e) = <<StudyEventCode(e.kind)>> /\ study(d) = <<StudyEventCode(d.kind)>>
      BY <1>7, <2>1
    <3>2. Len(study(e)) = Len(study(d))
      BY <3>1
    <3>3. study(e) = study(d) /\ text(e) = text(d)
      <4> HIDE DEF study, text
      <4> QED BY <1>1, <1>4, <3>2, SameLength
    <3>4. StudyEventCode(e.kind) = StudyEventCode(d.kind)
      BY <3>1, <3>3
    <3> QED BY <1>6, <1>7, <2>1, <3>3, <3>4, EventCodes
  <2>2. CASE ~IsStudyEvent(e.kind)
    <3>1. study(e) = <<>> /\ study(d) = <<>>
      BY <1>7, <2>2
    <3>2. e.kind = d.kind
      BY <1>6, <1>7, <2>2, EventCodes
    <3>3. text(e) \in Seq(Int) /\ text(d) \in Seq(Int)
      BY <1>1
    <3> HIDE DEF study, text
    <3> QED BY <1>4, <3>1, <3>2, <3>3
  <2> QED BY <2>1, <2>2
<1>9. e.body = d.body
  <2>1. AreFields(LayoutOfEvent(e.kind), FieldsOfEvent(e.kind))
    BY <1>6, TablesAgree DEF TablesInStep, EventInStep
  <2>2. IsBody(LayoutOfEvent(e.kind), e.body) /\ IsBody(LayoutOfEvent(e.kind), d.body)
    BY <1>8 DEF IsEvent
  <2> QED BY <1>8, <2>1, <2>2, FingerprintsTellBodiesApart
<1> QED BY <1>3, <1>5, <1>8, <1>9 DEF IsEvent

=============================================================================
