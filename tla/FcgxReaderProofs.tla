--------------------------- MODULE FcgxReaderProofs ---------------------------
(***************************************************************************)
(* Proofs about the reader of a request (FcgxReader): its type invariant   *)
(* for every server (ReaderTypes) and, for every set of conforming         *)
(* conversations (Premises), that the consumers get what was sent to them  *)
(* (ReaderFaithful), that an end of file without an error is the end of    *)
(* the stream (ReaderReports) and that the streams come one after the      *)
(* other (ReaderInSequence).  On a connection that serves one request      *)
(* after another (Orderly) the reader keeps its place in the records       *)
(* (ReaderKeepsFraming) and answers what asks for it (ReaderAnswers).      *)
(* The inductive invariants are those of FcgxReaderInvariants.             *)
(***************************************************************************)
EXTENDS FcgxReaderInvariants, SequenceOpsProofs

-----------------------------------------------------------------------------
(* The bytes of a conversation.                                             *)

LEMMA SizePositive ==
    ASSUME NEW r \in Record
    PROVE  Size(r) \in Nat /\ HeaderLen + r.len <= Size(r) /\ HeaderLen <= Size(r) /\ Size(r) > 0
BY SizesAssumption DEF Size, Record

RecBytes(i, r) == [k \in 1..Size(r) |-> <<i, k>>]

LEMMA BytesOneMore ==
    ASSUME NEW s \in Seq(Record), NEW x \in Record
    PROVE  /\ Bytes(Append(s, x)) = Bytes(s) \o RecBytes(Len(s) + 1, x)
           /\ Bytes(s) \in Seq(Cell) /\ RecBytes(Len(s) + 1, x) \in Seq(Cell)
<1> DEFINE t == Append(s, x)
           A == [i \in DOMAIN s |-> [k \in 1..Size(s[i]) |-> <<i, k>>]]
           B == [i \in DOMAIN t |-> [k \in 1..Size(t[i]) |-> <<i, k>>]]
<1>1. /\ Len(s) \in Nat /\ DOMAIN s = 1..Len(s) /\ \A i \in 1..Len(s) : s[i] \in Record
      /\ t \in Seq(Record) /\ Len(t) = Len(s) + 1 /\ DOMAIN t = 1..Len(s) + 1
      /\ t[Len(s) + 1] = x /\ \A i \in 1..Len(s) : t[i] = s[i]
  BY AppendProperties, LenProperties
<1> HIDE DEF t
<1>2. \A i \in 1..Len(s) + 1 : t[i] \in Record
  BY <1>1
<1>3. \A r \in Record : \A i \in Nat : RecBytes(i, r) \in Seq(Cell)
  <2>1. SUFFICES ASSUME NEW r \in Record, NEW i \in Nat PROVE RecBytes(i, r) \in Seq(Cell)
    OBVIOUS
  <2>2. Size(r) \in Nat
    BY SizePositive
  <2>3. \A k \in 1..Size(r) : <<i, k>> \in Cell
    BY <2>2 DEF Cell
  <2> HIDE DEF Cell
  <2> QED BY <2>2, <2>3 DEF RecBytes
<1>4. A \in Seq(Seq(Cell)) /\ Len(A) = Len(s)
  <2>1. \A i \in 1..Len(s) : A[i] = RecBytes(i, s[i])
    BY <1>1 DEF RecBytes
  <2>2. \A i \in 1..Len(s) : RecBytes(i, s[i]) \in Seq(Cell)
    BY <1>1, <1>3
  <2>3. A = [i \in 1..Len(s) |-> RecBytes(i, s[i])]
    BY <1>1 DEF RecBytes
  <2> HIDE DEF A
  <2> QED BY <1>1, <2>2, <2>3
<1>5. B \in Seq(Seq(Cell)) /\ Len(B) = Len(s) + 1 /\ B[Len(s) + 1] = RecBytes(Len(s) + 1, x)
  <2>1. \A i \in 1..Len(s) + 1 : i \in Nat
    BY <1>1
  <2>2. \A i \in 1..Len(s) + 1 : RecBytes(i, t[i]) \in Seq(Cell)
    BY <2>1, <1>2, <1>3, Zenon
  <2>3. B = [i \in 1..Len(s) + 1 |-> RecBytes(i, t[i])]
    BY <1>1 DEF RecBytes
  <2>4. Len(s) + 1 \in 1..Len(s) + 1 /\ Len(s) + 1 \in Nat
    BY <1>1
  <2> HIDE DEF B
  <2> QED BY <1>1, <2>2, <2>3, <2>4
<1>6. \A n \in 1..Len(A) : B[n] = A[n]
  <2>1. SUFFICES ASSUME NEW n \in 1..Len(s) PROVE B[n] = A[n]
    BY <1>4
  <2>2. n \in DOMAIN s /\ n \in DOMAIN t /\ t[n] = s[n]
    BY <1>1
  <2>3. A[n] = RecBytes(n, s[n]) /\ B[n] = RecBytes(n, t[n])
    BY <2>2 DEF RecBytes
  <2> QED BY <2>2, <2>3
<1>7. Bytes(s) = FlattenSeq(A) /\ Bytes(t) = FlattenSeq(B)
  BY DEF Bytes
<1> HIDE DEF A, B
<1>8. /\ FlattenSeq(B) = FlattenSeq(A) \o B[Len(B)]
      /\ FlattenSeq(A) \in Seq(Cell)
  BY <1>4, <1>5, <1>6, FlattenOneMore
<1>9. Len(s) + 1 \in Nat
  BY <1>1
<1> QED BY <1>3, <1>5, <1>7, <1>8, <1>9 DEF t

LEMMA ShapeGrows ==
    ASSUME NEW s \in Seq(Record), NEW x \in Record, NEW w, Shape(s, w)
    PROVE  Shape(Append(s, x), w \o RecBytes(Len(s) + 1, x))
<1> DEFINE n == Len(s)
           t == Append(s, x)
           b == RecBytes(n + 1, x)
           v == w \o b
           z == Size(x)
<1>1. /\ n \in Nat /\ t \in Seq(Record) /\ Len(t) = n + 1
      /\ t[n + 1] = x /\ (\A i \in 1..n : t[i] = s[i]) /\ \A i \in 1..n : s[i] \in Record
  BY AppendProperties, LenProperties
<1>2. z \in Nat /\ z > 0
  BY SizePositive
<1>3. /\ b \in Seq(Cell) /\ Len(b) = z /\ \A k \in 1..z : b[k] = <<n + 1, k>>
  <2>1. \A k \in 1..z : <<n + 1, k>> \in Cell
    BY <1>1, <1>2 DEF Cell
  <2>2. b = [k \in 1..z |-> <<n + 1, k>>]
    BY DEF RecBytes
  <2> HIDE DEF b, Cell, z, n
  <2> QED BY <1>2, <2>1, <2>2
<1>4. w \in Seq(Cell) /\ Len(w) \in Nat
  BY DEF Shape, CellsOf
<1>5. /\ v \in Seq(Cell) /\ Len(v) = Len(w) + z
      /\ \A p \in 1..Len(w) : v[p] = w[p]
      /\ \A k \in 1..z : v[Len(w) + k] = <<n + 1, k>>
  <2>0. b \in Seq(Cell) /\ w \in Seq(Cell)
    BY <1>3, <1>4
  <2> HIDE DEF b, Cell, z
  <2>1. /\ w \o b \in Seq(Cell) /\ Len(w \o b) = Len(w) + Len(b)
        /\ \A i \in 1..Len(w) + Len(b) : (w \o b)[i] = IF i <= Len(w) THEN w[i] ELSE b[i - Len(w)]
    BY <2>0, ConcatProperties
  <2>2. \A p \in 1..Len(w) : v[p] = w[p]
    BY <1>2, <1>3, <1>4, <2>1
  <2>3. ASSUME NEW k \in 1..z PROVE v[Len(w) + k] = <<n + 1, k>>
    <3>1. Len(w) + k \in 1..Len(w) + Len(b) /\ ~(Len(w) + k <= Len(w)) /\ (Len(w) + k) - Len(w) = k
      BY <1>2, <1>3, <1>4
    <3>2. v[Len(w) + k] = b[(Len(w) + k) - Len(w)]
      BY <2>1, <3>1
    <3> QED BY <1>3, <3>1, <3>2
  <2> QED BY <1>3, <2>1, <2>2, <2>3
<1> HIDE DEF v, b, t, z
<1>6. \A i \in 1..n : Size(t[i]) = Size(s[i])
  BY <1>1
<1>6a. Size(t[n + 1]) = z
  BY <1>1 DEF z
<1>7. ASSUME NEW p \in 1..Len(v)
      PROVE  \/ p \in 1..Len(w) /\ v[p] = w[p]
             \/ \E k \in 1..z : p = Len(w) + k /\ v[p] = <<n + 1, k>>
  <2>1. CASE p <= Len(w)
    BY <1>4, <1>5, <2>1
  <2>2. CASE p > Len(w)
    <3>1. p - Len(w) \in 1..z /\ p = Len(w) + (p - Len(w))
      BY <1>2, <1>4, <1>5, <2>2
    <3> QED BY <1>5, <3>1
  <2> QED BY <1>4, <1>5, <2>1, <2>2
<1>8. CellsOf(t, v)
  <2>1. ASSUME NEW p \in 1..Len(v) PROVE v[p][1] \in 1..Len(t) /\ v[p][2] \in 1..Size(t[v[p][1]])
    <3>1. CASE p \in 1..Len(w) /\ v[p] = w[p]
      <4>1. w[p][1] \in 1..n /\ w[p][2] \in 1..Size(s[w[p][1]])
        BY <3>1 DEF Shape, CellsOf
      <4>2. w[p][1] \in 1..n + 1
        BY <4>1, <1>1
      <4> QED BY <1>1, <1>6, <3>1, <4>1, <4>2
    <3>2. CASE \E k \in 1..z : p = Len(w) + k /\ v[p] = <<n + 1, k>>
      <4>1. PICK k \in 1..z : v[p] = <<n + 1, k>>
        BY <3>2
      <4>2. v[p][1] = n + 1 /\ v[p][2] = k /\ n + 1 \in 1..n + 1
        BY <1>1, <4>1
      <4> QED BY <1>1, <1>6a, <4>2
    <3> QED BY <1>7, <3>1, <3>2
  <2> QED BY <1>5, <2>1 DEF CellsOf
<1>9. Runs(t, v)
  <2>1. SUFFICES ASSUME NEW p \in 1..Len(v), NEW m \in Int, 1 <= v[p][2] + m, v[p][2] + m <= Size(t[v[p][1]])
                 PROVE  p + m \in 1..Len(v) /\ v[p + m] = <<v[p][1], v[p][2] + m>>
    BY DEF Runs
  <2>2. CASE p \in 1..Len(w) /\ v[p] = w[p]
    <3>1. w[p][1] \in 1..n
      BY <2>2 DEF Shape, CellsOf
    <3>2. 1 <= w[p][2] + m /\ w[p][2] + m <= Size(s[w[p][1]])
      BY <1>6, <2>1, <2>2, <3>1
    <3>3. p + m \in 1..Len(w) /\ w[p + m] = <<w[p][1], w[p][2] + m>>
      BY <2>2, <3>2 DEF Shape, Runs
    <3>4. p + m \in 1..Len(v)
      BY <1>2, <1>4, <1>5, <3>3
    <3> QED BY <1>5, <2>2, <3>3, <3>4
  <2>3. CASE \E k \in 1..z : p = Len(w) + k /\ v[p] = <<n + 1, k>>
    <3>1. PICK k \in 1..z : p = Len(w) + k /\ v[p] = <<n + 1, k>>
      BY <2>3
    <3>2. v[p][1] = n + 1 /\ v[p][2] = k
      BY <3>1
    <3>3. 1 <= k + m /\ k + m <= z
      BY <1>6a, <2>1, <3>2
    <3>4. k + m \in 1..z /\ p + m = Len(w) + (k + m) /\ p + m \in 1..Len(v)
      BY <1>2, <1>4, <1>5, <3>1, <3>3
    <3> QED BY <1>5, <3>2, <3>4
  <2> QED BY <1>7, <2>2, <2>3
<1>10. Follows(t, v)
  <2>1. Len(v) > 0 /\ Len(v) = Len(w) + z
    BY <1>2, <1>4, <1>5
  <2>2. v[Len(v)] = <<n + 1, z>>
    <3>1. z \in 1..z
      BY <1>2
    <3> QED BY <1>5, <2>1, <3>1
  <2>3. v[1] = <<1, 1>>
    <3>1. CASE Len(w) = 0
      <4>1. n = 0
        BY <3>1 DEF Shape, Follows
      <4>2. 1 \in 1..z /\ Len(w) + 1 = 1
        BY <1>2, <3>1
      <4> QED BY <1>5, <4>1, <4>2
    <3>2. CASE Len(w) > 0
      <4>1. 1 \in 1..Len(w) /\ w[1] = <<1, 1>>
        BY <1>4, <3>2 DEF Shape, Follows
      <4> QED BY <1>5, <4>1
    <3> QED BY <1>4, <3>1, <3>2
  <2>4. t # <<>>
    BY <1>1
  <2>5. ASSUME NEW p \in 1..Len(v), p < Len(v), v[p][2] = Size(t[v[p][1]])
        PROVE  v[p + 1] = <<v[p][1] + 1, 1>>
    <3>1. CASE p \in 1..Len(w) /\ v[p] = w[p]
      <4>1. w[p][1] \in 1..n /\ w[p][2] = Size(s[w[p][1]])
        <5>1. w[p][1] \in 1..n
          BY <3>1 DEF Shape, CellsOf
        <5> QED BY <1>6, <2>5, <3>1, <5>1
      <4>2. CASE p < Len(w)
        <5>1. w[p + 1] = <<w[p][1] + 1, 1>>
          BY <3>1, <4>1, <4>2 DEF Shape, Follows
        <5>2. p + 1 \in 1..Len(w)
          BY <1>4, <3>1, <4>2
        <5> QED BY <1>5, <3>1, <5>1, <5>2
      <4>3. CASE p = Len(w)
        <5>1. w[p][1] = n
          BY <1>4, <3>1, <4>3 DEF Shape, Follows
        <5>2. 1 \in 1..z
          BY <1>2
        <5>3. v[Len(w) + 1] = <<n + 1, 1>>
          BY <1>5, <5>2
        <5> QED BY <3>1, <4>3, <5>1, <5>3
      <4> QED BY <1>4, <3>1, <4>2, <4>3
    <3>2. CASE \E k \in 1..z : p = Len(w) + k /\ v[p] = <<n + 1, k>>
      <4>1. PICK k \in 1..z : p = Len(w) + k /\ v[p] = <<n + 1, k>>
        BY <3>2
      <4>2. k = z
        BY <1>6a, <2>5, <4>1
      <4> QED BY <2>1, <2>5, <4>1, <4>2
    <3> QED BY <1>7, <3>1, <3>2
  <2>6. v[Len(v)][1] = Len(t) /\ v[Len(v)][2] = Size(t[Len(t)])
    BY <1>1, <1>6a, <2>2
  <2>7. ~(Len(v) = 0)
    BY <2>1
  <2> QED BY <2>3, <2>4, <2>5, <2>6, <2>7 DEF Follows
<1> QED BY <1>8, <1>9, <1>10 DEF Shape, t, v, b

LEMMA BytesShape ==
    ASSUME NEW s \in Seq(Record)
    PROVE  Shape(s, Bytes(s))
<1> DEFINE G == {r \in Seq(Record) : Shape(r, Bytes(r))}
<1>1. <<>> \in G
  <2>1. Bytes(<<>>) = <<>>
    BY DEF Bytes, FlattenSeq
  <2>2. <<>> \in Seq(Record) /\ <<>> \in Seq(Cell) /\ Len(<<>>) = 0
    OBVIOUS
  <2>3. CellsOf(<<>>, <<>>)
    BY <2>2 DEF CellsOf
  <2>4. Runs(<<>>, <<>>)
    BY <2>2 DEF Runs
  <2>5. Follows(<<>>, <<>>)
    BY <2>2 DEF Follows
  <2> QED BY <2>1, <2>2, <2>3, <2>4, <2>5 DEF Shape
<1>2. ASSUME NEW r \in G, NEW x \in Record PROVE Append(r, x) \in G
  <2>1. r \in Seq(Record) /\ Shape(r, Bytes(r))
    OBVIOUS
  <2>2. Append(r, x) \in Seq(Record)
    BY <2>1, AppendProperties
  <2>3. Shape(Append(r, x), Bytes(r) \o RecBytes(Len(r) + 1, x))
    BY <2>1, ShapeGrows
  <2>4. Bytes(Append(r, x)) = Bytes(r) \o RecBytes(Len(r) + 1, x)
    BY <2>1, BytesOneMore
  <2> QED BY <2>2, <2>3, <2>4
<1>3. G \in SUBSET Seq(Record)
  OBVIOUS
<1>4. Seq(Record) \subseteq G
  <2> HIDE DEF G
  <2> QED BY <1>1, <1>2, <1>3, AppendClosed
<1> QED BY <1>4

-----------------------------------------------------------------------------
(* Types, and where control is.                                            *)

LEMMA TypeOKParts ==
    TypeOK <=> ServerOK /\ PtrsOK /\ RecordOK /\ StatusOK /\ RequestOK /\ ControlOK /\ CallsOK
BY DEF TypeOK, ServerOK, PtrsOK, RecordOK, StatusOK, RequestOK, ControlOK, CallsOK

LEMMA WireFacts ==
    ASSUME ServerOK
    PROVE  /\ script \in Seq(Record) /\ Len(script) \in Nat /\ DOMAIN script = 1..Len(script)
           /\ \A i \in 1..Len(script) : script[i] \in Record
           /\ wire \in Seq(Cell) /\ Len(wire) \in Nat
           /\ CellsOf(script, wire) /\ Runs(script, wire) /\ Follows(script, wire)
<1>1. script \in Seq(Record)
  BY ScriptsAssumption DEF ServerOK
<1>2. Shape(script, wire)
  BY <1>1, BytesShape DEF ServerOK
<1> QED BY <1>1, <1>2 DEF Shape, CellsOf

\* How far one iteration of FillBuffProc gets.
LEMMA PartsOfIteration ==
    ASSUME PtrsOK, RecordOK, sent \in Nat, rdNext # buffStop
    PROVE  /\ ContentPart \in Nat /\ ContentPart <= contentLen
           /\ AfterContent = rdNext + ContentPart /\ AfterContent <= buffStop
           /\ ContentPart = contentLen \/ AfterContent = buffStop
           /\ contentLen > 0 => ContentPart > 0
           /\ PaddingPart \in Nat /\ PaddingPart <= paddingLen
           /\ AfterPadding = AfterContent + PaddingPart /\ AfterPadding <= buffStop
           /\ PaddingPart = paddingLen \/ AfterPadding = buffStop
           /\ HeaderPart \in Nat /\ HeaderPart <= HeaderLen - headerLen
           /\ AfterHeader = AfterPadding + HeaderPart /\ AfterHeader <= buffStop
           /\ HeaderPart = HeaderLen - headerLen \/ AfterHeader = buffStop
<1>1. /\ buffStop \in Nat /\ rdNext \in Nat /\ rdNext < buffStop /\ contentLen \in Nat /\ paddingLen \in Nat
      /\ headerLen \in Nat /\ HeaderLen \in Nat /\ headerLen < HeaderLen
  BY SizesAssumption DEF PtrsOK, RecordOK
<1>2. \A a, b \in Nat : Smaller(a, b) \in Nat /\ Smaller(a, b) <= a /\ Smaller(a, b) <= b
                        /\ (Smaller(a, b) = a \/ Smaller(a, b) = b)
  BY DEF Smaller
<1>3. Unread \in Nat /\ Unread > 0 /\ Unread = buffStop - rdNext
  BY <1>1 DEF Unread
<1>4. /\ ContentPart \in Nat /\ ContentPart <= contentLen /\ ContentPart <= Unread
      /\ ContentPart = contentLen \/ ContentPart = Unread
  BY <1>1, <1>2, <1>3 DEF ContentPart
<1>5. AfterContent = rdNext + ContentPart /\ AfterContent \in Nat /\ AfterContent <= buffStop
      /\ (ContentPart = contentLen \/ AfterContent = buffStop)
      /\ (contentLen > 0 => ContentPart > 0)
  BY <1>1, <1>3, <1>4 DEF AfterContent
<1>6. /\ PaddingPart \in Nat /\ PaddingPart <= paddingLen /\ PaddingPart <= buffStop - AfterContent
      /\ PaddingPart = paddingLen \/ PaddingPart = buffStop - AfterContent
  <2>1. buffStop - AfterContent \in Nat
    BY <1>1, <1>5
  <2> QED BY <1>1, <1>2, <2>1 DEF PaddingPart
<1>7. AfterPadding = AfterContent + PaddingPart /\ AfterPadding \in Nat /\ AfterPadding <= buffStop
      /\ (PaddingPart = paddingLen \/ AfterPadding = buffStop)
  BY <1>1, <1>5, <1>6 DEF AfterPadding
<1>8. /\ HeaderPart \in Nat /\ HeaderPart <= HeaderLen - headerLen /\ HeaderPart <= buffStop - AfterPadding
      /\ HeaderPart = HeaderLen - headerLen \/ HeaderPart = buffStop - AfterPadding
  <2>1. buffStop - AfterPadding \in Nat /\ HeaderLen - headerLen \in Nat
    BY <1>1, <1>7
  <2> QED BY <1>1, <1>2, <2>1 DEF HeaderPart
<1>9. AfterHeader = AfterPadding + HeaderPart /\ AfterHeader <= buffStop
      /\ (HeaderPart = HeaderLen - headerLen \/ AfterHeader = buffStop)
  BY <1>1, <1>7, <1>8 DEF AfterHeader
<1> QED BY <1>4, <1>5, <1>6, <1>7, <1>8, <1>9

\* A header that makes sense is that of the record it stands for.
LEMMA HeaderIsRecord ==
    ASSUME ServerOK, PtrsOK, RecordOK, AtHeader, AlignedHeader(AfterHeader)
    PROVE  /\ AfterHeader \in 1..Len(wire) /\ wire[AfterHeader][1] \in DOMAIN script
           /\ Header \in Record /\ Header = script[wire[AfterHeader][1]]
<1>1. /\ Len(wire) \in Nat /\ CellsOf(script, wire) /\ DOMAIN script = 1..Len(script)
      /\ \A i \in 1..Len(script) : script[i] \in Record
  BY WireFacts
<1>2. sent \in Nat /\ sent <= Len(wire) /\ buffStop \in Nat /\ buffStop <= sent /\ rdNext \in Nat
  BY <1>1 DEF ServerOK, PtrsOK
<1>3. rdNext # buffStop
  BY DEF AtHeader, Filling
<1>4. AfterHeader <= buffStop /\ AfterHeader \in Nat
  <2>1. /\ AfterContent = rdNext + ContentPart /\ ContentPart \in Nat /\ AfterPadding = AfterContent + PaddingPart
        /\ PaddingPart \in Nat /\ AfterHeader = AfterPadding + HeaderPart /\ HeaderPart \in Nat
        /\ AfterHeader <= buffStop
    BY <1>2, <1>3, PartsOfIteration
  <2> QED BY <1>2, <2>1
<1>5. AfterHeader >= 1
  BY <1>4, SizesAssumption DEF AlignedHeader
<1>6. AfterHeader \in 1..Len(wire)
  BY <1>1, <1>2, <1>4, <1>5
<1>7. wire[AfterHeader][1] \in 1..Len(script)
  BY <1>1, <1>6 DEF CellsOf
<1> QED BY <1>1, <1>6, <1>7 DEF Header, HeaderAt

LEMMA Iteration ==
    ASSUME ServerOK, PtrsOK, RecordOK, Filling
    PROVE  Within
<1>1. Len(wire) \in Nat
  BY WireFacts
<1>2. sent \in Nat /\ sent <= Len(wire)
  BY <1>1 DEF ServerOK
<1>3. rdNext # buffStop
  BY DEF Filling
<1>4. /\ rdNext \in Nat /\ buffStop \in Nat /\ rdNext < buffStop /\ buffStop <= sent
      /\ stop \in Nat /\ stopUnget \in Nat /\ stop <= buffStop
  BY <1>2, <1>3 DEF PtrsOK
<1>5. /\ contentLen \in Nat /\ paddingLen \in Nat /\ headerLen \in Nat /\ headerLen < HeaderLen
      /\ HeaderLen \in Nat /\ HeaderLen > 0
  BY SizesAssumption DEF RecordOK
<1>6. /\ ContentPart \in Nat /\ ContentPart <= contentLen
      /\ AfterContent = rdNext + ContentPart /\ AfterContent <= buffStop
      /\ ContentPart = contentLen \/ AfterContent = buffStop
      /\ contentLen > 0 => ContentPart > 0
      /\ PaddingPart \in Nat /\ PaddingPart <= paddingLen
      /\ AfterPadding = AfterContent + PaddingPart /\ AfterPadding <= buffStop
      /\ PaddingPart = paddingLen \/ AfterPadding = buffStop
      /\ HeaderPart \in Nat /\ HeaderPart <= HeaderLen - headerLen
      /\ AfterHeader = AfterPadding + HeaderPart /\ AfterHeader <= buffStop
      /\ HeaderPart = HeaderLen - headerLen \/ AfterHeader = buffStop
  BY <1>2, <1>3, PartsOfIteration
<1> QED BY <1>1, <1>2, <1>4, <1>5, <1>6 DEF Within

LEMMA ServerSendTypes ==
    ASSUME Typed, Control, ServerSend
    PROVE  Typed' /\ Control'
<1>1. /\ Len(wire) \in Nat /\ CellsOf(script, wire) /\ Runs(script, wire)
      /\ DOMAIN script = 1..Len(script) /\ \A i \in 1..Len(script) : script[i] \in Record
  BY WireFacts DEF Typed
<1>2. sent \in Nat /\ sent < Len(wire) /\ sent + 1 \in 1..Len(wire)
  BY <1>1 DEF Typed, ServerOK, ServerSend
<1> DEFINE i == wire[sent + 1][1]
           k == wire[sent + 1][2]
           z == Size(script[i])
<1>3. i \in 1..Len(script) /\ k \in 1..z /\ z \in Nat
  BY <1>1, <1>2, SizePositive DEF CellsOf
<1>4. sent' = sent + 1 + (z - k)
  BY DEF ServerSend
<1>5. sent + 1 + (z - k) \in 1..Len(wire)
  <2>1. 1 <= k + (z - k) /\ k + (z - k) <= z /\ z - k \in Int
    BY <1>3
  <2> HIDE DEF i, k, z
  <2>2. k = wire[sent + 1][2] /\ z = Size(script[wire[sent + 1][1]])
    BY DEF i, k, z
  <2> QED BY <1>1, <1>2, <2>1, <2>2 DEF Runs
<1>6. sent' \in 0..Len(wire) /\ sent <= sent' /\ sent' \in Nat
  BY <1>1, <1>2, <1>3, <1>4, <1>5
<1>7. ServerOK'
  BY <1>6 DEF ServerSend, Typed, ServerOK
<1>8. PtrsOK'
  <2>1. ptrs' = ptrs
    BY DEF ServerSend
  <2> QED BY <1>2, <1>6, <2>1 DEF ptrs, Typed, PtrsOK
<1>9. RecordOK' /\ StatusOK' /\ RequestOK' /\ ControlOK' /\ CallsOK'
  BY DEF ServerSend, Typed, RecordOK, StatusOK, RequestOK, ControlOK, CallsOK,
         record, status, request, control, calls
<1>10. Control'
  BY DEF ServerSend, Control, InProgress, ptrs, record, status, request, control, calls
<1> QED BY <1>7, <1>8, <1>9, <1>10 DEF Typed

LEMMA ServerCloseTypes ==
    ASSUME Typed, Control, ServerClose
    PROVE  Typed' /\ Control'
<1>1. ServerOK'
  BY WireFacts DEF ServerClose, Typed, ServerOK
<1>2. PtrsOK'
  <2>1. ptrs' = ptrs /\ sent \in Nat /\ sent' \in Nat /\ sent <= sent'
    BY WireFacts DEF ServerClose, Typed, ServerOK
  <2> QED BY <2>1 DEF ptrs, Typed, PtrsOK
<1>3. RecordOK' /\ StatusOK' /\ RequestOK' /\ ControlOK' /\ CallsOK'
  BY DEF ServerClose, Typed, RecordOK, StatusOK, RequestOK, ControlOK, CallsOK,
         record, status, request, control, calls
<1>4. Control'
  BY DEF ServerClose, Control, InProgress, ptrs, record, status, request, control, calls
<1> QED BY <1>1, <1>2, <1>3, <1>4 DEF Typed

LEMMA OSReadTypes ==
    ASSUME Typed, Control, OSRead
    PROVE  Typed' /\ Control'
<1>1. buffStop' \in Nat /\ buffStop <= buffStop' /\ buffStop' <= sent
  <2>1. sent \in Nat /\ buffStop \in Nat /\ buffStop <= sent /\ BufLen \in Nat
    BY WireFacts, SizesAssumption DEF Typed, ServerOK, PtrsOK
  <2>2. \A n \in 1..Smaller(BufLen, sent - buffStop) : n \in Nat /\ buffStop + n <= sent
    BY <2>1 DEF Smaller
  <2> QED BY <2>1, <2>2 DEF OSRead
<1>2. ServerOK' /\ RecordOK' /\ StatusOK' /\ RequestOK' /\ ControlOK' /\ CallsOK'
  BY DEF OSRead, Typed, ServerOK, RecordOK, StatusOK, RequestOK, ControlOK, CallsOK,
         server, record, status, request, control, calls
<1>3. PtrsOK'
  BY <1>1, WireFacts DEF OSRead, server, Typed, PtrsOK, ServerOK
<1>4. Control'
  BY DEF OSRead, Control, InProgress, record, status, request, control, calls
<1> QED BY <1>2, <1>3, <1>4 DEF Typed

LEMMA OSReadFailsTypes ==
    ASSUME Typed, Control, OSReadFails
    PROVE  Typed' /\ Control'
<1>1. ServerOK' /\ PtrsOK' /\ RequestOK' /\ ControlOK' /\ CallsOK'
  BY DEF OSReadFails, Typed, ServerOK, PtrsOK, RequestOK, ControlOK, CallsOK,
         server, ptrs, request, calls
<1>2. RecordOK'
  BY SizesAssumption DEF OSReadFails, Typed, RecordOK
<1>3. StatusOK'
  BY DEF OSReadFails, Typed, StatusOK, SetError, Errors
<1>4. Control'
  BY DEF OSReadFails, MustRead, SetError, Control, InProgress, ptrs, request, calls, Typed, PtrsOK
<1> QED BY <1>1, <1>2, <1>3, <1>4 DEF Typed

LEMMA DeliverContentTypes ==
    ASSUME Typed, Control, DeliverContent
    PROVE  Typed' /\ Control'
<1>0. Within
  BY Iteration DEF Typed, DeliverContent, PastContent
<1>1. ServerOK' /\ StatusOK' /\ RequestOK' /\ ControlOK' /\ CallsOK'
  BY DEF DeliverContent, Typed, ServerOK, StatusOK, RequestOK, ControlOK, CallsOK,
         server, status, request, calls
<1>2. PtrsOK'
  BY <1>0 DEF Within, DeliverContent, Typed, PtrsOK, server
<1>3. RecordOK'
  BY <1>0 DEF Within, DeliverContent, Typed, RecordOK
<1>4. Control'
  <2>1. rdNext \in Nat /\ rdNext <= AfterContent /\ contentLen # 0
    BY <1>0 DEF Within, Typed, DeliverContent
  <2>2. headerLen \in Nat
    BY SizesAssumption DEF Typed, RecordOK
  <2> QED BY <2>1, <2>2 DEF DeliverContent, Filling, Control, InProgress, status, request, calls
<1> QED BY <1>1, <1>2, <1>3, <1>4 DEF Typed

LEMMA SkipContentTypes ==
    ASSUME Typed, Control, SkipContent
    PROVE  Typed' /\ Control'
<1>0. Within
  BY Iteration DEF Typed, SkipContent, PastContent
<1>1. ServerOK' /\ StatusOK' /\ RequestOK' /\ ControlOK' /\ CallsOK'
  BY DEF SkipContent, Typed, ServerOK, StatusOK, RequestOK, ControlOK, CallsOK,
         server, status, request, control, calls
<1>2. PtrsOK'
  BY <1>0 DEF Within, SkipContent, Typed, PtrsOK, server
<1>3. RecordOK'
  BY <1>0 DEF Within, SkipContent, Typed, RecordOK
<1>4. Control'
  <2>1. rdNext \in Nat /\ rdNext <= rdNext' /\ rdNext' \in Nat /\ stopUnget \in Nat /\ contentLen # 0
    BY <1>0 DEF Within, Typed, SkipContent
  <2>2. stopUnget' <= rdNext' /\ (rdNext >= 1 => rdNext' >= 1) /\ headerLen' <= rdNext'
    BY <1>0, <2>1 DEF Within, SkipContent, Control
  <2>3. headerLen \in Nat
    BY SizesAssumption DEF Typed, RecordOK
  <2> QED BY <2>1, <2>2, <2>3 DEF SkipContent, Filling, Control, InProgress, status, request, calls, control
<1> QED BY <1>1, <1>2, <1>3, <1>4 DEF Typed

LEMMA SkipPaddingTypes ==
    ASSUME Typed, Control, SkipPadding
    PROVE  Typed' /\ Control'
<1>0. Within
  BY Iteration DEF Typed, SkipPadding, PastContent
<1>1. ServerOK' /\ StatusOK' /\ RequestOK' /\ ControlOK' /\ CallsOK'
  BY DEF SkipPadding, Typed, ServerOK, StatusOK, RequestOK, ControlOK, CallsOK,
         server, status, request, control, calls
<1>2. PtrsOK'
  BY <1>0 DEF Within, SkipPadding, Typed, PtrsOK, server
<1>3. RecordOK'
  BY <1>0 DEF Within, SkipPadding, PastContent, Typed, RecordOK
<1>4. Control'
  <2>1. rdNext \in Nat /\ rdNext <= rdNext' /\ rdNext' \in Nat /\ stopUnget \in Nat /\ paddingLen # 0
    BY <1>0 DEF Within, Typed, SkipPadding
  <2>2. stopUnget' <= rdNext' /\ (rdNext >= 1 => rdNext' >= 1) /\ headerLen' <= rdNext'
    BY <1>0, <2>1 DEF Within, SkipPadding, Control
  <2>3. headerLen \in Nat
    BY SizesAssumption DEF Typed, RecordOK
  <2> QED BY <2>1, <2>2, <2>3 DEF SkipPadding, PastContent, Filling, Control, InProgress, status, request, calls, control
<1> QED BY <1>1, <1>2, <1>3, <1>4 DEF Typed

LEMMA DeliverEndOfRecordTypes ==
    ASSUME Typed, Control, DeliverEndOfRecord
    PROVE  Typed' /\ Control'
<1>0. Within
  BY Iteration DEF Typed, DeliverEndOfRecord, PastContent
<1>1. ServerOK' /\ StatusOK' /\ RequestOK' /\ ControlOK' /\ CallsOK'
  BY DEF DeliverEndOfRecord, Typed, ServerOK, StatusOK, RequestOK, ControlOK, CallsOK,
         server, request, calls
<1>2. PtrsOK'
  BY <1>0 DEF Within, DeliverEndOfRecord, Typed, PtrsOK, server
<1>3. RecordOK'
  BY <1>0 DEF Within, DeliverEndOfRecord, PastContent, Typed, RecordOK
<1>4. Control'
  <2>1. rdNext \in Nat /\ rdNext <= rdNext' /\ rdNext' \in Nat /\ stopUnget \in Nat
    BY <1>0 DEF Within, Typed, DeliverEndOfRecord
  <2>2. stopUnget' <= rdNext' /\ (rdNext >= 1 => rdNext' >= 1) /\ headerLen' <= rdNext'
    BY <1>0, <2>1 DEF Within, DeliverEndOfRecord, Control
  <2>3. headerLen \in Nat /\ ~(headerLen > 0)
    BY <1>0 DEF Within, Control, DeliverEndOfRecord
  <2> QED BY <2>1, <2>2, <2>3 DEF DeliverEndOfRecord, PastContent, Filling, Control, InProgress, request, calls
<1> QED BY <1>1, <1>2, <1>3, <1>4 DEF Typed

LEMMA GatherHeaderTypes ==
    ASSUME Typed, Control, GatherHeader
    PROVE  Typed' /\ Control'
<1>0. Within
  BY Iteration DEF Typed, GatherHeader, PastContent
<1>1. ServerOK' /\ StatusOK' /\ RequestOK' /\ ControlOK' /\ CallsOK'
  BY DEF GatherHeader, Typed, ServerOK, StatusOK, RequestOK, ControlOK, CallsOK,
         server, status, request, control, calls
<1>2. PtrsOK'
  BY <1>0 DEF Within, GatherHeader, Typed, PtrsOK, server
<1>3. RecordOK'
  BY <1>0 DEF Within, GatherHeader, PastContent, Typed, RecordOK
<1>4. Control'
  <2>1. /\ rdNext \in Nat /\ rdNext <= rdNext' /\ rdNext' \in Nat /\ stopUnget \in Nat
        /\ paddingLen - PaddingPart = 0
    BY <1>0 DEF Within, Typed, GatherHeader
  <2>2. stopUnget' <= rdNext' /\ (rdNext >= 1 => rdNext' >= 1) /\ headerLen' <= rdNext'
    BY <1>0, <2>1 DEF Within, GatherHeader, Control
  <2> QED BY <2>1, <2>2 DEF GatherHeader, PastContent, Filling, Control, InProgress, status, request, calls, control
<1> QED BY <1>1, <1>2, <1>3, <1>4 DEF Typed

\* What the ten ways to handle a header have in common.
Arrived ==
    /\ rdNext' = AfterHeader /\ stop' = AfterHeader /\ headerLen' = 0
    /\ AfterHeader \in Nat /\ AfterHeader > rdNext /\ AfterHeader <= buffStop
    /\ rdNext \in Nat /\ HeaderLen \in Nat \ {0}
    /\ script' = script /\ wire' = wire /\ sent' = sent /\ serverShut' = serverShut
    /\ buffStop' = buffStop /\ stopUnget' = stopUnget /\ stopUnget \in Nat
    /\ type' = type /\ phase' = phase /\ pairPos' = pairPos /\ got' = got /\ served' = served
    /\ wasFCloseCalled' = wasFCloseCalled /\ cleared' = cleared
    /\ pc = "fill" /\ ~eorStop /\ nested = "none" /\ ~isClosed

LEMMA HeaderArrives ==
    ASSUME Typed, Control, AtHeader
    PROVE  Arrived
<1>1. Within
  BY Iteration DEF Typed, AtHeader
<1>2. AfterHeader \in Nat /\ AfterHeader > rdNext /\ AfterHeader <= buffStop
  BY <1>1 DEF Within, AtHeader
<1>3. pc = "fill" /\ ~eorStop /\ nested = "none" /\ ~isClosed
  BY DEF AtHeader, Filling, Control
<1>4. rdNext \in Nat /\ HeaderLen \in Nat \ {0} /\ stopUnget \in Nat
  BY <1>1 DEF Within
<1> QED BY <1>2, <1>3, <1>4 DEF AtHeader, Arrived, server, calls

\* A header of which sense can be made.
Recognised ==
    /\ wire[AfterHeader][1] \in DOMAIN script
    /\ Header \in Record /\ Header = script[wire[AfterHeader][1]]
    /\ AfterHeader \in 1..Len(wire)

LEMMA RecordArrives ==
    ASSUME Typed, AtRecord
    PROVE  Recognised
BY HeaderIsRecord DEF Typed, AtRecord, Recognised

LEMMA UnsupportedVersionTypes ==
    ASSUME Typed, Control, UnsupportedVersion
    PROVE  Typed' /\ Control'
<1>1. Arrived
  BY HeaderArrives DEF UnsupportedVersion
<1>3. contentLen' \in Nat /\ paddingLen' \in Nat
  BY DEF UnsupportedVersion
<1>4. isClosed' \in BOOLEAN /\ FCGI_errno' \in Errors /\ skip' \in BOOLEAN /\ eorStop' \in BOOLEAN
  BY DEF UnsupportedVersion, ReturnError, ContinueFill, Recurse, KeepSkip, SetError, Answer, AnswerFails, Typed, StatusOK, RecordOK, Errors
<1>5. replies' \in Seq(DOMAIN script)
  BY TRUE DEF Recognised, UnsupportedVersion, ReturnError, ContinueFill, Recurse, KeepSkip, SetError, Answer, AnswerFails, Typed, ServerOK
<1>6. ServerOK'
  BY <1>1, <1>5 DEF Arrived, Typed, ServerOK
<1>7. PtrsOK'
  BY <1>1 DEF Arrived, Typed, PtrsOK
<1>8. RecordOK'
  BY <1>1, <1>3, <1>4 DEF Arrived, RecordOK
<1>9. StatusOK' /\ CallsOK'
  BY <1>1, <1>4 DEF Arrived, Typed, StatusOK, CallsOK
<1>10. RequestOK'
  BY <1>1 DEF Arrived, Recognised, Record, UnsupportedVersion, request, Typed, RequestOK
<1>11. ControlOK'
  BY <1>1 DEF Arrived, UnsupportedVersion, ReturnError, ContinueFill, Recurse, KeepSkip, SetError, Answer, AnswerFails, Typed, ControlOK
<1>12. Control'
  <2>1. stopUnget' <= rdNext' /\ headerLen' <= rdNext' /\ rdNext' >= 1 /\ rdNext' = stop' /\ ~(headerLen' > 0)
    BY <1>1 DEF Arrived, Control
  <2>2. pc' \in {"fill", "use"} /\ (pc' = "fill" => ~isClosed') /\ (pc' = "use" => isClosed')
    BY <1>1 DEF Arrived, UnsupportedVersion, ReturnError, ContinueFill, Recurse, KeepSkip, SetError, Answer, AnswerFails
  <2>5. eorStop' = (nested' # "none")
    BY <1>1 DEF Arrived, UnsupportedVersion, ReturnError, ContinueFill, Recurse, KeepSkip, SetError, Answer, AnswerFails, Control
  <2>3. (nested' = "begin" => phase' = "begin") /\ (phase' # "begin" => isBeginProcessed')
    BY <1>1 DEF Arrived, UnsupportedVersion, ReturnError, ContinueFill, Recurse, KeepSkip, SetError, Answer, AnswerFails, Control, request
  <2>4. InProgress' /\ FCGI_errno' # "none" /\ phase' # "app" => pc' = "use" /\ isClosed'
    BY <1>1 DEF Arrived, UnsupportedVersion, ReturnError, ContinueFill, Recurse, KeepSkip, SetError, Answer, AnswerFails, Control, InProgress
  <2>6. InProgress' /\ phase' = "begin" /\ isBeginProcessed' => pc' = "use" /\ nested' = "none" /\ ~isClosed'
    BY <1>1 DEF Arrived, UnsupportedVersion, ReturnError, ContinueFill, Recurse, KeepSkip, SetError, Answer, AnswerFails, Control, InProgress, request
  <2> QED BY <1>1, <2>1, <2>2, <2>3, <2>4, <2>5, <2>6 DEF Arrived, Control
<1> QED BY <1>6, <1>7, <1>8, <1>9, <1>10, <1>11, <1>12 DEF Typed

LEMMA RefuseBeginTypes ==
    ASSUME Typed, Control, RefuseBegin
    PROVE  Typed' /\ Control'
<1>1. Arrived
  BY HeaderArrives DEF RefuseBegin, AtRecord
<1>2. Recognised
  BY RecordArrives DEF RefuseBegin
<1>3. contentLen' \in Nat /\ paddingLen' \in Nat
  BY <1>2 DEF Recognised, Record, RefuseBegin, AtRecord
<1>4. isClosed' \in BOOLEAN /\ FCGI_errno' \in Errors /\ skip' \in BOOLEAN /\ eorStop' \in BOOLEAN
  BY DEF RefuseBegin, ReturnError, ContinueFill, Recurse, KeepSkip, SetError, Answer, AnswerFails, Typed, StatusOK, RecordOK, Errors
<1>5. replies' \in Seq(DOMAIN script)
  BY <1>2 DEF Recognised, RefuseBegin, ReturnError, ContinueFill, Recurse, KeepSkip, SetError, Answer, AnswerFails, Typed, ServerOK
<1>6. ServerOK'
  BY <1>1, <1>5 DEF Arrived, Typed, ServerOK
<1>7. PtrsOK'
  BY <1>1 DEF Arrived, Typed, PtrsOK
<1>8. RecordOK'
  BY <1>1, <1>3, <1>4 DEF Arrived, RecordOK
<1>9. StatusOK' /\ CallsOK'
  BY <1>1, <1>4 DEF Arrived, Typed, StatusOK, CallsOK
<1>10. RequestOK'
  BY <1>1, <1>2 DEF Arrived, Recognised, Record, RefuseBegin, request, Typed, RequestOK
<1>11. ControlOK'
  BY <1>1 DEF Arrived, RefuseBegin, ReturnError, ContinueFill, Recurse, KeepSkip, SetError, Answer, AnswerFails, Typed, ControlOK
<1>12. Control'
  <2>1. stopUnget' <= rdNext' /\ headerLen' <= rdNext' /\ rdNext' >= 1 /\ rdNext' = stop' /\ ~(headerLen' > 0)
    BY <1>1 DEF Arrived, Control
  <2>2. pc' \in {"fill", "use"} /\ (pc' = "fill" => ~isClosed') /\ (pc' = "use" => isClosed')
    BY <1>1 DEF Arrived, RefuseBegin, ReturnError, ContinueFill, Recurse, KeepSkip, SetError, Answer, AnswerFails
  <2>5. eorStop' = (nested' # "none")
    BY <1>1 DEF Arrived, RefuseBegin, ReturnError, ContinueFill, Recurse, KeepSkip, SetError, Answer, AnswerFails, Control
  <2>3. (nested' = "begin" => phase' = "begin") /\ (phase' # "begin" => isBeginProcessed')
    BY <1>1 DEF Arrived, RefuseBegin, ReturnError, ContinueFill, Recurse, KeepSkip, SetError, Answer, AnswerFails, Control, request
  <2>4. InProgress' /\ FCGI_errno' # "none" /\ phase' # "app" => pc' = "use" /\ isClosed'
    BY <1>1 DEF Arrived, RefuseBegin, ReturnError, ContinueFill, Recurse, KeepSkip, SetError, Answer, AnswerFails, Control, InProgress
  <2>6. InProgress' /\ phase' = "begin" /\ isBeginProcessed' => pc' = "use" /\ nested' = "none" /\ ~isClosed'
    BY <1>1 DEF Arrived, RefuseBegin, ReturnError, ContinueFill, Recurse, KeepSkip, SetError, Answer, AnswerFails, Control, InProgress, request
  <2> QED BY <1>1, <2>1, <2>2, <2>3, <2>4, <2>5, <2>6 DEF Arrived, Control
<1> QED BY <1>6, <1>7, <1>8, <1>9, <1>10, <1>11, <1>12 DEF Typed

LEMMA RefuseMultiplexingTypes ==
    ASSUME Typed, Control, RefuseMultiplexing
    PROVE  Typed' /\ Control'
<1>1. Arrived
  BY HeaderArrives DEF RefuseMultiplexing, AtRecord
<1>2. Recognised
  BY RecordArrives DEF RefuseMultiplexing
<1>3. contentLen' \in Nat /\ paddingLen' \in Nat
  BY <1>2 DEF Recognised, Record, RefuseMultiplexing, AtRecord
<1>4. isClosed' \in BOOLEAN /\ FCGI_errno' \in Errors /\ skip' \in BOOLEAN /\ eorStop' \in BOOLEAN
  BY DEF RefuseMultiplexing, ReturnError, ContinueFill, Recurse, KeepSkip, SetError, Answer, AnswerFails, Typed, StatusOK, RecordOK, Errors
<1>5. replies' \in Seq(DOMAIN script)
  BY <1>2 DEF Recognised, RefuseMultiplexing, ReturnError, ContinueFill, Recurse, KeepSkip, SetError, Answer, AnswerFails, Typed, ServerOK
<1>6. ServerOK'
  BY <1>1, <1>5 DEF Arrived, Typed, ServerOK
<1>7. PtrsOK'
  BY <1>1 DEF Arrived, Typed, PtrsOK
<1>8. RecordOK'
  BY <1>1, <1>3, <1>4 DEF Arrived, RecordOK
<1>9. StatusOK' /\ CallsOK'
  BY <1>1, <1>4 DEF Arrived, Typed, StatusOK, CallsOK
<1>10. RequestOK'
  BY <1>1, <1>2 DEF Arrived, Recognised, Record, RefuseMultiplexing, request, Typed, RequestOK
<1>11. ControlOK'
  BY <1>1 DEF Arrived, RefuseMultiplexing, ReturnError, ContinueFill, Recurse, KeepSkip, SetError, Answer, AnswerFails, Typed, ControlOK
<1>12. Control'
  <2>1. stopUnget' <= rdNext' /\ headerLen' <= rdNext' /\ rdNext' >= 1 /\ rdNext' = stop' /\ ~(headerLen' > 0)
    BY <1>1 DEF Arrived, Control
  <2>2. pc' \in {"fill", "use"} /\ (pc' = "fill" => ~isClosed') /\ (pc' = "use" => isClosed')
    BY <1>1 DEF Arrived, RefuseMultiplexing, ReturnError, ContinueFill, Recurse, KeepSkip, SetError, Answer, AnswerFails
  <2>5. eorStop' = (nested' # "none")
    BY <1>1 DEF Arrived, RefuseMultiplexing, ReturnError, ContinueFill, Recurse, KeepSkip, SetError, Answer, AnswerFails, Control
  <2>3. (nested' = "begin" => phase' = "begin") /\ (phase' # "begin" => isBeginProcessed')
    BY <1>1 DEF Arrived, RefuseMultiplexing, ReturnError, ContinueFill, Recurse, KeepSkip, SetError, Answer, AnswerFails, Control, request
  <2>4. InProgress' /\ FCGI_errno' # "none" /\ phase' # "app" => pc' = "use" /\ isClosed'
    BY <1>1 DEF Arrived, RefuseMultiplexing, ReturnError, ContinueFill, Recurse, KeepSkip, SetError, Answer, AnswerFails, Control, InProgress
  <2>6. InProgress' /\ phase' = "begin" /\ isBeginProcessed' => pc' = "use" /\ nested' = "none" /\ ~isClosed'
    BY <1>1 DEF Arrived, RefuseMultiplexing, ReturnError, ContinueFill, Recurse, KeepSkip, SetError, Answer, AnswerFails, Control, InProgress, request
  <2> QED BY <1>1, <2>1, <2>2, <2>3, <2>4, <2>5, <2>6 DEF Arrived, Control
<1> QED BY <1>6, <1>7, <1>8, <1>9, <1>10, <1>11, <1>12 DEF Typed

LEMMA BeginRequestTypes ==
    ASSUME Typed, Control, BeginRequest
    PROVE  Typed' /\ Control'
<1>1. Arrived
  BY HeaderArrives DEF BeginRequest, AtRecord
<1>2. Recognised
  BY RecordArrives DEF BeginRequest
<1>3. contentLen' \in Nat /\ paddingLen' \in Nat
  BY <1>2 DEF Recognised, Record, BeginRequest, AtRecord
<1>4. isClosed' \in BOOLEAN /\ FCGI_errno' \in Errors /\ skip' \in BOOLEAN /\ eorStop' \in BOOLEAN
  BY DEF BeginRequest, ReturnError, ContinueFill, Recurse, KeepSkip, SetError, Answer, AnswerFails, Typed, StatusOK, RecordOK, Errors
<1>5. replies' \in Seq(DOMAIN script)
  BY <1>2 DEF Recognised, BeginRequest, ReturnError, ContinueFill, Recurse, KeepSkip, SetError, Answer, AnswerFails, Typed, ServerOK
<1>6. ServerOK'
  BY <1>1, <1>5 DEF Arrived, Typed, ServerOK
<1>7. PtrsOK'
  BY <1>1 DEF Arrived, Typed, PtrsOK
<1>8. RecordOK'
  BY <1>1, <1>3, <1>4 DEF Arrived, RecordOK
<1>9. StatusOK' /\ CallsOK'
  BY <1>1, <1>4 DEF Arrived, Typed, StatusOK, CallsOK
<1>10. RequestOK'
  BY <1>1, <1>2 DEF Arrived, Recognised, Record, BeginRequest, request, Typed, RequestOK
<1>11. ControlOK'
  BY <1>1 DEF Arrived, BeginRequest, ReturnError, ContinueFill, Recurse, KeepSkip, SetError, Answer, AnswerFails, Typed, ControlOK
<1>12. Control'
  <2>1. stopUnget' <= rdNext' /\ headerLen' <= rdNext' /\ rdNext' >= 1 /\ rdNext' = stop' /\ ~(headerLen' > 0)
    BY <1>1 DEF Arrived, Control
  <2>2. pc' \in {"fill", "use"} /\ (pc' = "fill" => ~isClosed') /\ (pc' = "use" => isClosed')
    BY <1>1 DEF Arrived, BeginRequest, ReturnError, ContinueFill, Recurse, KeepSkip, SetError, Answer, AnswerFails
  <2>5. eorStop' = (nested' # "none")
    BY <1>1 DEF Arrived, BeginRequest, ReturnError, ContinueFill, Recurse, KeepSkip, SetError, Answer, AnswerFails, Control
  <2>3. (nested' = "begin" => phase' = "begin") /\ (phase' # "begin" => isBeginProcessed')
    BY <1>1 DEF Arrived, BeginRequest, ReturnError, ContinueFill, Recurse, KeepSkip, SetError, Answer, AnswerFails, Control, request
  <2>4. InProgress' /\ FCGI_errno' # "none" /\ phase' # "app" => pc' = "use" /\ isClosed'
    BY <1>1 DEF Arrived, BeginRequest, ReturnError, ContinueFill, Recurse, KeepSkip, SetError, Answer, AnswerFails, Control, InProgress
  <2>6. InProgress' /\ phase' = "begin" /\ isBeginProcessed' => pc' = "use" /\ nested' = "none" /\ ~isClosed'
    BY <1>1 DEF Arrived, BeginRequest, ReturnError, ContinueFill, Recurse, KeepSkip, SetError, Answer, AnswerFails, Control, InProgress, request
  <2> QED BY <1>1, <2>1, <2>2, <2>3, <2>4, <2>5, <2>6 DEF Arrived, Control
<1> QED BY <1>6, <1>7, <1>8, <1>9, <1>10, <1>11, <1>12 DEF Typed

LEMMA GetValuesTypes ==
    ASSUME Typed, Control, GetValues
    PROVE  Typed' /\ Control'
<1>1. Arrived
  BY HeaderArrives DEF GetValues, AtRecord
<1>2. Recognised
  BY RecordArrives DEF GetValues
<1>3. contentLen' \in Nat /\ paddingLen' \in Nat
  BY <1>2 DEF Recognised, Record, GetValues, AtRecord
<1>4. isClosed' \in BOOLEAN /\ FCGI_errno' \in Errors /\ skip' \in BOOLEAN /\ eorStop' \in BOOLEAN
  BY DEF GetValues, ReturnError, ContinueFill, Recurse, KeepSkip, SetError, Answer, AnswerFails, Typed, StatusOK, RecordOK, Errors
<1>5. replies' \in Seq(DOMAIN script)
  BY <1>2 DEF Recognised, GetValues, ReturnError, ContinueFill, Recurse, KeepSkip, SetError, Answer, AnswerFails, Typed, ServerOK
<1>6. ServerOK'
  BY <1>1, <1>5 DEF Arrived, Typed, ServerOK
<1>7. PtrsOK'
  BY <1>1 DEF Arrived, Typed, PtrsOK
<1>8. RecordOK'
  BY <1>1, <1>3, <1>4 DEF Arrived, RecordOK
<1>9. StatusOK' /\ CallsOK'
  BY <1>1, <1>4 DEF Arrived, Typed, StatusOK, CallsOK
<1>10. RequestOK'
  BY <1>1, <1>2 DEF Arrived, Recognised, Record, GetValues, request, Typed, RequestOK
<1>11. ControlOK'
  BY <1>1 DEF Arrived, GetValues, ReturnError, ContinueFill, Recurse, KeepSkip, SetError, Answer, AnswerFails, Typed, ControlOK
<1>12. Control'
  <2>1. stopUnget' <= rdNext' /\ headerLen' <= rdNext' /\ rdNext' >= 1 /\ rdNext' = stop' /\ ~(headerLen' > 0)
    BY <1>1 DEF Arrived, Control
  <2>2. pc' \in {"fill", "use"} /\ (pc' = "fill" => ~isClosed') /\ (pc' = "use" => isClosed')
    BY <1>1 DEF Arrived, GetValues, ReturnError, ContinueFill, Recurse, KeepSkip, SetError, Answer, AnswerFails
  <2>5. eorStop' = (nested' # "none")
    BY <1>1 DEF Arrived, GetValues, ReturnError, ContinueFill, Recurse, KeepSkip, SetError, Answer, AnswerFails, Control
  <2>3. (nested' = "begin" => phase' = "begin") /\ (phase' # "begin" => isBeginProcessed')
    BY <1>1 DEF Arrived, GetValues, ReturnError, ContinueFill, Recurse, KeepSkip, SetError, Answer, AnswerFails, Control, request
  <2>4. InProgress' /\ FCGI_errno' # "none" /\ phase' # "app" => pc' = "use" /\ isClosed'
    BY <1>1 DEF Arrived, GetValues, ReturnError, ContinueFill, Recurse, KeepSkip, SetError, Answer, AnswerFails, Control, InProgress
  <2>6. InProgress' /\ phase' = "begin" /\ isBeginProcessed' => pc' = "use" /\ nested' = "none" /\ ~isClosed'
    BY <1>1 DEF Arrived, GetValues, ReturnError, ContinueFill, Recurse, KeepSkip, SetError, Answer, AnswerFails, Control, InProgress, request
  <2> QED BY <1>1, <2>1, <2>2, <2>3, <2>4, <2>5, <2>6 DEF Arrived, Control
<1> QED BY <1>6, <1>7, <1>8, <1>9, <1>10, <1>11, <1>12 DEF Typed

LEMMA UnknownManagementTypes ==
    ASSUME Typed, Control, UnknownManagement
    PROVE  Typed' /\ Control'
<1>1. Arrived
  BY HeaderArrives DEF UnknownManagement, AtRecord
<1>2. Recognised
  BY RecordArrives DEF UnknownManagement
<1>3. contentLen' \in Nat /\ paddingLen' \in Nat
  BY <1>2 DEF Recognised, Record, UnknownManagement, AtRecord
<1>4. isClosed' \in BOOLEAN /\ FCGI_errno' \in Errors /\ skip' \in BOOLEAN /\ eorStop' \in BOOLEAN
  BY DEF UnknownManagement, ReturnError, ContinueFill, Recurse, KeepSkip, SetError, Answer, AnswerFails, Typed, StatusOK, RecordOK, Errors
<1>5. replies' \in Seq(DOMAIN script)
  BY <1>2 DEF Recognised, UnknownManagement, ReturnError, ContinueFill, Recurse, KeepSkip, SetError, Answer, AnswerFails, Typed, ServerOK
<1>6. ServerOK'
  BY <1>1, <1>5 DEF Arrived, Typed, ServerOK
<1>7. PtrsOK'
  BY <1>1 DEF Arrived, Typed, PtrsOK
<1>8. RecordOK'
  BY <1>1, <1>3, <1>4 DEF Arrived, RecordOK
<1>9. StatusOK' /\ CallsOK'
  BY <1>1, <1>4 DEF Arrived, Typed, StatusOK, CallsOK
<1>10. RequestOK'
  BY <1>1, <1>2 DEF Arrived, Recognised, Record, UnknownManagement, request, Typed, RequestOK
<1>11. ControlOK'
  BY <1>1 DEF Arrived, UnknownManagement, ReturnError, ContinueFill, Recurse, KeepSkip, SetError, Answer, AnswerFails, Typed, ControlOK
<1>12. Control'
  <2>1. stopUnget' <= rdNext' /\ headerLen' <= rdNext' /\ rdNext' >= 1 /\ rdNext' = stop' /\ ~(headerLen' > 0)
    BY <1>1 DEF Arrived, Control
  <2>2. pc' \in {"fill", "use"} /\ (pc' = "fill" => ~isClosed') /\ (pc' = "use" => isClosed')
    BY <1>1 DEF Arrived, UnknownManagement, ReturnError, ContinueFill, Recurse, KeepSkip, SetError, Answer, AnswerFails
  <2>5. eorStop' = (nested' # "none")
    BY <1>1 DEF Arrived, UnknownManagement, ReturnError, ContinueFill, Recurse, KeepSkip, SetError, Answer, AnswerFails, Control
  <2>3. (nested' = "begin" => phase' = "begin") /\ (phase' # "begin" => isBeginProcessed')
    BY <1>1 DEF Arrived, UnknownManagement, ReturnError, ContinueFill, Recurse, KeepSkip, SetError, Answer, AnswerFails, Control, request
  <2>4. InProgress' /\ FCGI_errno' # "none" /\ phase' # "app" => pc' = "use" /\ isClosed'
    BY <1>1 DEF Arrived, UnknownManagement, ReturnError, ContinueFill, Recurse, KeepSkip, SetError, Answer, AnswerFails, Control, InProgress
  <2>6. InProgress' /\ phase' = "begin" /\ isBeginProcessed' => pc' = "use" /\ nested' = "none" /\ ~isClosed'
    BY <1>1 DEF Arrived, UnknownManagement, ReturnError, ContinueFill, Recurse, KeepSkip, SetError, Answer, AnswerFails, Control, InProgress, request
  <2> QED BY <1>1, <2>1, <2>2, <2>3, <2>4, <2>5, <2>6 DEF Arrived, Control
<1> QED BY <1>6, <1>7, <1>8, <1>9, <1>10, <1>11, <1>12 DEF Typed

LEMMA ForeignRecordTypes ==
    ASSUME Typed, Control, ForeignRecord
    PROVE  Typed' /\ Control'
<1>1. Arrived
  BY HeaderArrives DEF ForeignRecord, AtRecord
<1>2. Recognised
  BY RecordArrives DEF ForeignRecord
<1>3. contentLen' \in Nat /\ paddingLen' \in Nat
  BY <1>2 DEF Recognised, Record, ForeignRecord, AtRecord
<1>4. isClosed' \in BOOLEAN /\ FCGI_errno' \in Errors /\ skip' \in BOOLEAN /\ eorStop' \in BOOLEAN
  BY DEF ForeignRecord, ReturnError, ContinueFill, Recurse, KeepSkip, SetError, Answer, AnswerFails, Typed, StatusOK, RecordOK, Errors
<1>5. replies' \in Seq(DOMAIN script)
  BY <1>2 DEF Recognised, ForeignRecord, ReturnError, ContinueFill, Recurse, KeepSkip, SetError, Answer, AnswerFails, Typed, ServerOK
<1>6. ServerOK'
  BY <1>1, <1>5 DEF Arrived, Typed, ServerOK
<1>7. PtrsOK'
  BY <1>1 DEF Arrived, Typed, PtrsOK
<1>8. RecordOK'
  BY <1>1, <1>3, <1>4 DEF Arrived, RecordOK
<1>9. StatusOK' /\ CallsOK'
  BY <1>1, <1>4 DEF Arrived, Typed, StatusOK, CallsOK
<1>10. RequestOK'
  BY <1>1, <1>2 DEF Arrived, Recognised, Record, ForeignRecord, request, Typed, RequestOK
<1>11. ControlOK'
  BY <1>1 DEF Arrived, ForeignRecord, ReturnError, ContinueFill, Recurse, KeepSkip, SetError, Answer, AnswerFails, Typed, ControlOK
<1>12. Control'
  <2>1. stopUnget' <= rdNext' /\ headerLen' <= rdNext' /\ rdNext' >= 1 /\ rdNext' = stop' /\ ~(headerLen' > 0)
    BY <1>1 DEF Arrived, Control
  <2>2. pc' \in {"fill", "use"} /\ (pc' = "fill" => ~isClosed') /\ (pc' = "use" => isClosed')
    BY <1>1 DEF Arrived, ForeignRecord, ReturnError, ContinueFill, Recurse, KeepSkip, SetError, Answer, AnswerFails
  <2>5. eorStop' = (nested' # "none")
    BY <1>1 DEF Arrived, ForeignRecord, ReturnError, ContinueFill, Recurse, KeepSkip, SetError, Answer, AnswerFails, Control
  <2>3. (nested' = "begin" => phase' = "begin") /\ (phase' # "begin" => isBeginProcessed')
    BY <1>1 DEF Arrived, ForeignRecord, ReturnError, ContinueFill, Recurse, KeepSkip, SetError, Answer, AnswerFails, Control, request
  <2>4. InProgress' /\ FCGI_errno' # "none" /\ phase' # "app" => pc' = "use" /\ isClosed'
    BY <1>1 DEF Arrived, ForeignRecord, ReturnError, ContinueFill, Recurse, KeepSkip, SetError, Answer, AnswerFails, Control, InProgress
  <2>6. InProgress' /\ phase' = "begin" /\ isBeginProcessed' => pc' = "use" /\ nested' = "none" /\ ~isClosed'
    BY <1>1 DEF Arrived, ForeignRecord, ReturnError, ContinueFill, Recurse, KeepSkip, SetError, Answer, AnswerFails, Control, InProgress, request
  <2> QED BY <1>1, <2>1, <2>2, <2>3, <2>4, <2>5, <2>6 DEF Arrived, Control
<1> QED BY <1>6, <1>7, <1>8, <1>9, <1>10, <1>11, <1>12 DEF Typed

LEMMA UnexpectedTypeTypes ==
    ASSUME Typed, Control, UnexpectedType
    PROVE  Typed' /\ Control'
<1>1. Arrived
  BY HeaderArrives DEF UnexpectedType, AtRecord
<1>2. Recognised
  BY RecordArrives DEF UnexpectedType
<1>3. contentLen' \in Nat /\ paddingLen' \in Nat
  BY <1>2 DEF Recognised, Record, UnexpectedType, AtRecord
<1>4. isClosed' \in BOOLEAN /\ FCGI_errno' \in Errors /\ skip' \in BOOLEAN /\ eorStop' \in BOOLEAN
  BY DEF UnexpectedType, ReturnError, ContinueFill, Recurse, KeepSkip, SetError, Answer, AnswerFails, Typed, StatusOK, RecordOK, Errors
<1>5. replies' \in Seq(DOMAIN script)
  BY <1>2 DEF Recognised, UnexpectedType, ReturnError, ContinueFill, Recurse, KeepSkip, SetError, Answer, AnswerFails, Typed, ServerOK
<1>6. ServerOK'
  BY <1>1, <1>5 DEF Arrived, Typed, ServerOK
<1>7. PtrsOK'
  BY <1>1 DEF Arrived, Typed, PtrsOK
<1>8. RecordOK'
  BY <1>1, <1>3, <1>4 DEF Arrived, RecordOK
<1>9. StatusOK' /\ CallsOK'
  BY <1>1, <1>4 DEF Arrived, Typed, StatusOK, CallsOK
<1>10. RequestOK'
  BY <1>1, <1>2 DEF Arrived, Recognised, Record, UnexpectedType, request, Typed, RequestOK
<1>11. ControlOK'
  BY <1>1 DEF Arrived, UnexpectedType, ReturnError, ContinueFill, Recurse, KeepSkip, SetError, Answer, AnswerFails, Typed, ControlOK
<1>12. Control'
  <2>1. stopUnget' <= rdNext' /\ headerLen' <= rdNext' /\ rdNext' >= 1 /\ rdNext' = stop' /\ ~(headerLen' > 0)
    BY <1>1 DEF Arrived, Control
  <2>2. pc' \in {"fill", "use"} /\ (pc' = "fill" => ~isClosed') /\ (pc' = "use" => isClosed')
    BY <1>1 DEF Arrived, UnexpectedType, ReturnError, ContinueFill, Recurse, KeepSkip, SetError, Answer, AnswerFails
  <2>5. eorStop' = (nested' # "none")
    BY <1>1 DEF Arrived, UnexpectedType, ReturnError, ContinueFill, Recurse, KeepSkip, SetError, Answer, AnswerFails, Control
  <2>3. (nested' = "begin" => phase' = "begin") /\ (phase' # "begin" => isBeginProcessed')
    BY <1>1 DEF Arrived, UnexpectedType, ReturnError, ContinueFill, Recurse, KeepSkip, SetError, Answer, AnswerFails, Control, request
  <2>4. InProgress' /\ FCGI_errno' # "none" /\ phase' # "app" => pc' = "use" /\ isClosed'
    BY <1>1 DEF Arrived, UnexpectedType, ReturnError, ContinueFill, Recurse, KeepSkip, SetError, Answer, AnswerFails, Control, InProgress
  <2>6. InProgress' /\ phase' = "begin" /\ isBeginProcessed' => pc' = "use" /\ nested' = "none" /\ ~isClosed'
    BY <1>1 DEF Arrived, UnexpectedType, ReturnError, ContinueFill, Recurse, KeepSkip, SetError, Answer, AnswerFails, Control, InProgress, request
  <2> QED BY <1>1, <2>1, <2>2, <2>3, <2>4, <2>5, <2>6 DEF Arrived, Control
<1> QED BY <1>6, <1>7, <1>8, <1>9, <1>10, <1>11, <1>12 DEF Typed

LEMMA StreamRecordTypes ==
    ASSUME Typed, Control, StreamRecord
    PROVE  Typed' /\ Control'
<1>1. Arrived
  BY HeaderArrives DEF StreamRecord, AtRecord
<1>2. Recognised
  BY RecordArrives DEF StreamRecord
<1>3. contentLen' \in Nat /\ paddingLen' \in Nat
  BY <1>2 DEF Recognised, Record, StreamRecord, AtRecord
<1>4. isClosed' \in BOOLEAN /\ FCGI_errno' \in Errors /\ skip' \in BOOLEAN /\ eorStop' \in BOOLEAN
  BY DEF StreamRecord, ReturnError, ContinueFill, Recurse, KeepSkip, SetError, Answer, AnswerFails, Typed, StatusOK, RecordOK, Errors
<1>5. replies' \in Seq(DOMAIN script)
  BY <1>2 DEF Recognised, StreamRecord, ReturnError, ContinueFill, Recurse, KeepSkip, SetError, Answer, AnswerFails, Typed, ServerOK
<1>6. ServerOK'
  BY <1>1, <1>5 DEF Arrived, Typed, ServerOK
<1>7. PtrsOK'
  BY <1>1 DEF Arrived, Typed, PtrsOK
<1>8. RecordOK'
  BY <1>1, <1>3, <1>4 DEF Arrived, RecordOK
<1>9. StatusOK' /\ CallsOK'
  BY <1>1, <1>4 DEF Arrived, Typed, StatusOK, CallsOK
<1>10. RequestOK'
  BY <1>1, <1>2 DEF Arrived, Recognised, Record, StreamRecord, request, Typed, RequestOK
<1>11. ControlOK'
  BY <1>1 DEF Arrived, StreamRecord, ReturnError, ContinueFill, Recurse, KeepSkip, SetError, Answer, AnswerFails, Typed, ControlOK
<1>12. Control'
  <2>1. stopUnget' <= rdNext' /\ headerLen' <= rdNext' /\ rdNext' >= 1 /\ rdNext' = stop' /\ ~(headerLen' > 0)
    BY <1>1 DEF Arrived, Control
  <2>2. pc' \in {"fill", "use"} /\ (pc' = "fill" => ~isClosed') /\ (pc' = "use" => isClosed')
    BY <1>1 DEF Arrived, StreamRecord, ReturnError, ContinueFill, Recurse, KeepSkip, SetError, Answer, AnswerFails
  <2>5. eorStop' = (nested' # "none")
    BY <1>1 DEF Arrived, StreamRecord, ReturnError, ContinueFill, Recurse, KeepSkip, SetError, Answer, AnswerFails, Control
  <2>3. (nested' = "begin" => phase' = "begin") /\ (phase' # "begin" => isBeginProcessed')
    BY <1>1 DEF Arrived, StreamRecord, ReturnError, ContinueFill, Recurse, KeepSkip, SetError, Answer, AnswerFails, Control, request
  <2>4. InProgress' /\ FCGI_errno' # "none" /\ phase' # "app" => pc' = "use" /\ isClosed'
    BY <1>1 DEF Arrived, StreamRecord, ReturnError, ContinueFill, Recurse, KeepSkip, SetError, Answer, AnswerFails, Control, InProgress
  <2>6. InProgress' /\ phase' = "begin" /\ isBeginProcessed' => pc' = "use" /\ nested' = "none" /\ ~isClosed'
    BY <1>1 DEF Arrived, StreamRecord, ReturnError, ContinueFill, Recurse, KeepSkip, SetError, Answer, AnswerFails, Control, InProgress, request
  <2> QED BY <1>1, <2>1, <2>2, <2>3, <2>4, <2>5, <2>6 DEF Arrived, Control
<1> QED BY <1>6, <1>7, <1>8, <1>9, <1>10, <1>11, <1>12 DEF Typed

LEMMA EndOfStreamTypes ==
    ASSUME Typed, Control, EndOfStream
    PROVE  Typed' /\ Control'
<1>1. Arrived
  BY HeaderArrives DEF EndOfStream, AtRecord
<1>2. Recognised
  BY RecordArrives DEF EndOfStream
<1>3. contentLen' \in Nat /\ paddingLen' \in Nat
  BY <1>2 DEF Recognised, Record, EndOfStream, AtRecord
<1>4. isClosed' \in BOOLEAN /\ FCGI_errno' \in Errors /\ skip' \in BOOLEAN /\ eorStop' \in BOOLEAN
  BY DEF EndOfStream, ReturnError, ContinueFill, Recurse, KeepSkip, SetError, Answer, AnswerFails, Typed, StatusOK, RecordOK, Errors
<1>5. replies' \in Seq(DOMAIN script)
  BY <1>2 DEF Recognised, EndOfStream, ReturnError, ContinueFill, Recurse, KeepSkip, SetError, Answer, AnswerFails, Typed, ServerOK
<1>6. ServerOK'
  BY <1>1, <1>5 DEF Arrived, Typed, ServerOK
<1>7. PtrsOK'
  BY <1>1 DEF Arrived, Typed, PtrsOK
<1>8. RecordOK'
  BY <1>1, <1>3, <1>4 DEF Arrived, RecordOK
<1>9. StatusOK' /\ CallsOK'
  BY <1>1, <1>4 DEF Arrived, Typed, StatusOK, CallsOK
<1>10. RequestOK'
  BY <1>1, <1>2 DEF Arrived, Recognised, Record, EndOfStream, request, Typed, RequestOK
<1>11. ControlOK'
  BY <1>1 DEF Arrived, EndOfStream, ReturnError, ContinueFill, Recurse, KeepSkip, SetError, Answer, AnswerFails, Typed, ControlOK
<1>12. Control'
  <2>1. stopUnget' <= rdNext' /\ headerLen' <= rdNext' /\ rdNext' >= 1 /\ rdNext' = stop' /\ ~(headerLen' > 0)
    BY <1>1 DEF Arrived, Control
  <2>2. pc' \in {"fill", "use"} /\ (pc' = "fill" => ~isClosed') /\ (pc' = "use" => isClosed')
    BY <1>1 DEF Arrived, EndOfStream, ReturnError, ContinueFill, Recurse, KeepSkip, SetError, Answer, AnswerFails
  <2>5. eorStop' = (nested' # "none")
    BY <1>1 DEF Arrived, EndOfStream, ReturnError, ContinueFill, Recurse, KeepSkip, SetError, Answer, AnswerFails, Control
  <2>3. (nested' = "begin" => phase' = "begin") /\ (phase' # "begin" => isBeginProcessed')
    BY <1>1 DEF Arrived, EndOfStream, ReturnError, ContinueFill, Recurse, KeepSkip, SetError, Answer, AnswerFails, Control, request
  <2>4. InProgress' /\ FCGI_errno' # "none" /\ phase' # "app" => pc' = "use" /\ isClosed'
    BY <1>1 DEF Arrived, EndOfStream, ReturnError, ContinueFill, Recurse, KeepSkip, SetError, Answer, AnswerFails, Control, InProgress
  <2>6. InProgress' /\ phase' = "begin" /\ isBeginProcessed' => pc' = "use" /\ nested' = "none" /\ ~isClosed'
    BY <1>1 DEF Arrived, EndOfStream, ReturnError, ContinueFill, Recurse, KeepSkip, SetError, Answer, AnswerFails, Control, InProgress, request
  <2> QED BY <1>1, <2>1, <2>2, <2>3, <2>4, <2>5, <2>6 DEF Arrived, Control
<1> QED BY <1>6, <1>7, <1>8, <1>9, <1>10, <1>11, <1>12 DEF Typed

LEMMA FrontIsSeq ==
    ASSUME NEW S, NEW s \in Seq(S), s # <<>>
    PROVE  Front(s) \in Seq(S)
BY DEF Front

\* Reading what FillBuffProc handed out leaves the conversation alone.
LEMMA GotDelivered ==
    ASSUME NEW w \in Seq(Cell), NEW a \in Nat, NEW b \in Nat, b <= Len(w),
           NEW g \in [Streams -> Seq(Cell)], NEW t
    PROVE  [g EXCEPT ![t] = @ \o SubSeq(w, a + 1, b)] \in [Streams -> Seq(Cell)]
<1>1. SubSeq(w, a + 1, b) \in Seq(Cell)
  BY SubSeqProperties
<1>2. \A x \in Streams : g[x] \in Seq(Cell) /\ g[x] \o SubSeq(w, a + 1, b) \in Seq(Cell)
  BY <1>1, ConcatProperties
<1> QED BY <1>2

LEMMA Handing ==
    ASSUME Typed, Control, pc = "use", ~isClosed
    PROVE  /\ Available \in Nat /\ rdNext + Available = stop /\ rdNext \in Nat /\ stop \in Nat
           /\ buffStop \in Nat /\ stop <= buffStop /\ buffStop <= Len(wire) /\ stopUnget \in Nat
           /\ stopUnget <= rdNext /\ Len(wire) \in Nat /\ sent \in Nat
<1>1. Len(wire) \in Nat /\ sent \in 0..Len(wire)
  BY WireFacts DEF Typed, ServerOK
<1>2. /\ rdNext \in Nat /\ stop \in Nat /\ stopUnget \in Nat /\ buffStop \in 0..sent
      /\ stop <= buffStop /\ rdNext <= stop /\ stopUnget <= rdNext
  BY DEF Typed, PtrsOK, Control
<1> QED BY <1>1, <1>2 DEF Available

LEMMA BeginBodyPartTypes ==
    ASSUME Typed, Control, BeginBodyPart
    PROVE  Typed' /\ Control'
<1>1. /\ Len(wire) \in Nat /\ sent \in 0..Len(wire) /\ sent \in Nat /\ buffStop \in Nat /\ HeaderLen \in Nat \ {0}
      /\ PairLen \in Nat \ {0} /\ BeginLen \in Nat \ {0} /\ rdNext \in Nat /\ stop \in Nat /\ stopUnget \in Nat
      /\ CellsOf(script, wire) /\ DOMAIN script = 1..Len(script) /\ \A i \in 1..Len(script) : script[i] \in Record
  BY WireFacts, SizesAssumption DEF Typed, ServerOK, PtrsOK
<1>2. /\ Available \in Nat /\ rdNext + Available = stop /\ stop <= buffStop /\ buffStop <= Len(wire)
      /\ stopUnget <= rdNext
  BY Handing DEF BeginBodyPart, Reading, InAccept, NestedError, SetError, Answer, AnswerFails, SetReaderType, AtEOF, Deliver
<1>3. ServerOK'
  BY <1>1, <1>2 DEF BeginBodyPart, Reading, server, calls, ptrs, record, status, request, control, Typed, ServerOK
<1>4. PtrsOK'
  BY <1>1, <1>2 DEF BeginBodyPart, Reading, server, calls, ptrs, record, status, request, control, Typed, PtrsOK
<1>5. RecordOK'
  BY <1>1, <1>2 DEF BeginBodyPart, Reading, server, calls, ptrs, record, status, request, control, Typed, RecordOK
<1>6. StatusOK'
  BY <1>1, <1>2 DEF BeginBodyPart, Reading, server, calls, ptrs, record, status, request, control, Typed, StatusOK, Errors, StreamTypes, Streams
<1>7. RequestOK'
  BY <1>1, <1>2 DEF BeginBodyPart, Reading, server, calls, ptrs, record, status, request, control, Typed, RequestOK, Roles
<1>8. ControlOK'
  BY <1>1, <1>2 DEF BeginBodyPart, Reading, server, calls, ptrs, record, status, request, control, Typed, ControlOK
<1>9. CallsOK'
  BY <1>1, <1>2 DEF BeginBodyPart, Reading, server, calls, ptrs, record, status, request, control, Typed, CallsOK
<1>10. Control'
  <2>1. stopUnget' <= rdNext' /\ headerLen' <= rdNext' /\ (nested' # "none" => rdNext' >= 1)
    BY <1>1, <1>2 DEF BeginBodyPart, Reading, server, calls, ptrs, record, status, request, control, Typed, RecordOK, Control
  <2>2. (eorStop' = (nested' # "none")) /\ (pc' \in {"idle", "closed"} => nested' = "none")
    BY DEF BeginBodyPart, Reading, server, calls, ptrs, record, status, request, control, Control
  <2>3. (pc' = "fill" => ~isClosed') /\ (nested' = "begin" => phase' = "begin") /\ (phase' # "begin" => isBeginProcessed')
    BY DEF BeginBodyPart, Reading, server, calls, ptrs, record, status, request, control, Control, InProgress
  <2>4. pc' = "use" /\ ~isClosed' => rdNext' <= stop' /\ ~skip'
    BY <1>1, <1>2 DEF BeginBodyPart, Reading, server, calls, ptrs, record, status, request, control, Control
  <2>5. headerLen' > 0 => pc' = "fill" /\ contentLen' = 0 /\ paddingLen' = 0 /\ nested' = "none"
    BY <1>1 DEF BeginBodyPart, Reading, server, calls, ptrs, record, status, request, control, Control
  <2>6. (phase' = "begin" => type' = "NONE") /\ (phase' = "params" => type' = "PARAMS") /\ (phase' = "app" => type' \in {"STDIN", "DATA"})
    BY DEF BeginBodyPart, Reading, server, calls, ptrs, record, status, request, control, Control
  <2>7. Calm' => ~cleared' /\ ~wasFCloseCalled'
    BY DEF BeginBodyPart, Reading, server, calls, ptrs, record, status, request, control, Control, Calm
  <2>8. InProgress' /\ phase' = "begin" /\ isBeginProcessed' => pc' = "use" /\ nested' = "none" /\ ~isClosed'
    BY DEF BeginBodyPart, Reading, server, calls, ptrs, record, status, request, control, Control, InProgress
  <2>9. InProgress' /\ FCGI_errno' # "none" /\ phase' # "app" => pc' = "use" /\ isClosed'
    BY DEF BeginBodyPart, Reading, server, calls, ptrs, record, status, request, control, Control, InProgress
  <2> QED BY <2>1, <2>2, <2>3, <2>4, <2>5, <2>6, <2>7, <2>8, <2>9 DEF Control
<1> QED BY <1>3, <1>4, <1>5, <1>6, <1>7, <1>8, <1>9, <1>10 DEF Typed

LEMMA BeginBodyDoneTypes ==
    ASSUME Typed, Control, BeginBodyDone
    PROVE  Typed' /\ Control'
<1>1. /\ Len(wire) \in Nat /\ sent \in 0..Len(wire) /\ sent \in Nat /\ buffStop \in Nat /\ HeaderLen \in Nat \ {0}
      /\ PairLen \in Nat \ {0} /\ BeginLen \in Nat \ {0} /\ rdNext \in Nat /\ stop \in Nat /\ stopUnget \in Nat
      /\ CellsOf(script, wire) /\ DOMAIN script = 1..Len(script) /\ \A i \in 1..Len(script) : script[i] \in Record
  BY WireFacts, SizesAssumption DEF Typed, ServerOK, PtrsOK
<1>2. /\ Available \in Nat /\ rdNext + Available = stop /\ stop <= buffStop /\ buffStop <= Len(wire)
      /\ stopUnget <= rdNext
  BY Handing DEF BeginBodyDone, Reading, InAccept, NestedError, SetError, Answer, AnswerFails, SetReaderType, AtEOF, Deliver
<1>3. ServerOK'
  BY <1>1, <1>2 DEF BeginBodyDone, Reading, server, calls, ptrs, record, status, request, control, Typed, ServerOK
<1>4. PtrsOK'
  BY <1>1, <1>2 DEF BeginBodyDone, Reading, server, calls, ptrs, record, status, request, control, Typed, PtrsOK
<1>5. RecordOK'
  BY <1>1, <1>2 DEF BeginBodyDone, Reading, server, calls, ptrs, record, status, request, control, Typed, RecordOK
<1>6. StatusOK'
  BY <1>1, <1>2 DEF BeginBodyDone, Reading, server, calls, ptrs, record, status, request, control, Typed, StatusOK, Errors, StreamTypes, Streams
<1>7. RequestOK'
  <2>1. stop \in 1..Len(wire)
    BY <1>1, <1>2 DEF BeginBodyDone, Reading, Control
  <2>2. HeaderAt(stop) \in Record
    BY <1>1, <2>1 DEF HeaderAt, CellsOf
  <2> QED BY <2>2 DEF BeginBodyDone, Record, Typed, RequestOK, ServerOK, server
<1>8. ControlOK'
  BY <1>1, <1>2 DEF BeginBodyDone, Reading, server, calls, ptrs, record, status, request, control, Typed, ControlOK
<1>9. CallsOK'
  BY <1>1, <1>2 DEF BeginBodyDone, Reading, server, calls, ptrs, record, status, request, control, Typed, CallsOK
<1>10. Control'
  <2>1. stopUnget' <= rdNext' /\ headerLen' <= rdNext' /\ (nested' # "none" => rdNext' >= 1)
    BY <1>1, <1>2 DEF BeginBodyDone, Reading, server, calls, ptrs, record, status, request, control, Typed, RecordOK, Control
  <2>2. (eorStop' = (nested' # "none")) /\ (pc' \in {"idle", "closed"} => nested' = "none")
    BY DEF BeginBodyDone, Reading, server, calls, ptrs, record, status, request, control, Control
  <2>3. (pc' = "fill" => ~isClosed') /\ (nested' = "begin" => phase' = "begin") /\ (phase' # "begin" => isBeginProcessed')
    BY DEF BeginBodyDone, Reading, server, calls, ptrs, record, status, request, control, Control, InProgress
  <2>4. pc' = "use" /\ ~isClosed' => rdNext' <= stop' /\ ~skip'
    BY <1>1, <1>2 DEF BeginBodyDone, Reading, server, calls, ptrs, record, status, request, control, Control
  <2>5. headerLen' > 0 => pc' = "fill" /\ contentLen' = 0 /\ paddingLen' = 0 /\ nested' = "none"
    BY <1>1 DEF BeginBodyDone, Reading, server, calls, ptrs, record, status, request, control, Control
  <2>6. (phase' = "begin" => type' = "NONE") /\ (phase' = "params" => type' = "PARAMS") /\ (phase' = "app" => type' \in {"STDIN", "DATA"})
    BY DEF BeginBodyDone, Reading, server, calls, ptrs, record, status, request, control, Control
  <2>7. Calm' => ~cleared' /\ ~wasFCloseCalled'
    BY DEF BeginBodyDone, Reading, server, calls, ptrs, record, status, request, control, Control, Calm
  <2>8. InProgress' /\ phase' = "begin" /\ isBeginProcessed' => pc' = "use" /\ nested' = "none" /\ ~isClosed'
    BY DEF BeginBodyDone, Reading, server, calls, ptrs, record, status, request, control, Control, InProgress
  <2>9. InProgress' /\ FCGI_errno' # "none" /\ phase' # "app" => pc' = "use" /\ isClosed'
    BY DEF BeginBodyDone, Reading, server, calls, ptrs, record, status, request, control, Control, InProgress
  <2> QED BY <2>1, <2>2, <2>3, <2>4, <2>5, <2>6, <2>7, <2>8, <2>9 DEF Control
<1> QED BY <1>3, <1>4, <1>5, <1>6, <1>7, <1>8, <1>9, <1>10 DEF Typed

LEMMA BeginBodyCutTypes ==
    ASSUME Typed, Control, BeginBodyCut
    PROVE  Typed' /\ Control'
<1>1. /\ Len(wire) \in Nat /\ sent \in 0..Len(wire) /\ sent \in Nat /\ buffStop \in Nat /\ HeaderLen \in Nat \ {0}
      /\ PairLen \in Nat \ {0} /\ BeginLen \in Nat \ {0} /\ rdNext \in Nat /\ stop \in Nat /\ stopUnget \in Nat
      /\ CellsOf(script, wire) /\ DOMAIN script = 1..Len(script) /\ \A i \in 1..Len(script) : script[i] \in Record
  BY WireFacts, SizesAssumption DEF Typed, ServerOK, PtrsOK
<1>3. ServerOK'
  BY <1>1 DEF BeginBodyCut, Reading, NestedError, SetError, server, calls, ptrs, record, status, request, control, Typed, ServerOK
<1>4. PtrsOK'
  BY <1>1 DEF BeginBodyCut, Reading, NestedError, SetError, server, calls, ptrs, record, status, request, control, Typed, PtrsOK
<1>5. RecordOK'
  BY <1>1 DEF BeginBodyCut, Reading, NestedError, SetError, server, calls, ptrs, record, status, request, control, Typed, RecordOK
<1>6. StatusOK'
  BY <1>1 DEF BeginBodyCut, Reading, NestedError, SetError, server, calls, ptrs, record, status, request, control, Typed, StatusOK, Errors, StreamTypes, Streams
<1>7. RequestOK'
  BY <1>1 DEF BeginBodyCut, Reading, NestedError, SetError, server, calls, ptrs, record, status, request, control, Typed, RequestOK, Roles
<1>8. ControlOK'
  BY <1>1 DEF BeginBodyCut, Reading, NestedError, SetError, server, calls, ptrs, record, status, request, control, Typed, ControlOK
<1>9. CallsOK'
  BY <1>1 DEF BeginBodyCut, Reading, NestedError, SetError, server, calls, ptrs, record, status, request, control, Typed, CallsOK
<1>10. Control'
  <2>1. stopUnget' <= rdNext' /\ headerLen' <= rdNext' /\ (nested' # "none" => rdNext' >= 1)
    BY <1>1 DEF BeginBodyCut, Reading, NestedError, SetError, server, calls, ptrs, record, status, request, control, Typed, RecordOK, Control
  <2>2. (eorStop' = (nested' # "none")) /\ (pc' \in {"idle", "closed"} => nested' = "none")
    BY DEF BeginBodyCut, Reading, NestedError, SetError, server, calls, ptrs, record, status, request, control, Control
  <2>3. (pc' = "fill" => ~isClosed') /\ (nested' = "begin" => phase' = "begin") /\ (phase' # "begin" => isBeginProcessed')
    BY DEF BeginBodyCut, Reading, NestedError, SetError, server, calls, ptrs, record, status, request, control, Control, InProgress
  <2>4. pc' = "use" /\ ~isClosed' => rdNext' <= stop' /\ ~skip'
    BY <1>1 DEF BeginBodyCut, Reading, NestedError, SetError, server, calls, ptrs, record, status, request, control, Control
  <2>5. headerLen' > 0 => pc' = "fill" /\ contentLen' = 0 /\ paddingLen' = 0 /\ nested' = "none"
    BY <1>1 DEF BeginBodyCut, Reading, NestedError, SetError, server, calls, ptrs, record, status, request, control, Control
  <2>6. (phase' = "begin" => type' = "NONE") /\ (phase' = "params" => type' = "PARAMS") /\ (phase' = "app" => type' \in {"STDIN", "DATA"})
    BY DEF BeginBodyCut, Reading, NestedError, SetError, server, calls, ptrs, record, status, request, control, Control
  <2>7. Calm' => ~cleared' /\ ~wasFCloseCalled'
    BY DEF BeginBodyCut, Reading, NestedError, SetError, server, calls, ptrs, record, status, request, control, Control, Calm
  <2>8. InProgress' /\ phase' = "begin" /\ isBeginProcessed' => pc' = "use" /\ nested' = "none" /\ ~isClosed'
    BY DEF BeginBodyCut, Reading, NestedError, SetError, server, calls, ptrs, record, status, request, control, Control, InProgress
  <2>9. InProgress' /\ FCGI_errno' # "none" /\ phase' # "app" => pc' = "use" /\ isClosed'
    BY DEF BeginBodyCut, Reading, NestedError, SetError, server, calls, ptrs, record, status, request, control, Control, InProgress
  <2> QED BY <2>1, <2>2, <2>3, <2>4, <2>5, <2>6, <2>7, <2>8, <2>9 DEF Control
<1> QED BY <1>3, <1>4, <1>5, <1>6, <1>7, <1>8, <1>9, <1>10 DEF Typed

LEMMA ValuesPartTypes ==
    ASSUME Typed, Control, ValuesPart
    PROVE  Typed' /\ Control'
<1>1. /\ Len(wire) \in Nat /\ sent \in 0..Len(wire) /\ sent \in Nat /\ buffStop \in Nat /\ HeaderLen \in Nat \ {0}
      /\ PairLen \in Nat \ {0} /\ BeginLen \in Nat \ {0} /\ rdNext \in Nat /\ stop \in Nat /\ stopUnget \in Nat
      /\ CellsOf(script, wire) /\ DOMAIN script = 1..Len(script) /\ \A i \in 1..Len(script) : script[i] \in Record
  BY WireFacts, SizesAssumption DEF Typed, ServerOK, PtrsOK
<1>2. /\ Available \in Nat /\ rdNext + Available = stop /\ stop <= buffStop /\ buffStop <= Len(wire)
      /\ stopUnget <= rdNext
  BY Handing DEF ValuesPart, Reading, InAccept, NestedError, SetError, Answer, AnswerFails, SetReaderType, AtEOF, Deliver
<1>3. ServerOK'
  BY <1>1, <1>2 DEF ValuesPart, Reading, server, calls, ptrs, record, status, request, control, Typed, ServerOK
<1>4. PtrsOK'
  BY <1>1, <1>2 DEF ValuesPart, Reading, server, calls, ptrs, record, status, request, control, Typed, PtrsOK
<1>5. RecordOK'
  BY <1>1, <1>2 DEF ValuesPart, Reading, server, calls, ptrs, record, status, request, control, Typed, RecordOK
<1>6. StatusOK'
  BY <1>1, <1>2 DEF ValuesPart, Reading, server, calls, ptrs, record, status, request, control, Typed, StatusOK, Errors, StreamTypes, Streams
<1>7. RequestOK'
  BY <1>1, <1>2 DEF ValuesPart, Reading, server, calls, ptrs, record, status, request, control, Typed, RequestOK, Roles
<1>8. ControlOK'
  BY <1>1, <1>2 DEF ValuesPart, Reading, server, calls, ptrs, record, status, request, control, Typed, ControlOK
<1>9. CallsOK'
  BY <1>1, <1>2 DEF ValuesPart, Reading, server, calls, ptrs, record, status, request, control, Typed, CallsOK
<1>10. Control'
  <2>1. stopUnget' <= rdNext' /\ headerLen' <= rdNext' /\ (nested' # "none" => rdNext' >= 1)
    BY <1>1, <1>2 DEF ValuesPart, Reading, server, calls, ptrs, record, status, request, control, Typed, RecordOK, Control
  <2>2. (eorStop' = (nested' # "none")) /\ (pc' \in {"idle", "closed"} => nested' = "none")
    BY DEF ValuesPart, Reading, server, calls, ptrs, record, status, request, control, Control
  <2>3. (pc' = "fill" => ~isClosed') /\ (nested' = "begin" => phase' = "begin") /\ (phase' # "begin" => isBeginProcessed')
    BY DEF ValuesPart, Reading, server, calls, ptrs, record, status, request, control, Control, InProgress
  <2>4. pc' = "use" /\ ~isClosed' => rdNext' <= stop' /\ ~skip'
    BY <1>1, <1>2 DEF ValuesPart, Reading, server, calls, ptrs, record, status, request, control, Control
  <2>5. headerLen' > 0 => pc' = "fill" /\ contentLen' = 0 /\ paddingLen' = 0 /\ nested' = "none"
    BY <1>1 DEF ValuesPart, Reading, server, calls, ptrs, record, status, request, control, Control
  <2>6. (phase' = "begin" => type' = "NONE") /\ (phase' = "params" => type' = "PARAMS") /\ (phase' = "app" => type' \in {"STDIN", "DATA"})
    BY DEF ValuesPart, Reading, server, calls, ptrs, record, status, request, control, Control
  <2>7. Calm' => ~cleared' /\ ~wasFCloseCalled'
    BY DEF ValuesPart, Reading, server, calls, ptrs, record, status, request, control, Control, Calm
  <2>8. InProgress' /\ phase' = "begin" /\ isBeginProcessed' => pc' = "use" /\ nested' = "none" /\ ~isClosed'
    BY DEF ValuesPart, Reading, server, calls, ptrs, record, status, request, control, Control, InProgress
  <2>9. InProgress' /\ FCGI_errno' # "none" /\ phase' # "app" => pc' = "use" /\ isClosed'
    BY DEF ValuesPart, Reading, server, calls, ptrs, record, status, request, control, Control, InProgress
  <2> QED BY <2>1, <2>2, <2>3, <2>4, <2>5, <2>6, <2>7, <2>8, <2>9 DEF Control
<1> QED BY <1>3, <1>4, <1>5, <1>6, <1>7, <1>8, <1>9, <1>10 DEF Typed

LEMMA ValuesDoneTypes ==
    ASSUME Typed, Control, ValuesDone
    PROVE  Typed' /\ Control'
<1>1. /\ Len(wire) \in Nat /\ sent \in 0..Len(wire) /\ sent \in Nat /\ buffStop \in Nat /\ HeaderLen \in Nat \ {0}
      /\ PairLen \in Nat \ {0} /\ BeginLen \in Nat \ {0} /\ rdNext \in Nat /\ stop \in Nat /\ stopUnget \in Nat
      /\ CellsOf(script, wire) /\ DOMAIN script = 1..Len(script) /\ \A i \in 1..Len(script) : script[i] \in Record
  BY WireFacts, SizesAssumption DEF Typed, ServerOK, PtrsOK
<1>3. ServerOK'
  <2>1. rdNext \in 1..Len(wire)
    BY <1>1 DEF ValuesDone, Reading, Control, Typed, PtrsOK
  <2>2. wire[rdNext][1] \in DOMAIN script
    BY <1>1, <2>1 DEF CellsOf
  <2> QED BY <2>2 DEF ValuesDone, Answer, Typed, ServerOK, server
<1>4. PtrsOK'
  BY <1>1 DEF ValuesDone, Reading, Answer, server, calls, ptrs, record, status, request, control, Typed, PtrsOK
<1>5. RecordOK'
  BY <1>1 DEF ValuesDone, Reading, Answer, server, calls, ptrs, record, status, request, control, Typed, RecordOK
<1>6. StatusOK'
  BY <1>1 DEF ValuesDone, Reading, Answer, server, calls, ptrs, record, status, request, control, Typed, StatusOK, Errors, StreamTypes, Streams
<1>7. RequestOK'
  BY <1>1 DEF ValuesDone, Reading, Answer, server, calls, ptrs, record, status, request, control, Typed, RequestOK, Roles
<1>8. ControlOK'
  BY <1>1 DEF ValuesDone, Reading, Answer, server, calls, ptrs, record, status, request, control, Typed, ControlOK
<1>9. CallsOK'
  BY <1>1 DEF ValuesDone, Reading, Answer, server, calls, ptrs, record, status, request, control, Typed, CallsOK
<1>10. Control'
  <2>1. stopUnget' <= rdNext' /\ headerLen' <= rdNext' /\ (nested' # "none" => rdNext' >= 1)
    BY <1>1 DEF ValuesDone, Reading, Answer, server, calls, ptrs, record, status, request, control, Typed, RecordOK, Control
  <2>2. (eorStop' = (nested' # "none")) /\ (pc' \in {"idle", "closed"} => nested' = "none")
    BY DEF ValuesDone, Reading, Answer, server, calls, ptrs, record, status, request, control, Control
  <2>3. (pc' = "fill" => ~isClosed') /\ (nested' = "begin" => phase' = "begin") /\ (phase' # "begin" => isBeginProcessed')
    BY DEF ValuesDone, Reading, Answer, server, calls, ptrs, record, status, request, control, Control, InProgress
  <2>4. pc' = "use" /\ ~isClosed' => rdNext' <= stop' /\ ~skip'
    BY <1>1 DEF ValuesDone, Reading, Answer, server, calls, ptrs, record, status, request, control, Control
  <2>5. headerLen' > 0 => pc' = "fill" /\ contentLen' = 0 /\ paddingLen' = 0 /\ nested' = "none"
    BY <1>1 DEF ValuesDone, Reading, Answer, server, calls, ptrs, record, status, request, control, Control
  <2>6. (phase' = "begin" => type' = "NONE") /\ (phase' = "params" => type' = "PARAMS") /\ (phase' = "app" => type' \in {"STDIN", "DATA"})
    BY DEF ValuesDone, Reading, Answer, server, calls, ptrs, record, status, request, control, Control
  <2>7. Calm' => ~cleared' /\ ~wasFCloseCalled'
    BY DEF ValuesDone, Reading, Answer, server, calls, ptrs, record, status, request, control, Control, Calm
  <2>8. InProgress' /\ phase' = "begin" /\ isBeginProcessed' => pc' = "use" /\ nested' = "none" /\ ~isClosed'
    BY DEF ValuesDone, Reading, Answer, server, calls, ptrs, record, status, request, control, Control, InProgress
  <2>9. InProgress' /\ FCGI_errno' # "none" /\ phase' # "app" => pc' = "use" /\ isClosed'
    BY DEF ValuesComplete, ValuesDone, Reading, Answer, server, calls, ptrs, record, status, request, control, Control, InProgress
  <2> QED BY <2>1, <2>2, <2>3, <2>4, <2>5, <2>6, <2>7, <2>8, <2>9 DEF Control
<1> QED BY <1>3, <1>4, <1>5, <1>6, <1>7, <1>8, <1>9, <1>10 DEF Typed

LEMMA ValuesCutTypes ==
    ASSUME Typed, Control, ValuesCut
    PROVE  Typed' /\ Control'
<1>1. /\ Len(wire) \in Nat /\ sent \in 0..Len(wire) /\ sent \in Nat /\ buffStop \in Nat /\ HeaderLen \in Nat \ {0}
      /\ PairLen \in Nat \ {0} /\ BeginLen \in Nat \ {0} /\ rdNext \in Nat /\ stop \in Nat /\ stopUnget \in Nat
      /\ CellsOf(script, wire) /\ DOMAIN script = 1..Len(script) /\ \A i \in 1..Len(script) : script[i] \in Record
  BY WireFacts, SizesAssumption DEF Typed, ServerOK, PtrsOK
<1>3. ServerOK'
  BY <1>1 DEF ValuesCut, Reading, NestedError, SetError, AnswerFails, server, calls, ptrs, record, status, request, control, Typed, ServerOK
<1>4. PtrsOK'
  BY <1>1 DEF ValuesCut, Reading, NestedError, SetError, AnswerFails, server, calls, ptrs, record, status, request, control, Typed, PtrsOK
<1>5. RecordOK'
  BY <1>1 DEF ValuesCut, Reading, NestedError, SetError, AnswerFails, server, calls, ptrs, record, status, request, control, Typed, RecordOK
<1>6. StatusOK'
  BY <1>1 DEF ValuesCut, Reading, NestedError, SetError, AnswerFails, server, calls, ptrs, record, status, request, control, Typed, StatusOK, Errors, StreamTypes, Streams
<1>7. RequestOK'
  BY <1>1 DEF ValuesCut, Reading, NestedError, SetError, AnswerFails, server, calls, ptrs, record, status, request, control, Typed, RequestOK, Roles
<1>8. ControlOK'
  BY <1>1 DEF ValuesCut, Reading, NestedError, SetError, AnswerFails, server, calls, ptrs, record, status, request, control, Typed, ControlOK
<1>9. CallsOK'
  BY <1>1 DEF ValuesCut, Reading, NestedError, SetError, AnswerFails, server, calls, ptrs, record, status, request, control, Typed, CallsOK
<1>10. Control'
  <2>1. stopUnget' <= rdNext' /\ headerLen' <= rdNext' /\ (nested' # "none" => rdNext' >= 1)
    BY <1>1 DEF ValuesCut, Reading, NestedError, SetError, AnswerFails, server, calls, ptrs, record, status, request, control, Typed, RecordOK, Control
  <2>2. (eorStop' = (nested' # "none")) /\ (pc' \in {"idle", "closed"} => nested' = "none")
    BY DEF ValuesCut, Reading, NestedError, SetError, AnswerFails, server, calls, ptrs, record, status, request, control, Control
  <2>3. (pc' = "fill" => ~isClosed') /\ (nested' = "begin" => phase' = "begin") /\ (phase' # "begin" => isBeginProcessed')
    BY DEF ValuesCut, Reading, NestedError, SetError, AnswerFails, server, calls, ptrs, record, status, request, control, Control, InProgress
  <2>4. pc' = "use" /\ ~isClosed' => rdNext' <= stop' /\ ~skip'
    BY <1>1 DEF ValuesCut, Reading, NestedError, SetError, AnswerFails, server, calls, ptrs, record, status, request, control, Control
  <2>5. headerLen' > 0 => pc' = "fill" /\ contentLen' = 0 /\ paddingLen' = 0 /\ nested' = "none"
    BY <1>1 DEF ValuesCut, Reading, NestedError, SetError, AnswerFails, server, calls, ptrs, record, status, request, control, Control
  <2>6. (phase' = "begin" => type' = "NONE") /\ (phase' = "params" => type' = "PARAMS") /\ (phase' = "app" => type' \in {"STDIN", "DATA"})
    BY DEF ValuesCut, Reading, NestedError, SetError, AnswerFails, server, calls, ptrs, record, status, request, control, Control
  <2>7. Calm' => ~cleared' /\ ~wasFCloseCalled'
    BY DEF ValuesCut, Reading, NestedError, SetError, AnswerFails, server, calls, ptrs, record, status, request, control, Control, Calm
  <2>8. InProgress' /\ phase' = "begin" /\ isBeginProcessed' => pc' = "use" /\ nested' = "none" /\ ~isClosed'
    BY DEF ValuesCut, Reading, NestedError, SetError, AnswerFails, server, calls, ptrs, record, status, request, control, Control, InProgress
  <2>9. InProgress' /\ FCGI_errno' # "none" /\ phase' # "app" => pc' = "use" /\ isClosed'
    BY DEF ValuesCut, Reading, NestedError, SetError, AnswerFails, server, calls, ptrs, record, status, request, control, Control, InProgress
  <2> QED BY <2>1, <2>2, <2>3, <2>4, <2>5, <2>6, <2>7, <2>8, <2>9 DEF Control
<1> QED BY <1>3, <1>4, <1>5, <1>6, <1>7, <1>8, <1>9, <1>10 DEF Typed

LEMMA BeginDoneTypes ==
    ASSUME Typed, Control, BeginDone
    PROVE  Typed' /\ Control'
<1>1. /\ Len(wire) \in Nat /\ sent \in 0..Len(wire) /\ sent \in Nat /\ buffStop \in Nat /\ HeaderLen \in Nat \ {0}
      /\ PairLen \in Nat \ {0} /\ BeginLen \in Nat \ {0} /\ rdNext \in Nat /\ stop \in Nat /\ stopUnget \in Nat
      /\ CellsOf(script, wire) /\ DOMAIN script = 1..Len(script) /\ \A i \in 1..Len(script) : script[i] \in Record
  BY WireFacts, SizesAssumption DEF Typed, ServerOK, PtrsOK
<1>3. ServerOK'
  BY <1>1 DEF BeginDone, Reading, InAccept, NestedError, SetError, Answer, AnswerFails, SetReaderType, AtEOF, Deliver, server, calls, ptrs, record, status, request, control, Typed, ServerOK
<1>4. PtrsOK'
  BY <1>1 DEF BeginDone, Reading, InAccept, NestedError, SetError, Answer, AnswerFails, SetReaderType, AtEOF, Deliver, server, calls, ptrs, record, status, request, control, Typed, PtrsOK
<1>5. RecordOK'
  BY <1>1 DEF BeginDone, Reading, InAccept, NestedError, SetError, Answer, AnswerFails, SetReaderType, AtEOF, Deliver, server, calls, ptrs, record, status, request, control, Typed, RecordOK
<1>6. StatusOK'
  BY <1>1 DEF BeginDone, Reading, InAccept, NestedError, SetError, Answer, AnswerFails, SetReaderType, AtEOF, Deliver, server, calls, ptrs, record, status, request, control, Typed, StatusOK, Errors, StreamTypes, Streams
<1>7. RequestOK'
  BY <1>1 DEF BeginDone, Reading, InAccept, NestedError, SetError, Answer, AnswerFails, SetReaderType, AtEOF, Deliver, server, calls, ptrs, record, status, request, control, Typed, RequestOK, Roles
<1>8. ControlOK'
  BY <1>1 DEF BeginDone, Reading, InAccept, NestedError, SetError, Answer, AnswerFails, SetReaderType, AtEOF, Deliver, server, calls, ptrs, record, status, request, control, Typed, ControlOK
<1>9. CallsOK'
  BY <1>1 DEF BeginDone, Reading, InAccept, NestedError, SetError, Answer, AnswerFails, SetReaderType, AtEOF, Deliver, server, calls, ptrs, record, status, request, control, Typed, CallsOK
<1>10. Control'
  <2>1. stopUnget' <= rdNext' /\ headerLen' <= rdNext' /\ (nested' # "none" => rdNext' >= 1)
    BY <1>1 DEF BeginDone, Reading, InAccept, NestedError, SetError, Answer, AnswerFails, SetReaderType, AtEOF, Deliver, server, calls, ptrs, record, status, request, control, Typed, RecordOK, Control
  <2>2. (eorStop' = (nested' # "none")) /\ (pc' \in {"idle", "closed"} => nested' = "none")
    BY DEF BeginDone, Reading, InAccept, NestedError, SetError, Answer, AnswerFails, SetReaderType, AtEOF, Deliver, server, calls, ptrs, record, status, request, control, Control
  <2>3. (pc' = "fill" => ~isClosed') /\ (nested' = "begin" => phase' = "begin") /\ (phase' # "begin" => isBeginProcessed')
    BY DEF BeginDone, Reading, InAccept, NestedError, SetError, Answer, AnswerFails, SetReaderType, AtEOF, Deliver, server, calls, ptrs, record, status, request, control, Control, InProgress
  <2>4. pc' = "use" /\ ~isClosed' => rdNext' <= stop' /\ ~skip'
    BY <1>1 DEF BeginDone, Reading, InAccept, NestedError, SetError, Answer, AnswerFails, SetReaderType, AtEOF, Deliver, server, calls, ptrs, record, status, request, control, Control
  <2>5. headerLen' > 0 => pc' = "fill" /\ contentLen' = 0 /\ paddingLen' = 0 /\ nested' = "none"
    BY <1>1 DEF BeginDone, Reading, InAccept, NestedError, SetError, Answer, AnswerFails, SetReaderType, AtEOF, Deliver, server, calls, ptrs, record, status, request, control, Control
  <2>6. (phase' = "begin" => type' = "NONE") /\ (phase' = "params" => type' = "PARAMS") /\ (phase' = "app" => type' \in {"STDIN", "DATA"})
    BY DEF BeginDone, Reading, InAccept, NestedError, SetError, Answer, AnswerFails, SetReaderType, AtEOF, Deliver, server, calls, ptrs, record, status, request, control, Control
  <2>7. Calm' => ~cleared' /\ ~wasFCloseCalled'
    BY DEF BeginDone, Reading, InAccept, NestedError, SetError, Answer, AnswerFails, SetReaderType, AtEOF, Deliver, server, calls, ptrs, record, status, request, control, Control, Calm
  <2>8. InProgress' /\ phase' = "begin" /\ isBeginProcessed' => pc' = "use" /\ nested' = "none" /\ ~isClosed'
    BY DEF BeginDone, Reading, InAccept, NestedError, SetError, Answer, AnswerFails, SetReaderType, AtEOF, Deliver, server, calls, ptrs, record, status, request, control, Control, InProgress
  <2>9. InProgress' /\ FCGI_errno' # "none" /\ phase' # "app" => pc' = "use" /\ isClosed'
    BY DEF BeginDone, Reading, InAccept, NestedError, SetError, Answer, AnswerFails, SetReaderType, AtEOF, Deliver, server, calls, ptrs, record, status, request, control, Control, InProgress
  <2> QED BY <2>1, <2>2, <2>3, <2>4, <2>5, <2>6, <2>7, <2>8, <2>9 DEF Control
<1> QED BY <1>3, <1>4, <1>5, <1>6, <1>7, <1>8, <1>9, <1>10 DEF Typed

LEMMA GiveUpTypes ==
    ASSUME Typed, Control, GiveUp
    PROVE  Typed' /\ Control'
<1>1. /\ Len(wire) \in Nat /\ sent \in 0..Len(wire) /\ sent \in Nat /\ buffStop \in Nat /\ HeaderLen \in Nat \ {0}
      /\ PairLen \in Nat \ {0} /\ BeginLen \in Nat \ {0} /\ rdNext \in Nat /\ stop \in Nat /\ stopUnget \in Nat
      /\ CellsOf(script, wire) /\ DOMAIN script = 1..Len(script) /\ \A i \in 1..Len(script) : script[i] \in Record
  BY WireFacts, SizesAssumption DEF Typed, ServerOK, PtrsOK
<1>3. ServerOK'
  BY <1>1 DEF GiveUp, Reading, InAccept, NestedError, SetError, Answer, AnswerFails, SetReaderType, AtEOF, Deliver, server, calls, ptrs, record, status, request, control, Typed, ServerOK
<1>4. PtrsOK'
  BY <1>1 DEF GiveUp, Reading, InAccept, NestedError, SetError, Answer, AnswerFails, SetReaderType, AtEOF, Deliver, server, calls, ptrs, record, status, request, control, Typed, PtrsOK
<1>5. RecordOK'
  BY <1>1 DEF GiveUp, Reading, InAccept, NestedError, SetError, Answer, AnswerFails, SetReaderType, AtEOF, Deliver, server, calls, ptrs, record, status, request, control, Typed, RecordOK
<1>6. StatusOK'
  BY <1>1 DEF GiveUp, Reading, InAccept, NestedError, SetError, Answer, AnswerFails, SetReaderType, AtEOF, Deliver, server, calls, ptrs, record, status, request, control, Typed, StatusOK, Errors, StreamTypes, Streams
<1>7. RequestOK'
  BY <1>1 DEF GiveUp, Reading, InAccept, NestedError, SetError, Answer, AnswerFails, SetReaderType, AtEOF, Deliver, server, calls, ptrs, record, status, request, control, Typed, RequestOK, Roles
<1>8. ControlOK'
  BY <1>1 DEF GiveUp, Reading, InAccept, NestedError, SetError, Answer, AnswerFails, SetReaderType, AtEOF, Deliver, server, calls, ptrs, record, status, request, control, Typed, ControlOK
<1>9. CallsOK'
  BY <1>1 DEF GiveUp, Reading, InAccept, NestedError, SetError, Answer, AnswerFails, SetReaderType, AtEOF, Deliver, server, calls, ptrs, record, status, request, control, Typed, CallsOK
<1>10. Control'
  <2>1. stopUnget' <= rdNext' /\ headerLen' <= rdNext' /\ (nested' # "none" => rdNext' >= 1)
    BY <1>1 DEF GiveUp, Reading, InAccept, NestedError, SetError, Answer, AnswerFails, SetReaderType, AtEOF, Deliver, server, calls, ptrs, record, status, request, control, Typed, RecordOK, Control
  <2>2. (eorStop' = (nested' # "none")) /\ (pc' \in {"idle", "closed"} => nested' = "none")
    BY DEF GiveUp, Reading, InAccept, NestedError, SetError, Answer, AnswerFails, SetReaderType, AtEOF, Deliver, server, calls, ptrs, record, status, request, control, Control
  <2>3. (pc' = "fill" => ~isClosed') /\ (nested' = "begin" => phase' = "begin") /\ (phase' # "begin" => isBeginProcessed')
    BY DEF GiveUp, Reading, InAccept, NestedError, SetError, Answer, AnswerFails, SetReaderType, AtEOF, Deliver, server, calls, ptrs, record, status, request, control, Control, InProgress
  <2>4. pc' = "use" /\ ~isClosed' => rdNext' <= stop' /\ ~skip'
    BY <1>1 DEF GiveUp, Reading, InAccept, NestedError, SetError, Answer, AnswerFails, SetReaderType, AtEOF, Deliver, server, calls, ptrs, record, status, request, control, Control
  <2>5. headerLen' > 0 => pc' = "fill" /\ contentLen' = 0 /\ paddingLen' = 0 /\ nested' = "none"
    BY <1>1 DEF GiveUp, Reading, InAccept, NestedError, SetError, Answer, AnswerFails, SetReaderType, AtEOF, Deliver, server, calls, ptrs, record, status, request, control, Control
  <2>6. (phase' = "begin" => type' = "NONE") /\ (phase' = "params" => type' = "PARAMS") /\ (phase' = "app" => type' \in {"STDIN", "DATA"})
    BY DEF GiveUp, Reading, InAccept, NestedError, SetError, Answer, AnswerFails, SetReaderType, AtEOF, Deliver, server, calls, ptrs, record, status, request, control, Control
  <2>7. Calm' => ~cleared' /\ ~wasFCloseCalled'
    BY DEF GiveUp, Reading, InAccept, NestedError, SetError, Answer, AnswerFails, SetReaderType, AtEOF, Deliver, server, calls, ptrs, record, status, request, control, Control, Calm
  <2>8. InProgress' /\ phase' = "begin" /\ isBeginProcessed' => pc' = "use" /\ nested' = "none" /\ ~isClosed'
    BY DEF GiveUp, Reading, InAccept, NestedError, SetError, Answer, AnswerFails, SetReaderType, AtEOF, Deliver, server, calls, ptrs, record, status, request, control, Control, InProgress
  <2>9. InProgress' /\ FCGI_errno' # "none" /\ phase' # "app" => pc' = "use" /\ isClosed'
    BY DEF GiveUp, Reading, InAccept, NestedError, SetError, Answer, AnswerFails, SetReaderType, AtEOF, Deliver, server, calls, ptrs, record, status, request, control, Control, InProgress
  <2> QED BY <2>1, <2>2, <2>3, <2>4, <2>5, <2>6, <2>7, <2>8, <2>9 DEF Control
<1> QED BY <1>3, <1>4, <1>5, <1>6, <1>7, <1>8, <1>9, <1>10 DEF Typed

LEMMA ParamsPartTypes ==
    ASSUME Typed, Control, ParamsPart
    PROVE  Typed' /\ Control'
<1>1. /\ Len(wire) \in Nat /\ sent \in 0..Len(wire) /\ sent \in Nat /\ buffStop \in Nat /\ HeaderLen \in Nat \ {0}
      /\ PairLen \in Nat \ {0} /\ BeginLen \in Nat \ {0} /\ rdNext \in Nat /\ stop \in Nat /\ stopUnget \in Nat
      /\ CellsOf(script, wire) /\ DOMAIN script = 1..Len(script) /\ \A i \in 1..Len(script) : script[i] \in Record
  BY WireFacts, SizesAssumption DEF Typed, ServerOK, PtrsOK
<1>2. /\ Available \in Nat /\ rdNext + Available = stop /\ stop <= buffStop /\ buffStop <= Len(wire)
      /\ stopUnget <= rdNext
  BY Handing DEF ParamsPart, Reading, InAccept, NestedError, SetError, Answer, AnswerFails, SetReaderType, AtEOF, Deliver
<1>3. ServerOK'
  BY <1>1, <1>2 DEF ParamsPart, Reading, InAccept, NestedError, SetError, Answer, AnswerFails, SetReaderType, AtEOF, Deliver, server, calls, ptrs, record, status, request, control, Typed, ServerOK
<1>4. PtrsOK'
  BY <1>1, <1>2 DEF ParamsPart, Reading, InAccept, NestedError, SetError, Answer, AnswerFails, SetReaderType, AtEOF, Deliver, server, calls, ptrs, record, status, request, control, Typed, PtrsOK
<1>5. RecordOK'
  BY <1>1, <1>2 DEF ParamsPart, Reading, InAccept, NestedError, SetError, Answer, AnswerFails, SetReaderType, AtEOF, Deliver, server, calls, ptrs, record, status, request, control, Typed, RecordOK
<1>6. StatusOK'
  BY <1>1, <1>2 DEF ParamsPart, Reading, InAccept, NestedError, SetError, Answer, AnswerFails, SetReaderType, AtEOF, Deliver, server, calls, ptrs, record, status, request, control, Typed, StatusOK, Errors, StreamTypes, Streams
<1>7. RequestOK'
  BY <1>1, <1>2 DEF ParamsPart, Reading, InAccept, NestedError, SetError, Answer, AnswerFails, SetReaderType, AtEOF, Deliver, server, calls, ptrs, record, status, request, control, Typed, RequestOK, Roles
<1>8. ControlOK'
  BY <1>1, <1>2 DEF ParamsPart, Reading, InAccept, NestedError, SetError, Answer, AnswerFails, SetReaderType, AtEOF, Deliver, server, calls, ptrs, record, status, request, control, Typed, ControlOK
<1>9. CallsOK'
  <2>1. \A m \in 0..Available : [got EXCEPT ![type] = @ \o SubSeq(wire, rdNext + 1, rdNext + m)] \in [Streams -> Seq(Cell)]
    <3>1. wire \in Seq(Cell) /\ got \in [Streams -> Seq(Cell)]
      BY <1>1 DEF CellsOf, Typed, CallsOK, Cell
    <3>2. \A m \in 0..Available : rdNext + m \in Nat /\ rdNext + m <= Len(wire)
      BY <1>1, <1>2
    <3> QED BY <1>1, <3>1, <3>2, GotDelivered
  <2>2. got' \in [Streams -> Seq(Cell)]
    <3>1. Available \in 0..Available /\ 1..Available \subseteq 0..Available
      BY <1>2
    <3> QED BY <2>1, <3>1 DEF ParamsPart, Deliver
  <2> QED BY <2>2 DEF ParamsPart, Deliver, calls, Typed, CallsOK, Cell
<1>10. Control'
  <2>1. stopUnget' <= rdNext' /\ headerLen' <= rdNext' /\ (nested' # "none" => rdNext' >= 1)
    BY <1>1, <1>2 DEF ParamsPart, Reading, InAccept, NestedError, SetError, Answer, AnswerFails, SetReaderType, AtEOF, Deliver, server, calls, ptrs, record, status, request, control, Typed, RecordOK, Control
  <2>2. (eorStop' = (nested' # "none")) /\ (pc' \in {"idle", "closed"} => nested' = "none")
    BY DEF ParamsPart, Reading, InAccept, NestedError, SetError, Answer, AnswerFails, SetReaderType, AtEOF, Deliver, server, calls, ptrs, record, status, request, control, Control
  <2>3. (pc' = "fill" => ~isClosed') /\ (nested' = "begin" => phase' = "begin") /\ (phase' # "begin" => isBeginProcessed')
    BY DEF ParamsPart, Reading, InAccept, NestedError, SetError, Answer, AnswerFails, SetReaderType, AtEOF, Deliver, server, calls, ptrs, record, status, request, control, Control, InProgress
  <2>4. pc' = "use" /\ ~isClosed' => rdNext' <= stop' /\ ~skip'
    BY <1>1, <1>2 DEF ParamsPart, Reading, InAccept, NestedError, SetError, Answer, AnswerFails, SetReaderType, AtEOF, Deliver, server, calls, ptrs, record, status, request, control, Control
  <2>5. headerLen' > 0 => pc' = "fill" /\ contentLen' = 0 /\ paddingLen' = 0 /\ nested' = "none"
    BY <1>1 DEF ParamsPart, Reading, InAccept, NestedError, SetError, Answer, AnswerFails, SetReaderType, AtEOF, Deliver, server, calls, ptrs, record, status, request, control, Control
  <2>6. (phase' = "begin" => type' = "NONE") /\ (phase' = "params" => type' = "PARAMS") /\ (phase' = "app" => type' \in {"STDIN", "DATA"})
    BY DEF ParamsPart, Reading, InAccept, NestedError, SetError, Answer, AnswerFails, SetReaderType, AtEOF, Deliver, server, calls, ptrs, record, status, request, control, Control
  <2>7. Calm' => ~cleared' /\ ~wasFCloseCalled'
    BY DEF ParamsPart, Reading, InAccept, NestedError, SetError, Answer, AnswerFails, SetReaderType, AtEOF, Deliver, server, calls, ptrs, record, status, request, control, Control, Calm
  <2>8. InProgress' /\ phase' = "begin" /\ isBeginProcessed' => pc' = "use" /\ nested' = "none" /\ ~isClosed'
    BY DEF ParamsPart, Reading, InAccept, NestedError, SetError, Answer, AnswerFails, SetReaderType, AtEOF, Deliver, server, calls, ptrs, record, status, request, control, Control, InProgress
  <2>9. InProgress' /\ FCGI_errno' # "none" /\ phase' # "app" => pc' = "use" /\ isClosed'
    BY DEF ParamsPart, Reading, InAccept, NestedError, SetError, Answer, AnswerFails, SetReaderType, AtEOF, Deliver, server, calls, ptrs, record, status, request, control, Control, InProgress
  <2> QED BY <2>1, <2>2, <2>3, <2>4, <2>5, <2>6, <2>7, <2>8, <2>9 DEF Control
<1> QED BY <1>3, <1>4, <1>5, <1>6, <1>7, <1>8, <1>9, <1>10 DEF Typed

LEMMA ParamsDoneTypes ==
    ASSUME Typed, Control, ParamsDone
    PROVE  Typed' /\ Control'
<1>1. /\ Len(wire) \in Nat /\ sent \in 0..Len(wire) /\ sent \in Nat /\ buffStop \in Nat /\ HeaderLen \in Nat \ {0}
      /\ PairLen \in Nat \ {0} /\ BeginLen \in Nat \ {0} /\ rdNext \in Nat /\ stop \in Nat /\ stopUnget \in Nat
      /\ CellsOf(script, wire) /\ DOMAIN script = 1..Len(script) /\ \A i \in 1..Len(script) : script[i] \in Record
  BY WireFacts, SizesAssumption DEF Typed, ServerOK, PtrsOK
<1>3. ServerOK'
  BY <1>1 DEF ParamsDone, Reading, InAccept, NestedError, SetError, Answer, AnswerFails, SetReaderType, AtEOF, Deliver, server, calls, ptrs, record, status, request, control, Typed, ServerOK
<1>4. PtrsOK'
  BY <1>1 DEF ParamsDone, Reading, InAccept, NestedError, SetError, Answer, AnswerFails, SetReaderType, AtEOF, Deliver, server, calls, ptrs, record, status, request, control, Typed, PtrsOK
<1>5. RecordOK'
  BY <1>1 DEF ParamsDone, Reading, InAccept, NestedError, SetError, Answer, AnswerFails, SetReaderType, AtEOF, Deliver, server, calls, ptrs, record, status, request, control, Typed, RecordOK
<1>6. StatusOK'
  BY <1>1 DEF ParamsDone, Reading, InAccept, NestedError, SetError, Answer, AnswerFails, SetReaderType, AtEOF, Deliver, server, calls, ptrs, record, status, request, control, Typed, StatusOK, Errors, StreamTypes, Streams
<1>7. RequestOK'
  BY <1>1 DEF ParamsDone, Reading, InAccept, NestedError, SetError, Answer, AnswerFails, SetReaderType, AtEOF, Deliver, server, calls, ptrs, record, status, request, control, Typed, RequestOK, Roles
<1>8. ControlOK'
  BY <1>1 DEF ParamsDone, Reading, InAccept, NestedError, SetError, Answer, AnswerFails, SetReaderType, AtEOF, Deliver, server, calls, ptrs, record, status, request, control, Typed, ControlOK
<1>9. CallsOK'
  BY <1>1 DEF ParamsDone, Reading, InAccept, NestedError, SetError, Answer, AnswerFails, SetReaderType, AtEOF, Deliver, server, calls, ptrs, record, status, request, control, Typed, CallsOK
<1>10. Control'
  <2>1. stopUnget' <= rdNext' /\ headerLen' <= rdNext' /\ (nested' # "none" => rdNext' >= 1)
    BY <1>1 DEF ParamsDone, Reading, InAccept, NestedError, SetError, Answer, AnswerFails, SetReaderType, AtEOF, Deliver, server, calls, ptrs, record, status, request, control, Typed, RecordOK, Control
  <2>2. (eorStop' = (nested' # "none")) /\ (pc' \in {"idle", "closed"} => nested' = "none")
    BY DEF ParamsDone, Reading, InAccept, NestedError, SetError, Answer, AnswerFails, SetReaderType, AtEOF, Deliver, server, calls, ptrs, record, status, request, control, Control
  <2>3. (pc' = "fill" => ~isClosed') /\ (nested' = "begin" => phase' = "begin") /\ (phase' # "begin" => isBeginProcessed')
    BY DEF ParamsDone, Reading, InAccept, NestedError, SetError, Answer, AnswerFails, SetReaderType, AtEOF, Deliver, server, calls, ptrs, record, status, request, control, Control, InProgress
  <2>4. pc' = "use" /\ ~isClosed' => rdNext' <= stop' /\ ~skip'
    BY <1>1 DEF ParamsDone, Reading, InAccept, NestedError, SetError, Answer, AnswerFails, SetReaderType, AtEOF, Deliver, server, calls, ptrs, record, status, request, control, Control
  <2>5. headerLen' > 0 => pc' = "fill" /\ contentLen' = 0 /\ paddingLen' = 0 /\ nested' = "none"
    BY <1>1 DEF ParamsDone, Reading, InAccept, NestedError, SetError, Answer, AnswerFails, SetReaderType, AtEOF, Deliver, server, calls, ptrs, record, status, request, control, Control
  <2>6. (phase' = "begin" => type' = "NONE") /\ (phase' = "params" => type' = "PARAMS") /\ (phase' = "app" => type' \in {"STDIN", "DATA"})
    BY DEF ParamsDone, Reading, InAccept, NestedError, SetError, Answer, AnswerFails, SetReaderType, AtEOF, Deliver, server, calls, ptrs, record, status, request, control, Control
  <2>7. Calm' => ~cleared' /\ ~wasFCloseCalled'
    BY DEF ParamsDone, Reading, InAccept, NestedError, SetError, Answer, AnswerFails, SetReaderType, AtEOF, Deliver, server, calls, ptrs, record, status, request, control, Control, Calm
  <2>8. InProgress' /\ phase' = "begin" /\ isBeginProcessed' => pc' = "use" /\ nested' = "none" /\ ~isClosed'
    BY DEF ParamsDone, Reading, InAccept, NestedError, SetError, Answer, AnswerFails, SetReaderType, AtEOF, Deliver, server, calls, ptrs, record, status, request, control, Control, InProgress
  <2>9. InProgress' /\ FCGI_errno' # "none" /\ phase' # "app" => pc' = "use" /\ isClosed'
    BY DEF ParamsDone, Reading, InAccept, NestedError, SetError, Answer, AnswerFails, SetReaderType, AtEOF, Deliver, server, calls, ptrs, record, status, request, control, Control, InProgress
  <2> QED BY <2>1, <2>2, <2>3, <2>4, <2>5, <2>6, <2>7, <2>8, <2>9 DEF Control
<1> QED BY <1>3, <1>4, <1>5, <1>6, <1>7, <1>8, <1>9, <1>10 DEF Typed

LEMMA AcceptRequestTypes ==
    ASSUME Typed, Control, AcceptRequest
    PROVE  Typed' /\ Control'
<1>1. /\ Len(wire) \in Nat /\ sent \in 0..Len(wire) /\ sent \in Nat /\ buffStop \in Nat /\ HeaderLen \in Nat \ {0}
      /\ PairLen \in Nat \ {0} /\ BeginLen \in Nat \ {0} /\ rdNext \in Nat /\ stop \in Nat /\ stopUnget \in Nat
      /\ CellsOf(script, wire) /\ DOMAIN script = 1..Len(script) /\ \A i \in 1..Len(script) : script[i] \in Record
  BY WireFacts, SizesAssumption DEF Typed, ServerOK, PtrsOK
<1>3. ServerOK'
  BY <1>1 DEF AcceptRequest, Reading, InAccept, NestedError, SetError, Answer, AnswerFails, SetReaderType, AtEOF, Deliver, server, calls, ptrs, record, status, request, control, Typed, ServerOK
<1>4. PtrsOK'
  BY <1>1 DEF AcceptRequest, Reading, InAccept, NestedError, SetError, Answer, AnswerFails, SetReaderType, AtEOF, Deliver, server, calls, ptrs, record, status, request, control, Typed, PtrsOK
<1>5. RecordOK'
  <2>1. 0 \in 0..HeaderLen-1
    BY <1>1
  <2> QED BY <2>1 DEF AcceptRequest, Typed, RecordOK
<1>6. StatusOK'
  BY <1>1 DEF AcceptRequest, Reading, InAccept, NestedError, SetError, Answer, AnswerFails, SetReaderType, AtEOF, Deliver, server, calls, ptrs, record, status, request, control, Typed, StatusOK, Errors, StreamTypes, Streams
<1>7. RequestOK'
  BY <1>1 DEF AcceptRequest, Reading, InAccept, NestedError, SetError, Answer, AnswerFails, SetReaderType, AtEOF, Deliver, server, calls, ptrs, record, status, request, control, Typed, RequestOK, Roles
<1>8. ControlOK'
  BY <1>1 DEF AcceptRequest, Reading, InAccept, NestedError, SetError, Answer, AnswerFails, SetReaderType, AtEOF, Deliver, server, calls, ptrs, record, status, request, control, Typed, ControlOK
<1>9. CallsOK'
  <2>1. <<>> \in Seq(Nat \X Nat)
    OBVIOUS
  <2> QED BY <2>1 DEF AcceptRequest, Typed, CallsOK
<1>10. Control'
  <2>1. stopUnget' <= rdNext' /\ headerLen' <= rdNext' /\ (nested' # "none" => rdNext' >= 1)
    BY <1>1 DEF AcceptRequest, Reading, InAccept, NestedError, SetError, Answer, AnswerFails, SetReaderType, AtEOF, Deliver, server, calls, ptrs, record, status, request, control, Typed, RecordOK, Control
  <2>2. (eorStop' = (nested' # "none")) /\ (pc' \in {"idle", "closed"} => nested' = "none")
    BY DEF AcceptRequest, Reading, InAccept, NestedError, SetError, Answer, AnswerFails, SetReaderType, AtEOF, Deliver, server, calls, ptrs, record, status, request, control, Control
  <2>3. (pc' = "fill" => ~isClosed') /\ (nested' = "begin" => phase' = "begin") /\ (phase' # "begin" => isBeginProcessed')
    BY DEF AcceptRequest, Reading, InAccept, NestedError, SetError, Answer, AnswerFails, SetReaderType, AtEOF, Deliver, server, calls, ptrs, record, status, request, control, Control, InProgress
  <2>4. pc' = "use" /\ ~isClosed' => rdNext' <= stop' /\ ~skip'
    BY <1>1 DEF AcceptRequest, Reading, InAccept, NestedError, SetError, Answer, AnswerFails, SetReaderType, AtEOF, Deliver, server, calls, ptrs, record, status, request, control, Control
  <2>5. headerLen' > 0 => pc' = "fill" /\ contentLen' = 0 /\ paddingLen' = 0 /\ nested' = "none"
    BY <1>1 DEF AcceptRequest, Reading, InAccept, NestedError, SetError, Answer, AnswerFails, SetReaderType, AtEOF, Deliver, server, calls, ptrs, record, status, request, control, Control
  <2>6. (phase' = "begin" => type' = "NONE") /\ (phase' = "params" => type' = "PARAMS") /\ (phase' = "app" => type' \in {"STDIN", "DATA"})
    BY DEF AcceptRequest, Reading, InAccept, NestedError, SetError, Answer, AnswerFails, SetReaderType, AtEOF, Deliver, server, calls, ptrs, record, status, request, control, Control
  <2>7. Calm' => ~cleared' /\ ~wasFCloseCalled'
    BY DEF AcceptRequest, Reading, InAccept, NestedError, SetError, Answer, AnswerFails, SetReaderType, AtEOF, Deliver, server, calls, ptrs, record, status, request, control, Control, Calm
  <2>8. InProgress' /\ phase' = "begin" /\ isBeginProcessed' => pc' = "use" /\ nested' = "none" /\ ~isClosed'
    BY DEF AcceptRequest, Reading, InAccept, NestedError, SetError, Answer, AnswerFails, SetReaderType, AtEOF, Deliver, server, calls, ptrs, record, status, request, control, Control, InProgress
  <2>9. InProgress' /\ FCGI_errno' # "none" /\ phase' # "app" => pc' = "use" /\ isClosed'
    BY DEF AcceptRequest, Reading, InAccept, NestedError, SetError, Answer, AnswerFails, SetReaderType, AtEOF, Deliver, server, calls, ptrs, record, status, request, control, Control, InProgress
  <2> QED BY <2>1, <2>2, <2>3, <2>4, <2>5, <2>6, <2>7, <2>8, <2>9 DEF Control
<1> QED BY <1>3, <1>4, <1>5, <1>6, <1>7, <1>8, <1>9, <1>10 DEF Typed

LEMMA AppGetTypes ==
    ASSUME Typed, Control, AppGet
    PROVE  Typed' /\ Control'
<1>1. /\ Len(wire) \in Nat /\ sent \in 0..Len(wire) /\ sent \in Nat /\ buffStop \in Nat /\ HeaderLen \in Nat \ {0}
      /\ PairLen \in Nat \ {0} /\ BeginLen \in Nat \ {0} /\ rdNext \in Nat /\ stop \in Nat /\ stopUnget \in Nat
      /\ CellsOf(script, wire) /\ DOMAIN script = 1..Len(script) /\ \A i \in 1..Len(script) : script[i] \in Record
  BY WireFacts, SizesAssumption DEF Typed, ServerOK, PtrsOK
<1>2. /\ Available \in Nat /\ rdNext + Available = stop /\ stop <= buffStop /\ buffStop <= Len(wire)
      /\ stopUnget <= rdNext
  BY Handing DEF AppGet, Reading, InAccept, NestedError, SetError, Answer, AnswerFails, SetReaderType, AtEOF, Deliver
<1>3. ServerOK'
  BY <1>1, <1>2 DEF AppGet, Reading, InAccept, NestedError, SetError, Answer, AnswerFails, SetReaderType, AtEOF, Deliver, server, calls, ptrs, record, status, request, control, Typed, ServerOK
<1>4. PtrsOK'
  BY <1>1, <1>2 DEF AppGet, Reading, InAccept, NestedError, SetError, Answer, AnswerFails, SetReaderType, AtEOF, Deliver, server, calls, ptrs, record, status, request, control, Typed, PtrsOK
<1>5. RecordOK'
  BY <1>1, <1>2 DEF AppGet, Reading, InAccept, NestedError, SetError, Answer, AnswerFails, SetReaderType, AtEOF, Deliver, server, calls, ptrs, record, status, request, control, Typed, RecordOK
<1>6. StatusOK'
  BY <1>1, <1>2 DEF AppGet, Reading, InAccept, NestedError, SetError, Answer, AnswerFails, SetReaderType, AtEOF, Deliver, server, calls, ptrs, record, status, request, control, Typed, StatusOK, Errors, StreamTypes, Streams
<1>7. RequestOK'
  BY <1>1, <1>2 DEF AppGet, Reading, InAccept, NestedError, SetError, Answer, AnswerFails, SetReaderType, AtEOF, Deliver, server, calls, ptrs, record, status, request, control, Typed, RequestOK, Roles
<1>8. ControlOK'
  BY <1>1, <1>2 DEF AppGet, Reading, InAccept, NestedError, SetError, Answer, AnswerFails, SetReaderType, AtEOF, Deliver, server, calls, ptrs, record, status, request, control, Typed, ControlOK
<1>9. CallsOK'
  <2>1. \A m \in 0..Available : [got EXCEPT ![type] = @ \o SubSeq(wire, rdNext + 1, rdNext + m)] \in [Streams -> Seq(Cell)]
    <3>1. wire \in Seq(Cell) /\ got \in [Streams -> Seq(Cell)]
      BY <1>1 DEF CellsOf, Typed, CallsOK, Cell
    <3>2. \A m \in 0..Available : rdNext + m \in Nat /\ rdNext + m <= Len(wire)
      BY <1>1, <1>2
    <3> QED BY <1>1, <3>1, <3>2, GotDelivered
  <2>2. got' \in [Streams -> Seq(Cell)]
    <3>1. Available \in 0..Available /\ 1..Available \subseteq 0..Available
      BY <1>2
    <3> QED BY <2>1, <3>1 DEF AppGet, Deliver
  <2> QED BY <2>2 DEF AppGet, Deliver, calls, Typed, CallsOK, Cell
<1>10. Control'
  <2>1. stopUnget' <= rdNext' /\ headerLen' <= rdNext' /\ (nested' # "none" => rdNext' >= 1)
    BY <1>1, <1>2 DEF AppGet, Reading, InAccept, NestedError, SetError, Answer, AnswerFails, SetReaderType, AtEOF, Deliver, server, calls, ptrs, record, status, request, control, Typed, RecordOK, Control
  <2>2. (eorStop' = (nested' # "none")) /\ (pc' \in {"idle", "closed"} => nested' = "none")
    BY DEF AppGet, Reading, InAccept, NestedError, SetError, Answer, AnswerFails, SetReaderType, AtEOF, Deliver, server, calls, ptrs, record, status, request, control, Control
  <2>3. (pc' = "fill" => ~isClosed') /\ (nested' = "begin" => phase' = "begin") /\ (phase' # "begin" => isBeginProcessed')
    BY DEF AppGet, Reading, InAccept, NestedError, SetError, Answer, AnswerFails, SetReaderType, AtEOF, Deliver, server, calls, ptrs, record, status, request, control, Control, InProgress
  <2>4. pc' = "use" /\ ~isClosed' => rdNext' <= stop' /\ ~skip'
    BY <1>1, <1>2 DEF AppGet, Reading, InAccept, NestedError, SetError, Answer, AnswerFails, SetReaderType, AtEOF, Deliver, server, calls, ptrs, record, status, request, control, Control
  <2>5. headerLen' > 0 => pc' = "fill" /\ contentLen' = 0 /\ paddingLen' = 0 /\ nested' = "none"
    BY <1>1 DEF AppGet, Reading, InAccept, NestedError, SetError, Answer, AnswerFails, SetReaderType, AtEOF, Deliver, server, calls, ptrs, record, status, request, control, Control
  <2>6. (phase' = "begin" => type' = "NONE") /\ (phase' = "params" => type' = "PARAMS") /\ (phase' = "app" => type' \in {"STDIN", "DATA"})
    BY DEF AppGet, Reading, InAccept, NestedError, SetError, Answer, AnswerFails, SetReaderType, AtEOF, Deliver, server, calls, ptrs, record, status, request, control, Control
  <2>7. Calm' => ~cleared' /\ ~wasFCloseCalled'
    BY DEF AppGet, Reading, InAccept, NestedError, SetError, Answer, AnswerFails, SetReaderType, AtEOF, Deliver, server, calls, ptrs, record, status, request, control, Control, Calm
  <2>8. InProgress' /\ phase' = "begin" /\ isBeginProcessed' => pc' = "use" /\ nested' = "none" /\ ~isClosed'
    BY DEF AppGet, Reading, InAccept, NestedError, SetError, Answer, AnswerFails, SetReaderType, AtEOF, Deliver, server, calls, ptrs, record, status, request, control, Control, InProgress
  <2>9. InProgress' /\ FCGI_errno' # "none" /\ phase' # "app" => pc' = "use" /\ isClosed'
    BY DEF AppGet, Reading, InAccept, NestedError, SetError, Answer, AnswerFails, SetReaderType, AtEOF, Deliver, server, calls, ptrs, record, status, request, control, Control, InProgress
  <2> QED BY <2>1, <2>2, <2>3, <2>4, <2>5, <2>6, <2>7, <2>8, <2>9 DEF Control
<1> QED BY <1>3, <1>4, <1>5, <1>6, <1>7, <1>8, <1>9, <1>10 DEF Typed

LEMMA AppFillTypes ==
    ASSUME Typed, Control, AppFill
    PROVE  Typed' /\ Control'
<1>1. /\ Len(wire) \in Nat /\ sent \in 0..Len(wire) /\ sent \in Nat /\ buffStop \in Nat /\ HeaderLen \in Nat \ {0}
      /\ PairLen \in Nat \ {0} /\ BeginLen \in Nat \ {0} /\ rdNext \in Nat /\ stop \in Nat /\ stopUnget \in Nat
      /\ CellsOf(script, wire) /\ DOMAIN script = 1..Len(script) /\ \A i \in 1..Len(script) : script[i] \in Record
  BY WireFacts, SizesAssumption DEF Typed, ServerOK, PtrsOK
<1>2. /\ Available \in Nat /\ rdNext + Available = stop /\ stop <= buffStop /\ buffStop <= Len(wire)
      /\ stopUnget <= rdNext
  BY Handing DEF AppFill, Reading, InAccept, NestedError, SetError, Answer, AnswerFails, SetReaderType, AtEOF, Deliver
<1>3. ServerOK'
  BY <1>1, <1>2 DEF AppFill, Reading, InAccept, NestedError, SetError, Answer, AnswerFails, SetReaderType, AtEOF, Deliver, server, calls, ptrs, record, status, request, control, Typed, ServerOK
<1>4. PtrsOK'
  BY <1>1, <1>2 DEF AppFill, Reading, InAccept, NestedError, SetError, Answer, AnswerFails, SetReaderType, AtEOF, Deliver, server, calls, ptrs, record, status, request, control, Typed, PtrsOK
<1>5. RecordOK'
  BY <1>1, <1>2 DEF AppFill, Reading, InAccept, NestedError, SetError, Answer, AnswerFails, SetReaderType, AtEOF, Deliver, server, calls, ptrs, record, status, request, control, Typed, RecordOK
<1>6. StatusOK'
  BY <1>1, <1>2 DEF AppFill, Reading, InAccept, NestedError, SetError, Answer, AnswerFails, SetReaderType, AtEOF, Deliver, server, calls, ptrs, record, status, request, control, Typed, StatusOK, Errors, StreamTypes, Streams
<1>7. RequestOK'
  BY <1>1, <1>2 DEF AppFill, Reading, InAccept, NestedError, SetError, Answer, AnswerFails, SetReaderType, AtEOF, Deliver, server, calls, ptrs, record, status, request, control, Typed, RequestOK, Roles
<1>8. ControlOK'
  BY <1>1, <1>2 DEF AppFill, Reading, InAccept, NestedError, SetError, Answer, AnswerFails, SetReaderType, AtEOF, Deliver, server, calls, ptrs, record, status, request, control, Typed, ControlOK
<1>9. CallsOK'
  BY <1>1, <1>2 DEF AppFill, Reading, InAccept, NestedError, SetError, Answer, AnswerFails, SetReaderType, AtEOF, Deliver, server, calls, ptrs, record, status, request, control, Typed, CallsOK
<1>10. Control'
  <2>1. stopUnget' <= rdNext' /\ headerLen' <= rdNext' /\ (nested' # "none" => rdNext' >= 1)
    BY <1>1, <1>2 DEF AppFill, Reading, InAccept, NestedError, SetError, Answer, AnswerFails, SetReaderType, AtEOF, Deliver, server, calls, ptrs, record, status, request, control, Typed, RecordOK, Control
  <2>2. (eorStop' = (nested' # "none")) /\ (pc' \in {"idle", "closed"} => nested' = "none")
    BY DEF AppFill, Reading, InAccept, NestedError, SetError, Answer, AnswerFails, SetReaderType, AtEOF, Deliver, server, calls, ptrs, record, status, request, control, Control
  <2>3. (pc' = "fill" => ~isClosed') /\ (nested' = "begin" => phase' = "begin") /\ (phase' # "begin" => isBeginProcessed')
    BY DEF AppFill, Reading, InAccept, NestedError, SetError, Answer, AnswerFails, SetReaderType, AtEOF, Deliver, server, calls, ptrs, record, status, request, control, Control, InProgress
  <2>4. pc' = "use" /\ ~isClosed' => rdNext' <= stop' /\ ~skip'
    BY <1>1, <1>2 DEF AppFill, Reading, InAccept, NestedError, SetError, Answer, AnswerFails, SetReaderType, AtEOF, Deliver, server, calls, ptrs, record, status, request, control, Control
  <2>5. headerLen' > 0 => pc' = "fill" /\ contentLen' = 0 /\ paddingLen' = 0 /\ nested' = "none"
    BY <1>1 DEF AppFill, Reading, InAccept, NestedError, SetError, Answer, AnswerFails, SetReaderType, AtEOF, Deliver, server, calls, ptrs, record, status, request, control, Control
  <2>6. (phase' = "begin" => type' = "NONE") /\ (phase' = "params" => type' = "PARAMS") /\ (phase' = "app" => type' \in {"STDIN", "DATA"})
    BY DEF AppFill, Reading, InAccept, NestedError, SetError, Answer, AnswerFails, SetReaderType, AtEOF, Deliver, server, calls, ptrs, record, status, request, control, Control
  <2>7. Calm' => ~cleared' /\ ~wasFCloseCalled'
    BY DEF AppFill, Reading, InAccept, NestedError, SetError, Answer, AnswerFails, SetReaderType, AtEOF, Deliver, server, calls, ptrs, record, status, request, control, Control, Calm
  <2>8. InProgress' /\ phase' = "begin" /\ isBeginProcessed' => pc' = "use" /\ nested' = "none" /\ ~isClosed'
    BY DEF AppFill, Reading, InAccept, NestedError, SetError, Answer, AnswerFails, SetReaderType, AtEOF, Deliver, server, calls, ptrs, record, status, request, control, Control, InProgress
  <2>9. InProgress' /\ FCGI_errno' # "none" /\ phase' # "app" => pc' = "use" /\ isClosed'
    BY DEF AppFill, Reading, InAccept, NestedError, SetError, Answer, AnswerFails, SetReaderType, AtEOF, Deliver, server, calls, ptrs, record, status, request, control, Control, InProgress
  <2> QED BY <2>1, <2>2, <2>3, <2>4, <2>5, <2>6, <2>7, <2>8, <2>9 DEF Control
<1> QED BY <1>3, <1>4, <1>5, <1>6, <1>7, <1>8, <1>9, <1>10 DEF Typed

LEMMA AppUnGetTypes ==
    ASSUME Typed, Control, AppUnGet
    PROVE  Typed' /\ Control'
<1>1. /\ Len(wire) \in Nat /\ sent \in 0..Len(wire) /\ sent \in Nat /\ buffStop \in Nat /\ HeaderLen \in Nat \ {0}
      /\ PairLen \in Nat \ {0} /\ BeginLen \in Nat \ {0} /\ rdNext \in Nat /\ stop \in Nat /\ stopUnget \in Nat
      /\ CellsOf(script, wire) /\ DOMAIN script = 1..Len(script) /\ \A i \in 1..Len(script) : script[i] \in Record
  BY WireFacts, SizesAssumption DEF Typed, ServerOK, PtrsOK
<1>2. /\ Available \in Nat /\ rdNext + Available = stop /\ stop <= buffStop /\ buffStop <= Len(wire)
      /\ stopUnget <= rdNext
  BY Handing DEF AppUnGet, Reading, InAccept, NestedError, SetError, Answer, AnswerFails, SetReaderType, AtEOF, Deliver
<1>3. ServerOK'
  BY <1>1, <1>2 DEF AppUnGet, Reading, InAccept, NestedError, SetError, Answer, AnswerFails, SetReaderType, AtEOF, Deliver, server, calls, ptrs, record, status, request, control, Typed, ServerOK
<1>4. PtrsOK'
  BY <1>1, <1>2 DEF AppUnGet, Reading, InAccept, NestedError, SetError, Answer, AnswerFails, SetReaderType, AtEOF, Deliver, server, calls, ptrs, record, status, request, control, Typed, PtrsOK
<1>5. RecordOK'
  BY <1>1, <1>2 DEF AppUnGet, Reading, InAccept, NestedError, SetError, Answer, AnswerFails, SetReaderType, AtEOF, Deliver, server, calls, ptrs, record, status, request, control, Typed, RecordOK
<1>6. StatusOK'
  BY <1>1, <1>2 DEF AppUnGet, Reading, InAccept, NestedError, SetError, Answer, AnswerFails, SetReaderType, AtEOF, Deliver, server, calls, ptrs, record, status, request, control, Typed, StatusOK, Errors, StreamTypes, Streams
<1>7. RequestOK'
  BY <1>1, <1>2 DEF AppUnGet, Reading, InAccept, NestedError, SetError, Answer, AnswerFails, SetReaderType, AtEOF, Deliver, server, calls, ptrs, record, status, request, control, Typed, RequestOK, Roles
<1>8. ControlOK'
  BY <1>1, <1>2 DEF AppUnGet, Reading, InAccept, NestedError, SetError, Answer, AnswerFails, SetReaderType, AtEOF, Deliver, server, calls, ptrs, record, status, request, control, Typed, ControlOK
<1>9. CallsOK'
  <2>1. got \in [Streams -> Seq(Cell)] /\ type \in Streams
    BY DEF Typed, CallsOK, Cell, AppUnGet, InAccept, Control, Streams
  <2>2. Front(got[type]) \in Seq(Cell)
    BY <2>1, FrontIsSeq DEF AppUnGet
  <2> QED BY <2>1, <2>2 DEF AppUnGet, calls, Typed, CallsOK, Cell
<1>10. Control'
  <2>1. stopUnget' <= rdNext' /\ headerLen' <= rdNext' /\ (nested' # "none" => rdNext' >= 1)
    BY <1>1, <1>2 DEF AppUnGet, Reading, InAccept, NestedError, SetError, Answer, AnswerFails, SetReaderType, AtEOF, Deliver, server, calls, ptrs, record, status, request, control, Typed, RecordOK, Control
  <2>2. (eorStop' = (nested' # "none")) /\ (pc' \in {"idle", "closed"} => nested' = "none")
    BY DEF AppUnGet, Reading, InAccept, NestedError, SetError, Answer, AnswerFails, SetReaderType, AtEOF, Deliver, server, calls, ptrs, record, status, request, control, Control
  <2>3. (pc' = "fill" => ~isClosed') /\ (nested' = "begin" => phase' = "begin") /\ (phase' # "begin" => isBeginProcessed')
    BY DEF AppUnGet, Reading, InAccept, NestedError, SetError, Answer, AnswerFails, SetReaderType, AtEOF, Deliver, server, calls, ptrs, record, status, request, control, Control, InProgress
  <2>4. pc' = "use" /\ ~isClosed' => rdNext' <= stop' /\ ~skip'
    BY <1>1, <1>2 DEF AppUnGet, Reading, InAccept, NestedError, SetError, Answer, AnswerFails, SetReaderType, AtEOF, Deliver, server, calls, ptrs, record, status, request, control, Control
  <2>5. headerLen' > 0 => pc' = "fill" /\ contentLen' = 0 /\ paddingLen' = 0 /\ nested' = "none"
    BY <1>1 DEF AppUnGet, Reading, InAccept, NestedError, SetError, Answer, AnswerFails, SetReaderType, AtEOF, Deliver, server, calls, ptrs, record, status, request, control, Control
  <2>6. (phase' = "begin" => type' = "NONE") /\ (phase' = "params" => type' = "PARAMS") /\ (phase' = "app" => type' \in {"STDIN", "DATA"})
    BY DEF AppUnGet, Reading, InAccept, NestedError, SetError, Answer, AnswerFails, SetReaderType, AtEOF, Deliver, server, calls, ptrs, record, status, request, control, Control
  <2>7. Calm' => ~cleared' /\ ~wasFCloseCalled'
    BY DEF AppUnGet, Reading, InAccept, NestedError, SetError, Answer, AnswerFails, SetReaderType, AtEOF, Deliver, server, calls, ptrs, record, status, request, control, Control, Calm
  <2>8. InProgress' /\ phase' = "begin" /\ isBeginProcessed' => pc' = "use" /\ nested' = "none" /\ ~isClosed'
    BY DEF AppUnGet, Reading, InAccept, NestedError, SetError, Answer, AnswerFails, SetReaderType, AtEOF, Deliver, server, calls, ptrs, record, status, request, control, Control, InProgress
  <2>9. InProgress' /\ FCGI_errno' # "none" /\ phase' # "app" => pc' = "use" /\ isClosed'
    BY DEF AppUnGet, Reading, InAccept, NestedError, SetError, Answer, AnswerFails, SetReaderType, AtEOF, Deliver, server, calls, ptrs, record, status, request, control, Control, InProgress
  <2> QED BY <2>1, <2>2, <2>3, <2>4, <2>5, <2>6, <2>7, <2>8, <2>9 DEF Control
<1> QED BY <1>3, <1>4, <1>5, <1>6, <1>7, <1>8, <1>9, <1>10 DEF Typed

LEMMA AppStartFilterDataTypes ==
    ASSUME Typed, Control, AppStartFilterData
    PROVE  Typed' /\ Control'
<1>1. /\ Len(wire) \in Nat /\ sent \in 0..Len(wire) /\ sent \in Nat /\ buffStop \in Nat /\ HeaderLen \in Nat \ {0}
      /\ PairLen \in Nat \ {0} /\ BeginLen \in Nat \ {0} /\ rdNext \in Nat /\ stop \in Nat /\ stopUnget \in Nat
      /\ CellsOf(script, wire) /\ DOMAIN script = 1..Len(script) /\ \A i \in 1..Len(script) : script[i] \in Record
  BY WireFacts, SizesAssumption DEF Typed, ServerOK, PtrsOK
<1>3. ServerOK'
  BY <1>1 DEF AppStartFilterData, Reading, InAccept, NestedError, SetError, Answer, AnswerFails, SetReaderType, AtEOF, Deliver, server, calls, ptrs, record, status, request, control, Typed, ServerOK
<1>4. PtrsOK'
  BY <1>1 DEF AppStartFilterData, Reading, InAccept, NestedError, SetError, Answer, AnswerFails, SetReaderType, AtEOF, Deliver, server, calls, ptrs, record, status, request, control, Typed, PtrsOK
<1>5. RecordOK'
  <2>1. contentLen' \in {contentLen, 0} /\ paddingLen' \in {paddingLen, 0} /\ skip' \in {skip, FALSE}
        /\ eorStop' \in {eorStop, FALSE} /\ headerLen' = headerLen
    BY DEF AppStartFilterData, SetReaderType, record
  <2>2. contentLen' \in Nat /\ paddingLen' \in Nat
    BY <2>1 DEF Typed, RecordOK
  <2>3. skip' \in BOOLEAN /\ eorStop' \in BOOLEAN
    BY <2>1 DEF Typed, RecordOK
  <2> QED BY <2>1, <2>2, <2>3 DEF Typed, RecordOK
<1>6. StatusOK'
  BY <1>1 DEF AppStartFilterData, Reading, InAccept, NestedError, SetError, Answer, AnswerFails, SetReaderType, AtEOF, Deliver, server, calls, ptrs, record, status, request, control, Typed, StatusOK, Errors, StreamTypes, Streams
<1>7. RequestOK'
  BY <1>1 DEF AppStartFilterData, Reading, InAccept, NestedError, SetError, Answer, AnswerFails, SetReaderType, AtEOF, Deliver, server, calls, ptrs, record, status, request, control, Typed, RequestOK, Roles
<1>8. ControlOK'
  BY <1>1 DEF AppStartFilterData, Reading, InAccept, NestedError, SetError, Answer, AnswerFails, SetReaderType, AtEOF, Deliver, server, calls, ptrs, record, status, request, control, Typed, ControlOK
<1>9. CallsOK'
  BY <1>1 DEF AppStartFilterData, Reading, InAccept, NestedError, SetError, Answer, AnswerFails, SetReaderType, AtEOF, Deliver, server, calls, ptrs, record, status, request, control, Typed, CallsOK
<1>10. Control'
  <2>1. stopUnget' <= rdNext' /\ headerLen' <= rdNext' /\ (nested' # "none" => rdNext' >= 1)
    BY <1>1 DEF AppStartFilterData, Reading, InAccept, NestedError, SetError, Answer, AnswerFails, SetReaderType, AtEOF, Deliver, server, calls, ptrs, record, status, request, control, Typed, RecordOK, Control
  <2>2. (eorStop' = (nested' # "none")) /\ (pc' \in {"idle", "closed"} => nested' = "none")
    BY DEF AppStartFilterData, Reading, InAccept, NestedError, SetError, Answer, AnswerFails, SetReaderType, AtEOF, Deliver, server, calls, ptrs, record, status, request, control, Control
  <2>3. (pc' = "fill" => ~isClosed') /\ (nested' = "begin" => phase' = "begin") /\ (phase' # "begin" => isBeginProcessed')
    BY DEF AppStartFilterData, Reading, InAccept, NestedError, SetError, Answer, AnswerFails, SetReaderType, AtEOF, Deliver, server, calls, ptrs, record, status, request, control, Control, InProgress
  <2>4. pc' = "use" /\ ~isClosed' => rdNext' <= stop' /\ ~skip'
    BY <1>1 DEF AppStartFilterData, Reading, InAccept, NestedError, SetError, Answer, AnswerFails, SetReaderType, AtEOF, Deliver, server, calls, ptrs, record, status, request, control, Control
  <2>5. headerLen' > 0 => pc' = "fill" /\ contentLen' = 0 /\ paddingLen' = 0 /\ nested' = "none"
    BY <1>1 DEF AppStartFilterData, Reading, InAccept, NestedError, SetError, Answer, AnswerFails, SetReaderType, AtEOF, Deliver, server, calls, ptrs, record, status, request, control, Control
  <2>6. (phase' = "begin" => type' = "NONE") /\ (phase' = "params" => type' = "PARAMS") /\ (phase' = "app" => type' \in {"STDIN", "DATA"})
    BY DEF AppStartFilterData, Reading, InAccept, NestedError, SetError, Answer, AnswerFails, SetReaderType, AtEOF, Deliver, server, calls, ptrs, record, status, request, control, Control
  <2>7. Calm' => ~cleared' /\ ~wasFCloseCalled'
    BY DEF AppStartFilterData, Reading, InAccept, NestedError, SetError, Answer, AnswerFails, SetReaderType, AtEOF, Deliver, server, calls, ptrs, record, status, request, control, Control, Calm
  <2>8. InProgress' /\ phase' = "begin" /\ isBeginProcessed' => pc' = "use" /\ nested' = "none" /\ ~isClosed'
    BY DEF AppStartFilterData, Reading, InAccept, NestedError, SetError, Answer, AnswerFails, SetReaderType, AtEOF, Deliver, server, calls, ptrs, record, status, request, control, Control, InProgress
  <2>9. InProgress' /\ FCGI_errno' # "none" /\ phase' # "app" => pc' = "use" /\ isClosed'
    BY DEF AppStartFilterData, Reading, InAccept, NestedError, SetError, Answer, AnswerFails, SetReaderType, AtEOF, Deliver, server, calls, ptrs, record, status, request, control, Control, InProgress
  <2> QED BY <2>1, <2>2, <2>3, <2>4, <2>5, <2>6, <2>7, <2>8, <2>9 DEF Control
<1> QED BY <1>3, <1>4, <1>5, <1>6, <1>7, <1>8, <1>9, <1>10 DEF Typed

LEMMA AppFCloseTypes ==
    ASSUME Typed, Control, AppFClose
    PROVE  Typed' /\ Control'
<1>1. /\ Len(wire) \in Nat /\ sent \in 0..Len(wire) /\ sent \in Nat /\ buffStop \in Nat /\ HeaderLen \in Nat \ {0}
      /\ PairLen \in Nat \ {0} /\ BeginLen \in Nat \ {0} /\ rdNext \in Nat /\ stop \in Nat /\ stopUnget \in Nat
      /\ CellsOf(script, wire) /\ DOMAIN script = 1..Len(script) /\ \A i \in 1..Len(script) : script[i] \in Record
  BY WireFacts, SizesAssumption DEF Typed, ServerOK, PtrsOK
<1>3. ServerOK'
  BY <1>1 DEF AppFClose, Reading, InAccept, NestedError, SetError, Answer, AnswerFails, SetReaderType, AtEOF, Deliver, server, calls, ptrs, record, status, request, control, Typed, ServerOK
<1>4. PtrsOK'
  BY <1>1 DEF AppFClose, Reading, InAccept, NestedError, SetError, Answer, AnswerFails, SetReaderType, AtEOF, Deliver, server, calls, ptrs, record, status, request, control, Typed, PtrsOK
<1>5. RecordOK'
  BY <1>1 DEF AppFClose, Reading, InAccept, NestedError, SetError, Answer, AnswerFails, SetReaderType, AtEOF, Deliver, server, calls, ptrs, record, status, request, control, Typed, RecordOK
<1>6. StatusOK'
  BY <1>1 DEF AppFClose, Reading, InAccept, NestedError, SetError, Answer, AnswerFails, SetReaderType, AtEOF, Deliver, server, calls, ptrs, record, status, request, control, Typed, StatusOK, Errors, StreamTypes, Streams
<1>7. RequestOK'
  BY <1>1 DEF AppFClose, Reading, InAccept, NestedError, SetError, Answer, AnswerFails, SetReaderType, AtEOF, Deliver, server, calls, ptrs, record, status, request, control, Typed, RequestOK, Roles
<1>8. ControlOK'
  BY <1>1 DEF AppFClose, Reading, InAccept, NestedError, SetError, Answer, AnswerFails, SetReaderType, AtEOF, Deliver, server, calls, ptrs, record, status, request, control, Typed, ControlOK
<1>9. CallsOK'
  BY <1>1 DEF AppFClose, Reading, InAccept, NestedError, SetError, Answer, AnswerFails, SetReaderType, AtEOF, Deliver, server, calls, ptrs, record, status, request, control, Typed, CallsOK
<1>10. Control'
  <2>1. stopUnget' <= rdNext' /\ headerLen' <= rdNext' /\ (nested' # "none" => rdNext' >= 1)
    BY <1>1 DEF AppFClose, Reading, InAccept, NestedError, SetError, Answer, AnswerFails, SetReaderType, AtEOF, Deliver, server, calls, ptrs, record, status, request, control, Typed, RecordOK, Control
  <2>2. (eorStop' = (nested' # "none")) /\ (pc' \in {"idle", "closed"} => nested' = "none")
    BY DEF AppFClose, Reading, InAccept, NestedError, SetError, Answer, AnswerFails, SetReaderType, AtEOF, Deliver, server, calls, ptrs, record, status, request, control, Control
  <2>3. (pc' = "fill" => ~isClosed') /\ (nested' = "begin" => phase' = "begin") /\ (phase' # "begin" => isBeginProcessed')
    BY DEF AppFClose, Reading, InAccept, NestedError, SetError, Answer, AnswerFails, SetReaderType, AtEOF, Deliver, server, calls, ptrs, record, status, request, control, Control, InProgress
  <2>4. pc' = "use" /\ ~isClosed' => rdNext' <= stop' /\ ~skip'
    BY <1>1 DEF AppFClose, Reading, InAccept, NestedError, SetError, Answer, AnswerFails, SetReaderType, AtEOF, Deliver, server, calls, ptrs, record, status, request, control, Control
  <2>5. headerLen' > 0 => pc' = "fill" /\ contentLen' = 0 /\ paddingLen' = 0 /\ nested' = "none"
    BY <1>1 DEF AppFClose, Reading, InAccept, NestedError, SetError, Answer, AnswerFails, SetReaderType, AtEOF, Deliver, server, calls, ptrs, record, status, request, control, Control
  <2>6. (phase' = "begin" => type' = "NONE") /\ (phase' = "params" => type' = "PARAMS") /\ (phase' = "app" => type' \in {"STDIN", "DATA"})
    BY DEF AppFClose, Reading, InAccept, NestedError, SetError, Answer, AnswerFails, SetReaderType, AtEOF, Deliver, server, calls, ptrs, record, status, request, control, Control
  <2>7. Calm' => ~cleared' /\ ~wasFCloseCalled'
    BY DEF AppFClose, Reading, InAccept, NestedError, SetError, Answer, AnswerFails, SetReaderType, AtEOF, Deliver, server, calls, ptrs, record, status, request, control, Control, Calm
  <2>8. InProgress' /\ phase' = "begin" /\ isBeginProcessed' => pc' = "use" /\ nested' = "none" /\ ~isClosed'
    BY DEF AppFClose, Reading, InAccept, NestedError, SetError, Answer, AnswerFails, SetReaderType, AtEOF, Deliver, server, calls, ptrs, record, status, request, control, Control, InProgress
  <2>9. InProgress' /\ FCGI_errno' # "none" /\ phase' # "app" => pc' = "use" /\ isClosed'
    BY DEF AppFClose, Reading, InAccept, NestedError, SetError, Answer, AnswerFails, SetReaderType, AtEOF, Deliver, server, calls, ptrs, record, status, request, control, Control, InProgress
  <2> QED BY <2>1, <2>2, <2>3, <2>4, <2>5, <2>6, <2>7, <2>8, <2>9 DEF Control
<1> QED BY <1>3, <1>4, <1>5, <1>6, <1>7, <1>8, <1>9, <1>10 DEF Typed

LEMMA AppClearErrorTypes ==
    ASSUME Typed, Control, AppClearError
    PROVE  Typed' /\ Control'
<1>1. /\ Len(wire) \in Nat /\ sent \in 0..Len(wire) /\ sent \in Nat /\ buffStop \in Nat /\ HeaderLen \in Nat \ {0}
      /\ PairLen \in Nat \ {0} /\ BeginLen \in Nat \ {0} /\ rdNext \in Nat /\ stop \in Nat /\ stopUnget \in Nat
      /\ CellsOf(script, wire) /\ DOMAIN script = 1..Len(script) /\ \A i \in 1..Len(script) : script[i] \in Record
  BY WireFacts, SizesAssumption DEF Typed, ServerOK, PtrsOK
<1>3. ServerOK'
  BY <1>1 DEF AppClearError, Reading, InAccept, NestedError, SetError, Answer, AnswerFails, SetReaderType, AtEOF, Deliver, server, calls, ptrs, record, status, request, control, Typed, ServerOK
<1>4. PtrsOK'
  BY <1>1 DEF AppClearError, Reading, InAccept, NestedError, SetError, Answer, AnswerFails, SetReaderType, AtEOF, Deliver, server, calls, ptrs, record, status, request, control, Typed, PtrsOK
<1>5. RecordOK'
  BY <1>1 DEF AppClearError, Reading, InAccept, NestedError, SetError, Answer, AnswerFails, SetReaderType, AtEOF, Deliver, server, calls, ptrs, record, status, request, control, Typed, RecordOK
<1>6. StatusOK'
  BY <1>1 DEF AppClearError, Reading, InAccept, NestedError, SetError, Answer, AnswerFails, SetReaderType, AtEOF, Deliver, server, calls, ptrs, record, status, request, control, Typed, StatusOK, Errors, StreamTypes, Streams
<1>7. RequestOK'
  BY <1>1 DEF AppClearError, Reading, InAccept, NestedError, SetError, Answer, AnswerFails, SetReaderType, AtEOF, Deliver, server, calls, ptrs, record, status, request, control, Typed, RequestOK, Roles
<1>8. ControlOK'
  BY <1>1 DEF AppClearError, Reading, InAccept, NestedError, SetError, Answer, AnswerFails, SetReaderType, AtEOF, Deliver, server, calls, ptrs, record, status, request, control, Typed, ControlOK
<1>9. CallsOK'
  BY <1>1 DEF AppClearError, Reading, InAccept, NestedError, SetError, Answer, AnswerFails, SetReaderType, AtEOF, Deliver, server, calls, ptrs, record, status, request, control, Typed, CallsOK
<1>10. Control'
  <2>1. stopUnget' <= rdNext' /\ headerLen' <= rdNext' /\ (nested' # "none" => rdNext' >= 1)
    BY <1>1 DEF AppClearError, Reading, InAccept, NestedError, SetError, Answer, AnswerFails, SetReaderType, AtEOF, Deliver, server, calls, ptrs, record, status, request, control, Typed, RecordOK, Control
  <2>2. (eorStop' = (nested' # "none")) /\ (pc' \in {"idle", "closed"} => nested' = "none")
    BY DEF AppClearError, Reading, InAccept, NestedError, SetError, Answer, AnswerFails, SetReaderType, AtEOF, Deliver, server, calls, ptrs, record, status, request, control, Control
  <2>3. (pc' = "fill" => ~isClosed') /\ (nested' = "begin" => phase' = "begin") /\ (phase' # "begin" => isBeginProcessed')
    BY DEF AppClearError, Reading, InAccept, NestedError, SetError, Answer, AnswerFails, SetReaderType, AtEOF, Deliver, server, calls, ptrs, record, status, request, control, Control, InProgress
  <2>4. pc' = "use" /\ ~isClosed' => rdNext' <= stop' /\ ~skip'
    BY <1>1 DEF AppClearError, Reading, InAccept, NestedError, SetError, Answer, AnswerFails, SetReaderType, AtEOF, Deliver, server, calls, ptrs, record, status, request, control, Control
  <2>5. headerLen' > 0 => pc' = "fill" /\ contentLen' = 0 /\ paddingLen' = 0 /\ nested' = "none"
    BY <1>1 DEF AppClearError, Reading, InAccept, NestedError, SetError, Answer, AnswerFails, SetReaderType, AtEOF, Deliver, server, calls, ptrs, record, status, request, control, Control
  <2>6. (phase' = "begin" => type' = "NONE") /\ (phase' = "params" => type' = "PARAMS") /\ (phase' = "app" => type' \in {"STDIN", "DATA"})
    BY DEF AppClearError, Reading, InAccept, NestedError, SetError, Answer, AnswerFails, SetReaderType, AtEOF, Deliver, server, calls, ptrs, record, status, request, control, Control
  <2>7. Calm' => ~cleared' /\ ~wasFCloseCalled'
    BY DEF AppClearError, Reading, InAccept, NestedError, SetError, Answer, AnswerFails, SetReaderType, AtEOF, Deliver, server, calls, ptrs, record, status, request, control, Control, Calm
  <2>8. InProgress' /\ phase' = "begin" /\ isBeginProcessed' => pc' = "use" /\ nested' = "none" /\ ~isClosed'
    BY DEF AppClearError, Reading, InAccept, NestedError, SetError, Answer, AnswerFails, SetReaderType, AtEOF, Deliver, server, calls, ptrs, record, status, request, control, Control, InProgress
  <2>9. InProgress' /\ FCGI_errno' # "none" /\ phase' # "app" => pc' = "use" /\ isClosed'
    BY DEF AppClearError, Reading, InAccept, NestedError, SetError, Answer, AnswerFails, SetReaderType, AtEOF, Deliver, server, calls, ptrs, record, status, request, control, Control, InProgress
  <2> QED BY <2>1, <2>2, <2>3, <2>4, <2>5, <2>6, <2>7, <2>8, <2>9 DEF Control
<1> QED BY <1>3, <1>4, <1>5, <1>6, <1>7, <1>8, <1>9, <1>10 DEF Typed

LEMMA AppFinishTypes ==
    ASSUME Typed, Control, AppFinish
    PROVE  Typed' /\ Control'
<1>1. /\ Len(wire) \in Nat /\ sent \in 0..Len(wire) /\ sent \in Nat /\ buffStop \in Nat /\ HeaderLen \in Nat \ {0}
      /\ PairLen \in Nat \ {0} /\ BeginLen \in Nat \ {0} /\ rdNext \in Nat /\ stop \in Nat /\ stopUnget \in Nat
      /\ CellsOf(script, wire) /\ DOMAIN script = 1..Len(script) /\ \A i \in 1..Len(script) : script[i] \in Record
  BY WireFacts, SizesAssumption DEF Typed, ServerOK, PtrsOK
<1>3. ServerOK'
  BY <1>1 DEF AppFinish, Reading, InAccept, NestedError, SetError, Answer, AnswerFails, SetReaderType, AtEOF, Deliver, server, calls, ptrs, record, status, request, control, Typed, ServerOK
<1>4. PtrsOK'
  BY <1>1 DEF AppFinish, Reading, InAccept, NestedError, SetError, Answer, AnswerFails, SetReaderType, AtEOF, Deliver, server, calls, ptrs, record, status, request, control, Typed, PtrsOK
<1>5. RecordOK'
  BY <1>1 DEF AppFinish, Reading, InAccept, NestedError, SetError, Answer, AnswerFails, SetReaderType, AtEOF, Deliver, server, calls, ptrs, record, status, request, control, Typed, RecordOK
<1>6. StatusOK'
  BY <1>1 DEF AppFinish, Reading, InAccept, NestedError, SetError, Answer, AnswerFails, SetReaderType, AtEOF, Deliver, server, calls, ptrs, record, status, request, control, Typed, StatusOK, Errors, StreamTypes, Streams
<1>7. RequestOK'
  BY <1>1 DEF AppFinish, Reading, InAccept, NestedError, SetError, Answer, AnswerFails, SetReaderType, AtEOF, Deliver, server, calls, ptrs, record, status, request, control, Typed, RequestOK, Roles
<1>8. ControlOK'
  BY <1>1 DEF AppFinish, Reading, InAccept, NestedError, SetError, Answer, AnswerFails, SetReaderType, AtEOF, Deliver, server, calls, ptrs, record, status, request, control, Typed, ControlOK
<1>9. CallsOK'
  BY <1>1 DEF AppFinish, Reading, InAccept, NestedError, SetError, Answer, AnswerFails, SetReaderType, AtEOF, Deliver, server, calls, ptrs, record, status, request, control, Typed, CallsOK
<1>10. Control'
  <2>1. stopUnget' <= rdNext' /\ headerLen' <= rdNext' /\ (nested' # "none" => rdNext' >= 1)
    BY <1>1 DEF AppFinish, Reading, InAccept, NestedError, SetError, Answer, AnswerFails, SetReaderType, AtEOF, Deliver, server, calls, ptrs, record, status, request, control, Typed, RecordOK, Control
  <2>2. (eorStop' = (nested' # "none")) /\ (pc' \in {"idle", "closed"} => nested' = "none")
    BY DEF AppFinish, Reading, InAccept, NestedError, SetError, Answer, AnswerFails, SetReaderType, AtEOF, Deliver, server, calls, ptrs, record, status, request, control, Control
  <2>3. (pc' = "fill" => ~isClosed') /\ (nested' = "begin" => phase' = "begin") /\ (phase' # "begin" => isBeginProcessed')
    BY DEF AppFinish, Reading, InAccept, NestedError, SetError, Answer, AnswerFails, SetReaderType, AtEOF, Deliver, server, calls, ptrs, record, status, request, control, Control, InProgress
  <2>4. pc' = "use" /\ ~isClosed' => rdNext' <= stop' /\ ~skip'
    BY <1>1 DEF AppFinish, Reading, InAccept, NestedError, SetError, Answer, AnswerFails, SetReaderType, AtEOF, Deliver, server, calls, ptrs, record, status, request, control, Control
  <2>5. headerLen' > 0 => pc' = "fill" /\ contentLen' = 0 /\ paddingLen' = 0 /\ nested' = "none"
    BY <1>1 DEF AppFinish, Reading, InAccept, NestedError, SetError, Answer, AnswerFails, SetReaderType, AtEOF, Deliver, server, calls, ptrs, record, status, request, control, Control
  <2>6. (phase' = "begin" => type' = "NONE") /\ (phase' = "params" => type' = "PARAMS") /\ (phase' = "app" => type' \in {"STDIN", "DATA"})
    BY DEF AppFinish, Reading, InAccept, NestedError, SetError, Answer, AnswerFails, SetReaderType, AtEOF, Deliver, server, calls, ptrs, record, status, request, control, Control
  <2>7. Calm' => ~cleared' /\ ~wasFCloseCalled'
    BY DEF AppFinish, Reading, InAccept, NestedError, SetError, Answer, AnswerFails, SetReaderType, AtEOF, Deliver, server, calls, ptrs, record, status, request, control, Control, Calm
  <2>8. InProgress' /\ phase' = "begin" /\ isBeginProcessed' => pc' = "use" /\ nested' = "none" /\ ~isClosed'
    BY DEF AppFinish, Reading, InAccept, NestedError, SetError, Answer, AnswerFails, SetReaderType, AtEOF, Deliver, server, calls, ptrs, record, status, request, control, Control, InProgress
  <2>9. InProgress' /\ FCGI_errno' # "none" /\ phase' # "app" => pc' = "use" /\ isClosed'
    BY DEF AppFinish, Reading, InAccept, NestedError, SetError, Answer, AnswerFails, SetReaderType, AtEOF, Deliver, server, calls, ptrs, record, status, request, control, Control, InProgress
  <2> QED BY <2>1, <2>2, <2>3, <2>4, <2>5, <2>6, <2>7, <2>8, <2>9 DEF Control
<1> QED BY <1>3, <1>4, <1>5, <1>6, <1>7, <1>8, <1>9, <1>10 DEF Typed

LEMMA FinishedTypes ==
    ASSUME Typed, Control, Finished \/ UNCHANGED vars
    PROVE  Typed' /\ Control'
<1>1. UNCHANGED vars
  BY DEF Finished
<1> QED BY <1>1 DEF vars, server, calls, ptrs, record, status, request, control, Typed, ServerOK,
           PtrsOK, RecordOK, StatusOK, RequestOK, ControlOK, CallsOK, Control, InProgress

LEMMA InitTypes ==
    ASSUME Init
    PROVE  Typed /\ Control
<1>1. Bytes(script) \in Seq(Cell) /\ wire = Bytes(script) /\ script \in Scripts
  BY ScriptsAssumption, BytesShape DEF Init, Shape, CellsOf
<1>2. ServerOK
  <2>1. <<>> \in Seq(DOMAIN script) /\ 0 \in 0..Len(wire)
    BY <1>1
  <2> QED BY <1>1, <2>1 DEF Init, ServerOK
<1>3. 0 \in Nat /\ 0 \in 0..HeaderLen-1 /\ 0 \in 0..PairLen-1 /\ 0 \in 0..0
  BY SizesAssumption
<1>4. PtrsOK /\ StatusOK
  <2>1. sent = 0 /\ rdNext = 0 /\ stop = 0 /\ buffStop = 0 /\ stopUnget = 0
    BY DEF Init
  <2>2. isClosed = FALSE /\ FCGI_errno = "none" /\ type = "NONE"
    BY DEF Init
  <2>3. PtrsOK
    BY <1>3, <2>1 DEF PtrsOK
  <2>4. StatusOK
    BY <2>2 DEF StatusOK, Errors, StreamTypes
  <2> QED BY <2>3, <2>4
<1>5. RecordOK /\ RequestOK /\ ControlOK
  <2>1. contentLen = 0 /\ paddingLen = 0 /\ headerLen = 0 /\ skip = FALSE /\ eorStop = FALSE
    BY DEF Init
  <2>2. requestId = 0 /\ isBeginProcessed = FALSE /\ role = "UNKNOWN" /\ keepConnection = FALSE /\ begun = 0
    BY DEF Init
  <2>3. pc = "idle" /\ phase = "begin" /\ nested = "none" /\ taken = 0 /\ pairPos = 0
    BY DEF Init
  <2> QED BY <1>3, <2>1, <2>2, <2>3 DEF RecordOK, RequestOK, ControlOK, Roles
<1>6. CallsOK
  <2>1. <<>> \in Seq(Nat \X Nat)
    OBVIOUS
  <2> QED BY <2>1 DEF Init, CallsOK
<1>7. Control
  <2>1. pc = "idle" /\ phase = "begin" /\ nested = "none" /\ rdNext = 0 /\ stopUnget = 0 /\ headerLen = 0
    BY DEF Init
  <2>2. eorStop = FALSE /\ isClosed = FALSE /\ type = "NONE" /\ cleared = FALSE /\ wasFCloseCalled = FALSE
    BY DEF Init
  <2>3. eorStop = (nested # "none")
    <3>1. (nested # "none") = FALSE
      BY <2>1
    <3> QED BY <2>2, <3>1
  <2>4. ~InProgress
    BY <2>1 DEF InProgress
  <2> QED BY <2>1, <2>2, <2>3, <2>4 DEF Control
<1> QED BY <1>2, <1>3, <1>4, <1>5, <1>6, <1>7 DEF Typed

LEMMA StepTypes ==
    ASSUME Typed, Control, [Next]_vars
    PROVE  Typed' /\ Control'
<1>1. CASE Server
  BY <1>1, ServerSendTypes, ServerCloseTypes DEF Server
<1>2. CASE FillBuffProc
  BY <1>2, OSReadTypes, OSReadFailsTypes, DeliverContentTypes, SkipContentTypes, SkipPaddingTypes, DeliverEndOfRecordTypes, GatherHeaderTypes DEF FillBuffProc
<1>3. CASE ProcessHeader
  BY <1>3, UnsupportedVersionTypes, RefuseBeginTypes, RefuseMultiplexingTypes, BeginRequestTypes, GetValuesTypes, UnknownManagementTypes, ForeignRecordTypes, UnexpectedTypeTypes, StreamRecordTypes, EndOfStreamTypes DEF ProcessHeader
<1>4. CASE NestedRead
  BY <1>4, BeginBodyPartTypes, BeginBodyDoneTypes, BeginBodyCutTypes, ValuesPartTypes, ValuesDoneTypes, ValuesCutTypes DEF NestedRead
<1>5. CASE Accept
  BY <1>5, BeginDoneTypes, GiveUpTypes, ParamsPartTypes, ParamsDoneTypes DEF Accept
<1>6. CASE App
  BY <1>6, AcceptRequestTypes, AppGetTypes, AppFillTypes, AppUnGetTypes, AppStartFilterDataTypes, AppFCloseTypes, AppClearErrorTypes, AppFinishTypes DEF App
<1>7. CASE Finished \/ UNCHANGED vars
  BY <1>7, FinishedTypes
<1> QED BY <1>1, <1>2, <1>3, <1>4, <1>5, <1>6, <1>7 DEF Next, Library

LEMMA TypedInductive == Spec => [](Typed /\ Control)
<1>1. Init => Typed /\ Control
  BY InitTypes
<1>2. Typed /\ Control /\ [Next]_vars => (Typed /\ Control)'
  BY StepTypes
<1> QED BY <1>1, <1>2, PTL DEF Spec

\* Whatever the server sends, however it is split over reads and whatever fails,
\* the pointers of the stream stay in order within what was received, and control
\* is where FillBuffProc, FCGX_Accept_r and the application can be (TypeOK).
THEOREM ReaderTypes == Spec => []TypeOK
<1>1. Typed => TypeOK
  BY TypeOKParts DEF Typed
<1> QED BY <1>1, TypedInductive, PTL

-----------------------------------------------------------------------------
(* Places in a conversation.                                               *)

\* The records come in their order.
LEMMA CellsInOrder ==
    ASSUME NEW s \in Seq(Record), NEW w, Shape(s, w), NEW p \in 1..Len(w), NEW q \in 1..Len(w), p <= q
    PROVE  w[p][1] <= w[q][1]
<1> DEFINE Wrong == {d \in Nat : p + d <= Len(w) /\ ~(w[p][1] <= w[p + d][1])}
<1>1. w \in Seq(Cell) /\ Len(w) \in Nat /\ \A m \in 1..Len(w) : w[m][1] \in Nat /\ w[m][2] \in Nat
                                          /\ w[m][1] \in 1..Len(s) /\ w[m][2] <= Size(s[w[m][1]])
                                          /\ w[m][2] >= 1 /\ Size(s[w[m][1]]) \in Nat
  BY SizePositive DEF Shape, CellsOf
<1>2. Wrong = {}
  <2> SUFFICES ASSUME Wrong # {} PROVE FALSE
    OBVIOUS
  <2>1. PICK d \in Wrong : \A k \in Wrong : d <= k
    <3>1. Wrong \subseteq Nat
      OBVIOUS
    <3> HIDE DEF Wrong
    <3> QED BY <3>1, LeastNatural
  <2>2. d \in Nat /\ p + d <= Len(w) /\ ~(w[p][1] <= w[p + d][1]) /\ d # 0
    <3>1. d \in Nat /\ p + d <= Len(w) /\ ~(w[p][1] <= w[p + d][1])
      BY ONLY <2>1
    <3>2. w[p][1] \in Nat /\ Len(w) \in Nat
      BY ONLY <1>1, p \in 1..Len(w)
    <3>3. p + 0 = p
      BY ONLY <3>2, p \in 1..Len(w)
    <3> QED BY ONLY <3>1, <3>2, <3>3
  <2>3. d - 1 \in Nat /\ d - 1 \notin Wrong
    <3>1. d - 1 \in Nat /\ ~(d <= d - 1)
      BY <2>2
    <3> QED BY <2>1, <3>1
  <2>4. p + (d - 1) \in 1..Len(w) /\ w[p][1] <= w[p + (d - 1)][1]
    BY <1>1, <2>2, <2>3
  <2> DEFINE m == p + (d - 1)
  <2>5. m \in 1..Len(w) /\ m + 1 = p + d /\ m < Len(w) /\ m + 1 \in 1..Len(w) /\ w[p][1] <= w[m][1]
    BY <1>1, <2>2, <2>4
  <2> HIDE DEF m
  <2>6. CASE w[m][2] = Size(s[w[m][1]])
    <3>1. w[m + 1] = <<w[m][1] + 1, 1>>
      BY <2>5, <2>6 DEF Shape, Follows
    <3>2. w[p + d][1] = w[m][1] + 1
      BY <2>5, <3>1
    <3>3. w[p][1] \in Nat /\ w[m][1] \in Nat
      BY <1>1, <2>5
    <3> QED BY ONLY <2>2, <2>5, <3>2, <3>3
  <2>7. CASE w[m][2] # Size(s[w[m][1]])
    <3>0. w[m][2] \in Nat /\ w[m][2] <= Size(s[w[m][1]]) /\ Size(s[w[m][1]]) \in Nat
      BY <1>1, <2>5
    <3>1. 1 <= w[m][2] + 1 /\ w[m][2] + 1 <= Size(s[w[m][1]])
      BY ONLY <2>7, <3>0
    <3>2. w[m + 1] = <<w[m][1], w[m][2] + 1>>
      BY <2>5, <3>1 DEF Shape, Runs
    <3>3. w[p + d][1] = w[m][1]
      BY <2>5, <3>2
    <3> QED BY <1>1, <2>2, <2>5, <3>3
  <2> QED BY <2>6, <2>7
<1>3. q - p \in Nat /\ p + (q - p) = q /\ p + (q - p) <= Len(w)
  BY <1>1
<1>4. q - p \notin Wrong
  BY <1>2
<1> QED BY <1>3, <1>4

\* Bytes of the same record.
LEMMA SameRecord ==
    ASSUME NEW s \in Seq(Record), NEW w, Shape(s, w), NEW p \in 1..Len(w), NEW n \in Nat,
           w[p][2] + n <= Size(s[w[p][1]])
    PROVE  /\ p + n \in 1..Len(w)
           /\ \A q \in p..p + n : q \in 1..Len(w) /\ w[q] = <<w[p][1], w[p][2] + (q - p)>>
<1>1. Len(w) \in Nat /\ w[p][2] \in Nat /\ w[p][2] >= 1 /\ Size(s[w[p][1]]) \in Nat
  BY SizePositive DEF Shape, CellsOf
<1>2. \A m \in 0..n : p + m \in 1..Len(w) /\ w[p + m] = <<w[p][1], w[p][2] + m>>
  <2> SUFFICES ASSUME NEW m \in 0..n PROVE p + m \in 1..Len(w) /\ w[p + m] = <<w[p][1], w[p][2] + m>>
    OBVIOUS
  <2>1. m \in Int /\ 1 <= w[p][2] + m /\ w[p][2] + m <= Size(s[w[p][1]])
    BY <1>1
  <2> QED BY <2>1 DEF Shape, Runs
<1>3. ASSUME NEW q \in p..p + n
      PROVE  q \in 1..Len(w) /\ w[q] = <<w[p][1], w[p][2] + (q - p)>>
  <2>1. q - p \in 0..n /\ p + (q - p) = q
    OBVIOUS
  <2> HIDE DEF Shape
  <2>2. p + (q - p) \in 1..Len(w) /\ w[p + (q - p)] = <<w[p][1], w[p][2] + (q - p)>>
    BY <1>2, <2>1
  <2> QED BY <2>1, <2>2
<1> QED BY <1>2, <1>3

\* The record that follows offset p, which is the end of a record.
LEMMA NextRecord ==
    ASSUME NEW s \in Seq(Record), NEW w, Shape(s, w), NEW p \in Nat, p < Len(w),
           FramedIn(s, w, p, 0, 0), NEW i, i = IF p = 0 THEN 1 ELSE w[p][1] + 1
    PROVE  RecordAhead(s, w, p, i)
<1>1. Len(w) \in Nat /\ p + 1 \in 1..Len(w)
  BY DEF Shape, CellsOf
<1>2. w[p + 1] = <<i, 1>>
  <2>1. CASE p = 0
    BY <1>1, <2>1 DEF Shape, Follows
  <2>2. CASE p # 0
    <3>1. p \in 1..Len(w) /\ w[p][1] \in 1..Len(s) /\ w[p][2] \in Nat
      BY <1>1, <2>2 DEF Shape, CellsOf
    <3>2. s[w[p][1]] \in Record
      BY <3>1
    <3>3. w[p][2] = Size(s[w[p][1]])
      <4> DEFINE r == s[w[p][1]]
      <4>1. r.len \in Nat /\ r.pad \in Nat /\ HeaderLen \in Nat /\ Size(r) = HeaderLen + r.len + r.pad
        BY <3>2, SizesAssumption DEF Size, Record
      <4>2. IF w[p][2] <= HeaderLen + r.len THEN 0 = HeaderLen + r.len - w[p][2] /\ 0 = r.pad
            ELSE 0 = Size(r) - w[p][2]
        BY <2>2 DEF FramedIn
      <4> DEFINE k == w[p][2]
      <4>3. k \in Nat
        BY <3>1
      <4> HIDE DEF r, k
      <4>4. k = Size(r)
        <5>1. IF k <= HeaderLen + r.len THEN 0 = HeaderLen + r.len - k /\ 0 = r.pad ELSE 0 = Size(r) - k
          BY <4>2 DEF k
        <5> QED BY ONLY <4>1, <4>3, <5>1
      <4> QED BY <4>4 DEF r, k
    <3> QED BY <2>2, <3>1, <3>3 DEF Shape, Follows
  <2> QED BY <2>1, <2>2
<1>3. i \in 1..Len(s) /\ s[i] \in Record
  BY <1>1, <1>2 DEF Shape, CellsOf
<1>4. Size(s[i]) \in Nat /\ Size(s[i]) > 0
  BY <1>3, SizePositive
<1> DEFINE z == Size(s[i])
<1>5. w[p + 1][1] = i /\ w[p + 1][2] = 1 /\ z - 1 \in Nat /\ 1 + (z - 1) = z
  BY <1>2, <1>4
<1>6. /\ (p + 1) + (z - 1) \in 1..Len(w)
      /\ \A q \in p+1..(p + 1) + (z - 1) : q \in 1..Len(w) /\ w[q] = <<i, 1 + (q - (p + 1))>>
  <2>1. ASSUME NEW m \in 0..z-1
        PROVE  (p + 1) + m \in 1..Len(w) /\ w[(p + 1) + m] = <<i, 1 + m>>
    <3>1. m \in Int /\ 1 <= w[p + 1][2] + m /\ w[p + 1][2] + m <= Size(s[w[p + 1][1]])
      BY <1>4, <1>5
    <3> QED BY <1>1, <1>5, <3>1 DEF Shape, Runs
  <2>2. ASSUME NEW q \in p+1..(p + 1) + (z - 1)
        PROVE  q \in 1..Len(w) /\ w[q] = <<i, 1 + (q - (p + 1))>>
    <3> DEFINE m == q - (p + 1)
    <3>1. m \in 0..z-1 /\ (p + 1) + m = q
      BY <1>5
    <3> HIDE DEF m, z
    <3>2. q \in 1..Len(w) /\ w[q] = <<i, 1 + m>>
      BY ONLY <2>1, <3>1
    <3> QED BY <3>2 DEF m
  <2>3. z - 1 \in 0..z-1
    BY <1>5
  <2> QED BY <2>1, <2>2, <2>3
<1>7. (p + 1) + (z - 1) = p + z
  BY <1>4
<1>8. \A q \in p+1..p+z : q \in 1..Len(w) /\ w[q] = <<i, q - p>>
  <2> SUFFICES ASSUME NEW q \in p+1..p+z PROVE q \in 1..Len(w) /\ w[q] = <<i, q - p>>
    OBVIOUS
  <2>1. 1 + (q - (p + 1)) = q - p
    BY <1>4
  <2>2. q \in 1..Len(w) /\ w[q] = <<i, 1 + (q - (p + 1))>>
    BY <1>6, <1>7
  <2> QED BY <2>1, <2>2
<1>9. p + z <= Len(w)
  BY <1>6, <1>7
<1> QED BY <1>3, <1>4, <1>8, <1>9 DEF RecordAhead

\* Content that is gone past leaves the rest of it.
LEMMA FramedContent ==
    ASSUME NEW s \in Seq(Record), NEW w, Shape(s, w), NEW p \in 0..Len(w), NEW c \in Nat, NEW d \in Nat,
           FramedIn(s, w, p, c, d), c > 0, NEW n \in 0..c, p + n <= Len(w)
    PROVE  /\ p > 0 /\ p + n > 0 /\ FramedIn(s, w, p + n, c - n, d)
           /\ w[p + n][1] = w[p][1]
           /\ w[p + n][2] = w[p][2] + n
           /\ \A q \in p+1..p+n : q \in 1..Len(w) /\ w[q][1] = w[p][1] /\ w[q][2] = w[p][2] + (q - p)
                                  /\ w[q][2] > HeaderLen /\ w[q][2] <= HeaderLen + s[w[p][1]].len
<1> DEFINE i == w[p][1]
           k == w[p][2]
           r == s[w[p][1]]
           l == s[w[p][1]].len
           g == s[w[p][1]].pad
           z == Size(s[w[p][1]])
<1>1. Len(w) \in Nat /\ p > 0 /\ p \in 1..Len(w)
  BY DEF FramedIn, Shape, CellsOf
<1>2. i \in 1..Len(s) /\ r \in Record /\ k \in Nat
  BY <1>1 DEF Shape, CellsOf
<1>3. HeaderLen \in Nat /\ l \in Nat /\ g \in Nat /\ z = HeaderLen + l + g
  BY <1>2, SizesAssumption DEF Size, Record
<1>4. k >= HeaderLen /\ IF k <= HeaderLen + l THEN c = HeaderLen + l - k /\ d = g ELSE c = 0 /\ d = z - k
  BY <1>1 DEF FramedIn
<1>0. k \in Nat /\ c \in Nat /\ n \in Nat /\ n <= c /\ c > 0 /\ p \in Nat
  BY <1>1, <1>2
<1> HIDE DEF i, k, r, l, g, z
<1>5. k >= HeaderLen /\ k <= HeaderLen + l /\ c = HeaderLen + l - k /\ d = g
  BY ONLY <1>0, <1>4
<1>6. k + n <= z /\ k + n <= HeaderLen + l /\ n \in Nat
  BY ONLY <1>0, <1>3, <1>5
<1>7. p + n \in 1..Len(w) /\ \A q \in p..p + n : q \in 1..Len(w) /\ w[q] = <<i, k + (q - p)>>
  BY <1>1, <1>6, SameRecord DEF i, k, z
<1>8. p + n \in p..p + n /\ (p + n) - p = n
  BY ONLY <1>0
<1>9. w[p + n] = <<i, k + n>>
  BY ONLY <1>7, <1>8
<1>10. FramedIn(s, w, p + n, c - n, d)
  <2>1. k + n >= HeaderLen /\ k + n <= HeaderLen + l /\ c - n = HeaderLen + l - (k + n) /\ d = g
    BY ONLY <1>0, <1>3, <1>5, <1>6
  <2>2. w[p + n][1] = i /\ w[p + n][2] = k + n /\ p + n # 0
    BY <1>7, <1>9
  <2>3. s[i].pad = g /\ s[i].len = l
    BY DEF i, l, g
  <2> QED BY <2>1, <2>2, <2>3 DEF FramedIn
<1>11. ASSUME NEW q \in p+1..p+n
       PROVE  q \in 1..Len(w) /\ w[q][1] = i /\ w[q][2] = k + (q - p)
                                  /\ w[q][2] > HeaderLen /\ w[q][2] <= HeaderLen + l
  <2> DEFINE j == q - p
  <2>1. q \in p..p + n /\ j \in Nat /\ j >= 1 /\ j <= n
    BY ONLY <1>0, q \in p+1..p+n
  <2>2. w[q] = <<i, k + j>> /\ q \in 1..Len(w)
    BY <1>7, <2>1
  <2> HIDE DEF j
  <2>3. k + j > HeaderLen /\ k + j <= HeaderLen + l
    BY ONLY <1>0, <1>3, <1>5, <1>6, <2>1
  <2> QED BY <2>2, <2>3 DEF j
<1>12. p + n > 0 /\ w[p + n][1] = i /\ w[p + n][2] = k + n
  BY <1>7, <1>9
<1> QED BY <1>1, <1>10, <1>11, <1>12 DEF i, k, l

\* Padding likewise.
LEMMA FramedPadding ==
    ASSUME NEW s \in Seq(Record), NEW w, Shape(s, w), NEW p \in 0..Len(w), NEW d \in Nat,
           FramedIn(s, w, p, 0, d), NEW n \in 0..d, p + n <= Len(w)
    PROVE  /\ FramedIn(s, w, p + n, 0, d - n)
           /\ p = 0 => n = 0
           /\ p > 0 => p + n > 0 /\ w[p + n][1] = w[p][1]
           /\ \A q \in p+1..p+n : q \in 1..Len(w) /\ w[q][2] > HeaderLen + s[w[q][1]].len
<1>0. Len(w) \in Nat
  BY DEF Shape, CellsOf
<1>1. CASE p = 0
  <2>1. d = 0 /\ n = 0 /\ p + n = 0 /\ d - n = 0
    BY <1>1 DEF FramedIn
  <2>2. p+1..p+n = {}
    BY <1>1, <2>1
  <2> QED BY <1>1, <2>1, <2>2
<1>2. CASE p > 0
  <2> DEFINE i == w[p][1]
             k == w[p][2]
             r == s[w[p][1]]
             l == s[w[p][1]].len
             g == s[w[p][1]].pad
             z == Size(s[w[p][1]])
  <2>1. p \in 1..Len(w)
    BY <1>0, <1>2
  <2>2. i \in 1..Len(s) /\ r \in Record /\ k \in Nat /\ k <= z
    BY <2>1 DEF Shape, CellsOf
  <2>3. HeaderLen \in Nat /\ l \in Nat /\ g \in Nat /\ z = HeaderLen + l + g
    BY <2>2, SizesAssumption DEF Size, Record
  <2>4. k >= HeaderLen /\ IF k <= HeaderLen + l THEN 0 = HeaderLen + l - k /\ d = g ELSE d = z - k
    BY <1>2 DEF FramedIn
  <2>0. k \in Nat /\ d \in Nat /\ n \in Nat /\ n <= d /\ k <= z /\ p \in Nat
    BY <2>1, <2>2
  <2> HIDE DEF i, k, r, l, g, z
  <2>5. k >= HeaderLen + l /\ d = z - k
    BY ONLY <2>0, <2>3, <2>4
  <2>6. k + n <= z /\ n \in Nat
    BY ONLY <2>0, <2>3, <2>5
  <2>7. p + n \in 1..Len(w) /\ \A q \in p..p + n : q \in 1..Len(w) /\ w[q] = <<i, k + (q - p)>>
    BY <2>1, <2>6, SameRecord DEF i, k, z
  <2>8. p + n \in p..p + n /\ (p + n) - p = n
    BY ONLY <2>0
  <2>9. w[p + n] = <<i, k + n>>
    BY ONLY <2>7, <2>8
  <2>10. FramedIn(s, w, p + n, 0, d - n)
    <3>1. w[p + n][1] = i /\ w[p + n][2] = k + n /\ p + n # 0
      BY <2>7, <2>9
    <3>2. k + n >= HeaderLen /\ d - n = z - (k + n)
      BY ONLY <2>0, <2>3, <2>5
    <3>3. k + n <= HeaderLen + l => 0 = HeaderLen + l - (k + n) /\ d - n = g
      BY ONLY <2>0, <2>3, <2>5
    <3>4. s[i].pad = g /\ s[i].len = l /\ Size(s[i]) = z
      BY DEF i, l, g, z
    <3> QED BY <3>1, <3>2, <3>3, <3>4 DEF FramedIn
  <2>11. ASSUME NEW q \in p+1..p+n
         PROVE  q \in 1..Len(w) /\ w[q][2] > HeaderLen + s[w[q][1]].len
    <3> DEFINE j == q - p
    <3>1. q \in p..p + n /\ j >= 1 /\ j \in Nat
      BY ONLY <2>0, q \in p+1..p+n
    <3>2. w[q] = <<i, k + j>> /\ q \in 1..Len(w)
      BY <2>7, <3>1
    <3> HIDE DEF j
    <3>3. k + j > HeaderLen + l
      BY ONLY <2>0, <2>3, <2>5, <3>1
    <3> QED BY <3>2, <3>3 DEF l, i
  <2>12. p + n > 0 /\ w[p + n][1] = i
    BY <2>7, <2>9
  <2> QED BY <1>2, <2>10, <2>11, <2>12 DEF i
<1> QED BY <1>1, <1>2

\* The header that follows.
LEMMA FramedHeader ==
    ASSUME NEW s \in Seq(Record), NEW w, Shape(s, w), NEW p \in Nat, FramedIn(s, w, p, 0, 0),
           NEW n \in 0..HeaderLen, p + n <= Len(w), n > 0,
           NEW i, i = IF p = 0 THEN 1 ELSE w[p][1] + 1
    PROVE  HeaderAhead(s, w, p, n, i)
<1>1. Len(w) \in Nat /\ HeaderLen \in Nat /\ p < Len(w)
  BY SizesAssumption DEF Shape, CellsOf
<1>2. /\ i \in 1..Len(s) /\ p + Size(s[i]) <= Len(w)
      /\ \A q \in p+1..p+Size(s[i]) : q \in 1..Len(w) /\ w[q] = <<i, q - p>>
  <2>1. RecordAhead(s, w, p, i)
    BY ONLY s \in Seq(Record), Shape(s, w), p \in Nat, <1>1, FramedIn(s, w, p, 0, 0),
            i = IF p = 0 THEN 1 ELSE w[p][1] + 1, NextRecord
  <2> QED BY ONLY <2>1 DEF RecordAhead
<1>3. s[i].len \in Nat /\ s[i].pad \in Nat /\ Size(s[i]) = HeaderLen + s[i].len + s[i].pad
  <2>1. s[i] \in Record
    BY <1>2
  <2> QED BY <2>1 DEF Record, Size
<1>4. n <= Size(s[i]) /\ Size(s[i]) \in Nat
  <2>1. n \in Nat /\ n <= HeaderLen
    BY <1>1
  <2>2. HeaderLen <= Size(s[i]) /\ Size(s[i]) \in Nat
    BY <1>2, SizePositive
  <2> QED BY <1>1, <2>1, <2>2
<1>5. p+1..p+n \subseteq p+1..p+Size(s[i]) /\ p + n \in p+1..p+n /\ (p + n) - p = n
  <2>1. n \in Nat
    OBVIOUS
  <2> QED BY <1>1, <1>4, <2>1
<1>6. w[p + n] = <<i, n>> /\ p + n \in 1..Len(w)
  BY <1>2, <1>5
<1>7. n = HeaderLen => FramedIn(s, w, p + n, s[i].len, s[i].pad)
  <2> SUFFICES ASSUME n = HeaderLen PROVE FramedIn(s, w, p + n, s[i].len, s[i].pad)
    OBVIOUS
  <2>1. w[p + n][1] = i /\ w[p + n][2] = HeaderLen /\ p + n # 0
    BY <1>6
  <2>2. HeaderLen <= HeaderLen + s[i].len /\ s[i].len = HeaderLen + s[i].len - HeaderLen
    BY <1>1, <1>3
  <2> QED BY <1>1, <2>1, <2>2 DEF FramedIn
<1>8. n = HeaderLen /\ s[i].len > 0 => p + n + 1 \in 1..Len(w) /\ w[p + n + 1] = <<i, HeaderLen + 1>>
  <2> SUFFICES ASSUME n = HeaderLen, s[i].len > 0
               PROVE  p + n + 1 \in 1..Len(w) /\ w[p + n + 1] = <<i, HeaderLen + 1>>
    OBVIOUS
  <2>1. p + n + 1 \in p+1..p+Size(s[i]) /\ (p + n + 1) - p = HeaderLen + 1
    BY ONLY <1>1, <1>3, p \in Nat, n = HeaderLen, s[i].len > 0
  <2> QED BY <1>2, <2>1
<1>9. \A q \in p+1..p+n : q \in 1..Len(w) /\ w[q] = <<i, q - p>>
  BY <1>2, <1>5
<1> QED BY <1>2, <1>6, <1>7, <1>8, <1>9 DEF HeaderAhead

\* Without content and padding to come, the reader is framed or stray, never both.
LEMMA FramedOrStray ==
    ASSUME NEW s \in Seq(Record), NEW w, Shape(s, w), NEW p \in 0..Len(w)
    PROVE  /\ FramedIn(s, w, p, 0, 0) \/ StrayIn(s, w, p, 0, 0)
           /\ \A c, d : ~(FramedIn(s, w, p, c, d) /\ StrayIn(s, w, p, c, d))
<1>0. Len(w) \in Nat
  BY DEF Shape, CellsOf
<1>1. CASE p = 0
  BY <1>1 DEF FramedIn, StrayIn
<1>2. CASE p > 0
  <2> DEFINE k == w[p][2]
             r == s[w[p][1]]
  <2>1. p \in 1..Len(w)
    BY <1>0, <1>2
  <2>2. r \in Record /\ k \in Nat /\ k <= Size(r)
    BY <2>1 DEF Shape, CellsOf
  <2>3. r.len \in Nat /\ r.pad \in Nat /\ HeaderLen \in Nat /\ Size(r) = HeaderLen + r.len + r.pad
    BY <2>2, SizesAssumption DEF Size, Record
  <2>4. \A c, d : FramedIn(s, w, p, c, d) <=>
           /\ k >= HeaderLen
           /\ IF k <= HeaderLen + r.len THEN c = HeaderLen + r.len - k /\ d = r.pad
              ELSE c = 0 /\ d = Size(r) - k
    BY <1>2 DEF FramedIn
  <2>5. \A c, d : StrayIn(s, w, p, c, d) <=> c = 0 /\ d = 0 /\ k < Size(r)
    BY <1>2 DEF StrayIn
  <2> HIDE DEF k, r
  <2>6. FramedIn(s, w, p, 0, 0) \/ StrayIn(s, w, p, 0, 0)
    BY <2>2, <2>3, <2>4, <2>5
  <2>7. ASSUME NEW c, NEW d, FramedIn(s, w, p, c, d), StrayIn(s, w, p, c, d) PROVE FALSE
    <3>1. c = 0 /\ d = 0 /\ k < Size(r)
      BY <2>5, <2>7
    <3>2. /\ k >= HeaderLen
          /\ IF k <= HeaderLen + r.len THEN 0 = HeaderLen + r.len - k /\ 0 = r.pad ELSE 0 = Size(r) - k
      BY <2>4, <2>7, <3>1
    <3> QED BY <2>2, <2>3, <3>1, <3>2
  <2> QED BY <2>6, <2>7
<1> QED BY <1>0, <1>1, <1>2

\* A stray reader meets no header that it would take for one.
LEMMA StrayUnaligned ==
    ASSUME NEW s \in Seq(Record), NEW w, Shape(s, w), NEW p \in Nat, StrayIn(s, w, p, 0, 0),
           p + HeaderLen <= Len(w)
    PROVE  w[p + HeaderLen][2] # HeaderLen
<1>1. Len(w) \in Nat /\ HeaderLen \in Nat /\ HeaderLen > 0
  BY SizesAssumption DEF Shape, CellsOf
<1>2. p \in 1..Len(w) /\ p + 1 \in 1..Len(w) /\ p + HeaderLen \in 1..Len(w)
  BY <1>1 DEF StrayIn
<1>3. w[p][2] \in Nat /\ w[p][2] >= 1 /\ w[p][2] < Size(s[w[p][1]])
  BY <1>2 DEF StrayIn, Shape, CellsOf
<1>4. s[w[p][1]] \in Record /\ s[w[p + HeaderLen][1]] \in Record
  BY <1>2 DEF Shape, CellsOf
<1>5. w[p + 1] = <<w[p][1], w[p][2] + 1>>
  <2>1. Size(s[w[p][1]]) \in Nat
    BY <1>4, SizePositive
  <2>2. 1 <= w[p][2] + 1 /\ w[p][2] + 1 <= Size(s[w[p][1]])
    BY <1>3, <2>1
  <2> QED BY <1>2, <2>2 DEF Shape, Runs
<1>6. SUFFICES ASSUME w[p + HeaderLen][2] = HeaderLen PROVE FALSE
  OBVIOUS
<1>7. w[(p + HeaderLen) + (1 - HeaderLen)] = <<w[p + HeaderLen][1], 1>>
  <2>1. /\ 1 - HeaderLen \in Int /\ HeaderLen + (1 - HeaderLen) = 1
        /\ Size(s[w[p + HeaderLen][1]]) \in Nat /\ Size(s[w[p + HeaderLen][1]]) > 0
    BY <1>1, <1>4, SizePositive
  <2>2. 1 <= w[p + HeaderLen][2] + (1 - HeaderLen)
        /\ w[p + HeaderLen][2] + (1 - HeaderLen) <= Size(s[w[p + HeaderLen][1]])
    BY <1>6, <2>1
  <2> DEFINE q == p + HeaderLen
  <2>3. q \in 1..Len(w) /\ q + (1 - HeaderLen) = p + 1
    BY <1>1, <1>2
  <2>4. q + (1 - HeaderLen) \in 1..Len(w) /\ w[q][2] = HeaderLen
    BY <1>2, <1>6, <2>3
  <2>5. w[q][2] + (1 - HeaderLen) = 1
    BY <2>1, <2>4
  <2> HIDE DEF q
  <2>6. w[q + (1 - HeaderLen)] = <<w[q][1], w[q][2] + (1 - HeaderLen)>>
    <3>1. 1 <= w[q][2] + (1 - HeaderLen) /\ w[q][2] + (1 - HeaderLen) <= Size(s[w[q][1]])
      BY <2>2 DEF q
    <3> QED BY ONLY Shape(s, w), <2>1, <2>3, <2>4, <3>1 DEF Shape, Runs
  <2> QED BY <2>5, <2>6 DEF q
<1>8. (p + HeaderLen) + (1 - HeaderLen) = p + 1
  BY <1>1
<1>9. w[p + 1][2] = 1 /\ w[p + 1][2] = w[p][2] + 1
  BY <1>5, <1>7, <1>8
<1> QED BY <1>3, <1>9

-----------------------------------------------------------------------------
LEMMA PlacesOK ==
    ASSUME Typed, Control
    PROVE  Places
<1>1. script \in Scripts /\ script \in Seq(Record) /\ Shape(script, wire)
  BY ScriptsAssumption, BytesShape DEF Typed, ServerOK
<1>2. /\ DOMAIN script = 1..Len(script) /\ Len(script) \in Nat
      /\ \A i \in 1..Len(script) : script[i] \in Record
      /\ wire \in Seq(Cell) /\ Len(wire) \in Nat
  BY <1>1 DEF Shape, CellsOf
<1>3. ASSUME NEW p \in 1..Len(wire)
      PROVE  wire[p] \in Cell /\ wire[p][1] \in 1..Len(script) /\ wire[p][2] \in Nat
  BY <1>1, <1>2 DEF Shape, CellsOf
<1>4. /\ HeaderLen \in Nat /\ HeaderLen > 0
      /\ sent \in Nat /\ sent <= Len(wire) /\ buffStop \in Nat /\ buffStop <= sent
      /\ rdNext \in Nat /\ rdNext <= buffStop /\ stop \in Nat /\ stop <= buffStop
      /\ stopUnget \in Nat /\ stopUnget <= rdNext
  BY <1>2, SizesAssumption DEF Typed, ServerOK, PtrsOK, Control
<1>5. /\ contentLen \in Nat /\ paddingLen \in Nat
      /\ headerLen \in Nat /\ headerLen < HeaderLen /\ headerLen <= rdNext
  BY <1>4 DEF Typed, RecordOK, Control
<1>6. pc \in {"idle", "fill", "use", "closed"} /\ (pc # "fill" => headerLen = 0)
  BY <1>5 DEF Typed, ControlOK, Control
<1>7. /\ pc = "fill" => Mark = rdNext - headerLen
      /\ pc = "use" => headerLen = 0 /\ Mark = IF isClosed THEN rdNext ELSE stop
      /\ pc # "use" => Mark = rdNext - headerLen
  BY <1>4, <1>6 DEF Mark, Position
<1>8. Mark \in 0..Len(wire)
  <2>1. CASE pc = "use"
    BY <1>2, <1>4, <1>7, <2>1
  <2>2. CASE pc # "use"
    BY <1>2, <1>4, <1>5, <1>7, <2>2
  <2> QED BY <2>1, <2>2
<1> QED BY <1>1, <1>2, <1>3, <1>4, <1>5, <1>7, <1>8 DEF Places

\* What an iteration of a framed reader goes past.
Advance ==
    /\ contentLen > 0 => headerLen = 0 /\ rdNext > 0 /\ Mark = rdNext /\ wire[rdNext][1] = Cur
    /\ \A q \in rdNext+1..AfterContent :
          q \in 1..Len(wire) /\ wire[q][1] = Cur /\ IsContent(wire[q])
    /\ contentLen > 0 => /\ AfterContent > 0 /\ wire[AfterContent][1] = Cur
                         /\ wire[AfterContent][2] = wire[rdNext][2] + ContentPart
    /\ headerLen = 0 => FramedIn(script, wire, AfterContent, contentLen - ContentPart, paddingLen)
    /\ contentLen = ContentPart =>
          /\ \A q \in AfterContent+1..AfterPadding : q \in 1..Len(wire) /\ ~IsContent(wire[q])
          /\ AfterPadding - headerLen \in Nat
          /\ FramedIn(script, wire, AfterPadding - headerLen, 0, paddingLen - PaddingPart)
          /\ Cur = IF AfterPadding - headerLen = 0 THEN 0 ELSE wire[AfterPadding - headerLen][1]
    /\ contentLen = ContentPart /\ paddingLen = PaddingPart =>
          /\ \A q \in AfterPadding+1..AfterHeader : q \in 1..Len(wire) /\ ~IsContent(wire[q])
          /\ headerLen + HeaderPart = HeaderLen =>
                /\ AfterHeader \in 1..Len(wire) /\ Cur + 1 \in 1..Len(script)
                /\ wire[AfterHeader] = <<Cur + 1, HeaderLen>>
                /\ FramedIn(script, wire, AfterHeader, script[Cur + 1].len, script[Cur + 1].pad)
                /\ script[Cur + 1].len > 0 =>
                      AfterHeader + 1 \in 1..Len(wire) /\ wire[AfterHeader + 1] = <<Cur + 1, HeaderLen + 1>>

LEMMA FramedAdvance ==
    ASSUME Typed, Control, Filling, Framed
    PROVE  Advance
<1>1. Places /\ Within
  BY PlacesOK, Iteration DEF Typed
<1>2. Mark = rdNext - headerLen /\ Mark \in 0..Len(wire) /\ Mark \in Nat /\ FramedIn(script, wire, Mark, contentLen, paddingLen)
  BY <1>1 DEF Places, Filling, Framed
<1>3. headerLen > 0 => contentLen = 0 /\ paddingLen = 0
  BY DEF Control
<1>4. contentLen > 0 => headerLen = 0 /\ Mark = rdNext
  BY <1>1, <1>2, <1>3 DEF Within
<1>5. contentLen = 0 => ContentPart = 0 /\ AfterContent = rdNext
  BY <1>1 DEF Within
\* Content.
<1>6. /\ contentLen > 0 => rdNext > 0 /\ wire[rdNext][1] = Cur
      /\ \A q \in rdNext+1..AfterContent : q \in 1..Len(wire) /\ wire[q][1] = Cur /\ IsContent(wire[q])
      /\ contentLen > 0 => /\ AfterContent > 0 /\ wire[AfterContent][1] = Cur
                           /\ wire[AfterContent][2] = wire[rdNext][2] + ContentPart
      /\ headerLen = 0 => FramedIn(script, wire, AfterContent, contentLen - ContentPart, paddingLen)
  <2>1. CASE contentLen > 0
    <3>1. /\ rdNext \in 0..Len(wire) /\ ContentPart \in 0..contentLen /\ rdNext + ContentPart <= Len(wire)
          /\ AfterContent = rdNext + ContentPart /\ FramedIn(script, wire, rdNext, contentLen, paddingLen)
      BY <1>1, <1>2, <1>4, <2>1 DEF Within
    <3>2. /\ rdNext > 0 /\ rdNext + ContentPart > 0
          /\ FramedIn(script, wire, rdNext + ContentPart, contentLen - ContentPart, paddingLen)
          /\ wire[rdNext + ContentPart][1] = wire[rdNext][1]
          /\ wire[rdNext + ContentPart][2] = wire[rdNext][2] + ContentPart
          /\ \A q \in rdNext+1..rdNext + ContentPart :
                q \in 1..Len(wire) /\ wire[q][1] = wire[rdNext][1]
                /\ wire[q][2] > HeaderLen /\ wire[q][2] <= HeaderLen + script[wire[rdNext][1]].len
      <4>1. script \in Seq(Record) /\ Shape(script, wire) /\ contentLen \in Nat /\ paddingLen \in Nat
        BY <1>1 DEF Places
      <4> HIDE DEF Shape
      <4>2. /\ rdNext > 0 /\ rdNext + ContentPart > 0
            /\ FramedIn(script, wire, rdNext + ContentPart, contentLen - ContentPart, paddingLen)
            /\ wire[rdNext + ContentPart][1] = wire[rdNext][1]
            /\ wire[rdNext + ContentPart][2] = wire[rdNext][2] + ContentPart
        BY ONLY <2>1, <3>1, <4>1, FramedContent
      <4>3. \A q \in rdNext+1..rdNext + ContentPart :
                q \in 1..Len(wire) /\ wire[q][1] = wire[rdNext][1] /\ wire[q][2] = wire[rdNext][2] + (q - rdNext)
                /\ wire[q][2] > HeaderLen /\ wire[q][2] <= HeaderLen + script[wire[rdNext][1]].len
        BY ONLY <2>1, <3>1, <4>1, FramedContent
      <4> QED BY <4>2, <4>3
    <3>3. wire[rdNext][1] = Cur
      BY <1>4, <2>1, <3>2 DEF Cur
    <3> QED BY <3>1, <3>2, <3>3 DEF IsContent
  <2>2. CASE contentLen = 0
    <3>1. rdNext+1..AfterContent = {}
      BY <1>1, <1>5, <2>2 DEF Within
    <3>2. headerLen = 0 => Mark = rdNext
      BY <1>1, <1>2 DEF Within
    <3>3. contentLen - ContentPart = contentLen
      BY <1>5, <2>2
    <3> QED BY <1>2, <1>5, <2>2, <3>1, <3>2, <3>3
  <2> QED BY <1>1, <2>1, <2>2 DEF Within
\* Padding.
<1>7. ASSUME contentLen = ContentPart
      PROVE  /\ \A q \in AfterContent+1..AfterPadding : q \in 1..Len(wire) /\ ~IsContent(wire[q])
             /\ AfterPadding - headerLen \in Nat
             /\ FramedIn(script, wire, AfterPadding - headerLen, 0, paddingLen - PaddingPart)
             /\ Cur = IF AfterPadding - headerLen = 0 THEN 0 ELSE wire[AfterPadding - headerLen][1]
  <2>1. CASE headerLen = 0
    <3>1. /\ AfterContent \in 0..Len(wire) /\ PaddingPart \in 0..paddingLen /\ AfterContent + PaddingPart <= Len(wire)
          /\ AfterPadding = AfterContent + PaddingPart /\ AfterPadding - headerLen = AfterPadding
          /\ contentLen - ContentPart = 0 /\ AfterContent \in Nat /\ AfterPadding \in Nat /\ paddingLen \in Nat
      BY <1>1, <1>7, <2>1 DEF Within
    <3>2. FramedIn(script, wire, AfterContent, 0, paddingLen)
      BY <1>6, <2>1, <3>1
    <3>3. /\ FramedIn(script, wire, AfterContent + PaddingPart, 0, paddingLen - PaddingPart)
          /\ AfterContent = 0 => PaddingPart = 0
          /\ AfterContent > 0 => AfterContent + PaddingPart > 0
                                 /\ wire[AfterContent + PaddingPart][1] = wire[AfterContent][1]
          /\ \A q \in AfterContent+1..AfterContent + PaddingPart :
                q \in 1..Len(wire) /\ wire[q][2] > HeaderLen + script[wire[q][1]].len
      <4>1. script \in Seq(Record) /\ Shape(script, wire)
        BY <1>1 DEF Places
      <4> QED BY ONLY <3>1, <3>2, <4>1, FramedPadding
    <3>4. \A q \in AfterContent+1..AfterPadding : ~IsContent(wire[q])
      <4> SUFFICES ASSUME NEW q \in AfterContent+1..AfterPadding PROVE ~IsContent(wire[q])
        OBVIOUS
      <4>1. q \in 1..Len(wire) /\ wire[q][2] > HeaderLen + script[wire[q][1]].len
        BY <3>1, <3>3
      <4>2. wire[q][2] \in Nat /\ script[wire[q][1]] \in Record
        BY <1>1, <4>1 DEF Places
      <4>3. script[wire[q][1]].len \in Nat /\ HeaderLen \in Nat
        BY <1>1, <4>2 DEF Record, Places
      <4> QED BY <4>1, <4>2, <4>3 DEF IsContent
    <3>5. Cur = IF AfterContent = 0 THEN 0 ELSE wire[AfterContent][1]
      <4>1. CASE contentLen > 0
        BY <1>6, <3>1, <4>1
      <4>2. CASE contentLen = 0
        BY <1>2, <1>5, <2>1, <3>1, <4>2 DEF Cur
      <4> QED BY <1>1, <4>1, <4>2 DEF Within
    <3>6. Cur = IF AfterPadding = 0 THEN 0 ELSE wire[AfterPadding][1]
      <4>1. CASE AfterContent = 0
        BY <3>1, <3>3, <3>5, <4>1
      <4>2. CASE AfterContent > 0
        BY <3>1, <3>3, <3>5, <4>2
      <4> QED BY <3>1, <4>1, <4>2
    <3> QED BY <3>1, <3>3, <3>4, <3>6
  <2>2. CASE headerLen > 0
    <3>1. contentLen = 0 /\ paddingLen = 0 /\ PaddingPart = 0 /\ AfterPadding = rdNext /\ AfterContent = rdNext
      BY <1>1, <1>3, <1>5, <2>2 DEF Within
    <3>2. AfterPadding - headerLen = Mark /\ AfterContent+1..AfterPadding = {} /\ paddingLen - PaddingPart = 0
      BY <1>1, <1>2, <3>1 DEF Within
    <3> QED BY <1>2, <3>1, <3>2 DEF Cur
  <2> QED BY <1>1, <2>1, <2>2 DEF Within
\* A header.
<1>8. ASSUME contentLen = ContentPart, paddingLen = PaddingPart
      PROVE  /\ \A q \in AfterPadding+1..AfterHeader : q \in 1..Len(wire) /\ ~IsContent(wire[q])
             /\ headerLen + HeaderPart = HeaderLen =>
                /\ AfterHeader \in 1..Len(wire) /\ Cur + 1 \in 1..Len(script)
                /\ wire[AfterHeader] = <<Cur + 1, HeaderLen>>
                /\ FramedIn(script, wire, AfterHeader, script[Cur + 1].len, script[Cur + 1].pad)
                /\ script[Cur + 1].len > 0 =>
                      AfterHeader + 1 \in 1..Len(wire) /\ wire[AfterHeader + 1] = <<Cur + 1, HeaderLen + 1>>
  <2> DEFINE p == AfterPadding - headerLen
             n == headerLen + HeaderPart
             i == IF p = 0 THEN 1 ELSE wire[p][1] + 1
  <2>1. p \in Nat /\ FramedIn(script, wire, p, 0, 0) /\ i = Cur + 1
    <3>1. paddingLen - PaddingPart = 0
      BY <1>1, <1>8 DEF Within
    <3>2. Cur = IF p = 0 THEN 0 ELSE wire[p][1]
      BY <1>7, <1>8
    <3> QED BY <1>7, <1>8, <3>1, <3>2
  <2>2. p + n = AfterHeader /\ n \in 0..HeaderLen /\ p + n <= Len(wire)
    BY <1>1, <2>1 DEF Within
  <2>3. CASE n = 0
    <3>1. AfterPadding+1..AfterHeader = {} /\ n # HeaderLen
      BY <1>1, <2>3 DEF Within
    <3> QED BY <3>1
  <2>4. CASE n > 0
    <3> HIDE DEF p, n, i
    <3>0. i = IF p = 0 THEN 1 ELSE wire[p][1] + 1
      BY DEF i
    <3>1. /\ i \in 1..Len(script)
          /\ \A q \in p+1..p+n : q \in 1..Len(wire) /\ wire[q] = <<i, q - p>>
          /\ p + n \in 1..Len(wire) /\ wire[p + n] = <<i, n>>
          /\ n = HeaderLen => FramedIn(script, wire, p + n, script[i].len, script[i].pad)
          /\ n = HeaderLen /\ script[i].len > 0 =>
                p + n + 1 \in 1..Len(wire) /\ wire[p + n + 1] = <<i, HeaderLen + 1>>
      <4>1. script \in Seq(Record) /\ Shape(script, wire)
        BY <1>1 DEF Places
      <4>2. p \in Nat /\ FramedIn(script, wire, p, 0, 0) /\ n \in 0..HeaderLen /\ p + n <= Len(wire) /\ n > 0
        BY ONLY <2>1, <2>2, <2>4
      <4>3. HeaderAhead(script, wire, p, n, i)
        BY ONLY <3>0, <4>1, <4>2, FramedHeader
      <4> QED BY ONLY <4>3 DEF HeaderAhead
    <3>2. ASSUME NEW q \in AfterPadding+1..AfterHeader
          PROVE  q \in 1..Len(wire) /\ ~IsContent(wire[q])
      <4>1. q \in p+1..p+n /\ q - p <= n /\ q - p \in Nat /\ n <= HeaderLen
        <5>1. AfterPadding = p + headerLen /\ headerLen \in Nat /\ AfterHeader = p + n
          BY <1>1, <2>1, <2>2 DEF p, Within
        <5> QED BY <1>1, <2>1, <2>2, <5>1 DEF Within
      <4>2. wire[q] = <<i, q - p>> /\ q \in 1..Len(wire)
        BY <3>1, <4>1
      <4>3. ~(q - p > HeaderLen)
        BY <1>1, <4>1, <2>2 DEF Within
      <4> QED BY <4>2, <4>3 DEF IsContent
    <3> QED BY <2>1, <2>2, <3>1, <3>2 DEF n
  <2> QED BY <2>2, <2>3, <2>4
<1> QED BY <1>4, <1>6, <1>7, <1>8 DEF Advance

SameConversation == script' = script /\ wire' = wire

LEMMA FramedSame ==
    ASSUME SameConversation, Mark' = Mark, contentLen' = contentLen, paddingLen' = paddingLen
    PROVE  Framed' = Framed /\ Stray' = Stray /\ Cur' = Cur
BY DEF SameConversation, Framed, Stray, Cur, FramedIn, StrayIn, Size

\* Framed and stray exclude each other; without anything to come one of them holds.
LEMMA OneOfThem ==
    ASSUME Typed, Control
    PROVE  /\ ~(Framed /\ Stray)
           /\ contentLen = 0 /\ paddingLen = 0 => Framed \/ Stray
BY PlacesOK, FramedOrStray DEF Places, Framed, Stray

\* The same of the next state.
LEMMA OneOfThemNext ==
    ASSUME Typed, Control, SameConversation, Mark' \in 0..Len(wire)
    PROVE  /\ ~(Framed' /\ Stray')
           /\ contentLen' = 0 /\ paddingLen' = 0 => Framed' \/ Stray'
<1>1. script \in Seq(Record) /\ Shape(script, wire)
  BY PlacesOK DEF Places
<1>2. /\ \A p \in 0..Len(wire) : FramedIn(script, wire, p, 0, 0) \/ StrayIn(script, wire, p, 0, 0)
      /\ \A p \in 0..Len(wire) : \A c, d : ~(FramedIn(script, wire, p, c, d) /\ StrayIn(script, wire, p, c, d))
  BY <1>1, FramedOrStray
<1>3. /\ Framed' <=> FramedIn(script, wire, Mark', contentLen', paddingLen')
      /\ Stray' <=> StrayIn(script, wire, Mark', contentLen', paddingLen')
  BY DEF SameConversation, Framed, Stray, FramedIn, StrayIn, Size
<1> QED BY <1>2, <1>3

\* What is framed in the next state.
LEMMA FramedNext ==
    ASSUME SameConversation
    PROVE  /\ Framed' <=> FramedIn(script, wire, Mark', contentLen', paddingLen')
           /\ Stray' <=> StrayIn(script, wire, Mark', contentLen', paddingLen')
           /\ Cur' = IF Mark' = 0 THEN 0 ELSE wire[Mark'][1]
BY DEF SameConversation, Framed, Stray, FramedIn, StrayIn, Size, Cur

-----------------------------------------------------------------------------
(* The place of the reader.                                                *)

LEMMA QuietTracked ==
    ASSUME Typed, Control, Tracked, ServerSend \/ ServerClose \/ OSRead
    PROVE  Tracked'
<1>1. /\ SameConversation /\ rdNext' = rdNext /\ stop' = stop /\ contentLen' = contentLen
      /\ paddingLen' = paddingLen /\ headerLen' = headerLen /\ pc' = pc /\ isClosed' = isClosed
      /\ nested' = nested /\ phase' = phase /\ FCGI_errno' = FCGI_errno
  BY DEF ServerSend, ServerClose, OSRead, SameConversation, server, ptrs, record, status, control
<1>2. Dead => Dead'
  BY <1>1 DEF ServerSend, ServerClose, OSRead, Dead, server
<1>3. Mark' = Mark
  BY <1>1 DEF Mark, Position
<1>4. Framed' = Framed /\ Stray' = Stray
  BY <1>1, <1>3, FramedSame
<1>5. (InProgress <=> InProgress') /\ (Open <=> Open') /\ Calm' = Calm
  BY <1>1 DEF InProgress, Open, Calm
<1> QED BY <1>1, <1>2, <1>4, <1>5 DEF Tracked

LEMMA OSReadFailsTracked ==
    ASSUME Typed, Control, Tracked, OSReadFails
    PROVE  Tracked'
<1>1. /\ SameConversation /\ rdNext' = rdNext /\ contentLen' = contentLen /\ paddingLen' = paddingLen
      /\ headerLen' = 0 /\ pc' = "use" /\ isClosed' = TRUE /\ nested' = nested /\ phase' = phase
      /\ pc = "fill" /\ sent' = sent /\ serverShut' = serverShut
  BY DEF OSReadFails, MustRead, SetError, SameConversation, server, ptrs
<1>2. Places /\ Mark' = rdNext /\ Mark' \in 0..Len(wire) /\ Mark = rdNext - headerLen
  <2>1. Places
    BY PlacesOK
  <2> QED BY <1>1, <2>1 DEF Mark, Position, Places
<1>3. headerLen = 0 => Framed' = Framed /\ Stray' = Stray
  BY <1>1, <1>2, FramedSame DEF Places
<1>4. headerLen # 0 => contentLen = 0 /\ paddingLen = 0 /\ nested = "none"
  BY <1>2 DEF Control, Places
<1>5. (Framed \/ Stray) /\ (nested # "none" => Framed)
  BY <1>1 DEF Tracked, InProgress, Control
<1>6. Framed' \/ Stray'
  BY <1>1, <1>2, <1>3, <1>4, <1>5, OneOfThemNext
<1>7. nested' # "none" => Framed'
  BY <1>1, <1>3, <1>4, <1>5
<1>8. FCGI_errno' # "none" \/ (Dead' /\ headerLen' = 0)
  BY <1>1 DEF OSReadFails, MustRead, SetError, Dead
<1>9. Open' => nested' # "none"
  BY <1>1 DEF Open
<1> QED BY <1>6, <1>7, <1>8, <1>9 DEF Tracked

LEMMA DeliverContentTracked ==
    ASSUME Typed, Control, Tracked, DeliverContent
    PROVE  Tracked' /\ Framed /\ Framed' /\ Mark' = AfterContent /\ Cur' = Cur /\ Advance
<1>1. /\ SameConversation /\ rdNext' = rdNext /\ paddingLen' = paddingLen /\ headerLen' = headerLen
      /\ contentLen' = contentLen - ContentPart /\ stop' = AfterContent /\ pc' = "use"
      /\ isClosed' = isClosed /\ nested' = nested /\ phase' = phase /\ FCGI_errno' = FCGI_errno
      /\ pc = "fill" /\ contentLen > 0 /\ Filling
  BY DEF DeliverContent, Filling, SameConversation, server, status
<1>2. Places /\ Within /\ ~isClosed /\ headerLen = 0
  <2>1. Places /\ Within
    BY PlacesOK, Iteration, <1>1 DEF Typed
  <2> QED BY <1>1, <2>1 DEF Control, Places
<1>3. Framed
  BY <1>1, <1>2 DEF Tracked, InProgress, Stray, StrayIn
<1>4. Advance
  BY <1>1, <1>3, FramedAdvance
<1>5. Mark' = AfterContent /\ Mark' \in 0..Len(wire)
  BY <1>1, <1>2 DEF Mark, Position, Within
<1>6. Framed' /\ Cur' = Cur
  BY <1>1, <1>2, <1>4, <1>5, FramedNext DEF Advance
<1>7. ~Stray'
  BY <1>1, <1>5, <1>6, OneOfThemNext
<1>8. Open'
  BY <1>1, <1>2 DEF Open
<1>9. Tracked'
  BY <1>6, <1>7, <1>8 DEF Tracked
<1> QED BY <1>3, <1>4, <1>5, <1>6, <1>9

LEMMA SkipContentTracked ==
    ASSUME Typed, Control, Tracked, SkipContent
    PROVE  Tracked' /\ Framed /\ Framed' /\ Mark' = AfterContent /\ Cur' = Cur /\ Advance
<1>1. /\ SameConversation /\ rdNext' = AfterContent /\ paddingLen' = paddingLen /\ headerLen' = headerLen
      /\ contentLen' = contentLen - ContentPart /\ pc' = pc
      /\ isClosed' = isClosed /\ nested' = nested /\ phase' = phase /\ FCGI_errno' = FCGI_errno
      /\ pc = "fill" /\ contentLen > ContentPart /\ Filling
  BY DEF SkipContent, Filling, SameConversation, server, status, control
<1>2. Places /\ Within /\ ~isClosed /\ headerLen = 0 /\ contentLen > 0
  <2>1. Places /\ Within
    BY PlacesOK, Iteration, <1>1 DEF Typed
  <2>2. contentLen > 0
    BY <1>1, <2>1 DEF Within
  <2> QED BY <1>1, <2>1, <2>2 DEF Control, Places
<1>3. Framed
  BY <1>1, <1>2 DEF Tracked, InProgress, Stray, StrayIn
<1>4. Advance
  BY <1>1, <1>3, FramedAdvance
<1>5. Mark' = AfterContent /\ Mark' \in 0..Len(wire)
  BY <1>1, <1>2 DEF Mark, Position, Within
<1>6. Framed' /\ Cur' = Cur
  BY <1>1, <1>2, <1>4, <1>5, FramedNext DEF Advance
<1>7. ~Stray'
  BY <1>1, <1>5, <1>6, OneOfThemNext
<1>8. Open'
  BY <1>1, <1>2 DEF Open
<1>9. Tracked'
  BY <1>6, <1>7, <1>8 DEF Tracked
<1> QED BY <1>3, <1>4, <1>5, <1>6, <1>9

LEMMA SkipPaddingTracked ==
    ASSUME Typed, Control, Tracked, SkipPadding
    PROVE  Tracked' /\ Framed /\ Framed' /\ Mark' = AfterPadding /\ Cur' = Cur /\ Advance
           /\ contentLen' = 0 /\ contentLen = ContentPart /\ headerLen = 0
<1>1. /\ SameConversation /\ rdNext' = AfterPadding /\ paddingLen' = paddingLen - PaddingPart
      /\ headerLen' = headerLen /\ contentLen' = 0 /\ pc' = pc
      /\ isClosed' = isClosed /\ nested' = nested /\ phase' = phase /\ FCGI_errno' = FCGI_errno
      /\ pc = "fill" /\ paddingLen > PaddingPart /\ Filling
      /\ contentLen = 0 \/ contentLen = ContentPart
  BY DEF SkipPadding, PastContent, Filling, SameConversation, server, status, control
<1>2. Places /\ Within /\ ~isClosed /\ headerLen = 0 /\ paddingLen > 0 /\ contentLen = ContentPart
  <2>1. Places /\ Within
    BY PlacesOK, Iteration, <1>1 DEF Typed
  <2>2. paddingLen > 0 /\ contentLen = ContentPart
    BY <1>1, <2>1 DEF Within
  <2> QED BY <1>1, <2>1, <2>2 DEF Control, Places
<1>3. Framed
  BY <1>1, <1>2 DEF Tracked, InProgress, Stray, StrayIn
<1>4. Advance
  BY <1>1, <1>3, FramedAdvance
<1>5. Mark' = AfterPadding /\ Mark' \in 0..Len(wire) /\ AfterPadding - headerLen = AfterPadding
  BY <1>1, <1>2 DEF Mark, Position, Within
<1>6. Framed' /\ Cur' = Cur
  BY <1>1, <1>2, <1>4, <1>5, FramedNext DEF Advance
<1>7. ~Stray'
  BY <1>1, <1>5, <1>6, OneOfThemNext
<1>8. Open'
  BY <1>1, <1>2 DEF Open
<1>9. Tracked'
  BY <1>6, <1>7, <1>8 DEF Tracked
<1> QED BY <1>1, <1>2, <1>3, <1>4, <1>5, <1>6, <1>9

LEMMA DeliverEndOfRecordTracked ==
    ASSUME Typed, Control, Tracked, DeliverEndOfRecord
    PROVE  Tracked' /\ Framed /\ Framed' /\ Mark' = AfterPadding /\ Cur' = Cur /\ Advance
           /\ contentLen' = 0 /\ contentLen = ContentPart /\ headerLen = 0 /\ nested # "none"
<1>1. /\ SameConversation /\ rdNext' = AfterPadding /\ paddingLen' = paddingLen - PaddingPart
      /\ headerLen' = headerLen /\ contentLen' = 0 /\ pc' = "use" /\ stop' = AfterPadding
      /\ isClosed' = TRUE /\ nested' = nested /\ phase' = phase /\ FCGI_errno' = FCGI_errno
      /\ pc = "fill" /\ paddingLen = PaddingPart /\ Filling /\ eorStop
      /\ contentLen = 0 \/ contentLen = ContentPart
  BY DEF DeliverEndOfRecord, PastContent, Filling, SameConversation, server
<1>2. Places /\ Within /\ ~isClosed /\ headerLen = 0 /\ nested # "none" /\ contentLen = ContentPart
  <2>1. Places /\ Within
    BY PlacesOK, Iteration, <1>1 DEF Typed
  <2>2. contentLen = ContentPart
    BY <1>1, <2>1 DEF Within
  <2>3. nested # "none"
    BY <1>1 DEF Control
  <2> QED BY <1>1, <2>1, <2>2, <2>3 DEF Control, Places
<1>3. Framed
  BY <1>1, <1>2 DEF Tracked, InProgress
<1>4. Advance
  BY <1>1, <1>3, FramedAdvance
<1>5. Mark' = AfterPadding /\ Mark' \in 0..Len(wire) /\ AfterPadding - headerLen = AfterPadding
  BY <1>1, <1>2 DEF Mark, Position, Within
<1>6. Framed' /\ Cur' = Cur
  BY <1>1, <1>2, <1>4, <1>5, FramedNext DEF Advance
<1>7. ~Stray'
  BY <1>1, <1>5, <1>6, OneOfThemNext
<1>8. Open'
  BY <1>1, <1>2 DEF Open
<1>9. Tracked'
  BY <1>6, <1>7, <1>8 DEF Tracked
<1> QED BY <1>1, <1>2, <1>3, <1>4, <1>5, <1>6, <1>9

LEMMA GatherHeaderTracked ==
    ASSUME Typed, Control, Tracked, GatherHeader
    PROVE  /\ Tracked' /\ (Framed \/ Stray) /\ Mark' = AfterPadding - headerLen
           /\ Framed => Framed' /\ Cur' = Cur /\ Advance
           /\ Stray => Stray' /\ Mark' = Mark /\ Cur' = Cur
           /\ contentLen' = 0 /\ contentLen = ContentPart /\ paddingLen = PaddingPart /\ nested = "none"
<1>1. /\ SameConversation /\ rdNext' = AfterHeader /\ paddingLen' = paddingLen - PaddingPart
      /\ headerLen' = headerLen + HeaderPart /\ contentLen' = 0 /\ pc' = pc
      /\ isClosed' = isClosed /\ nested' = nested /\ phase' = phase /\ FCGI_errno' = FCGI_errno
      /\ pc = "fill" /\ paddingLen = PaddingPart /\ Filling /\ ~eorStop
      /\ contentLen = 0 \/ contentLen = ContentPart
      /\ sent' = sent /\ serverShut' = serverShut
  BY DEF GatherHeader, PastContent, Filling, SameConversation, server, status, control
<1>2. Places /\ Within /\ ~isClosed /\ nested = "none" /\ contentLen = ContentPart
  <2>1. Places /\ Within
    BY PlacesOK, Iteration, <1>1 DEF Typed
  <2>2. contentLen = ContentPart
    BY <1>1, <2>1 DEF Within
  <2>3. nested = "none"
    BY <1>1 DEF Control
  <2> QED BY <1>1, <2>1, <2>2, <2>3 DEF Control
<1>3. Framed \/ Stray
  BY <1>1, <1>2 DEF Tracked, InProgress
<1>4. Mark' = AfterPadding - headerLen /\ Mark = rdNext - headerLen /\ paddingLen' = 0
  BY <1>1, <1>2 DEF Mark, Position, Within, Places
<1>5. Framed => Framed' /\ Cur' = Cur /\ Advance /\ Mark' \in 0..Len(wire)
  <2> SUFFICES ASSUME Framed PROVE Framed' /\ Cur' = Cur /\ Advance /\ Mark' \in 0..Len(wire)
    OBVIOUS
  <2>1. Advance
    BY <1>1, FramedAdvance
  <2>2. FramedIn(script, wire, Mark', 0, 0) /\ Mark' \in Nat /\ Cur = IF Mark' = 0 THEN 0 ELSE wire[Mark'][1]
    BY <1>1, <1>2, <1>4, <2>1 DEF Advance
  <2>3. Mark' \in 0..Len(wire)
    BY <1>2, <1>4, <2>2 DEF Within
  <2> QED BY <1>1, <1>4, <2>1, <2>2, <2>3, FramedNext
<1>6. Stray => Stray' /\ Mark' = Mark /\ Cur' = Cur
  <2> SUFFICES ASSUME Stray PROVE Stray' /\ Mark' = Mark /\ Cur' = Cur
    OBVIOUS
  <2>1. contentLen = 0 /\ paddingLen = 0
    BY DEF Stray, StrayIn
  <2>2. Mark' = Mark
    BY <1>2, <1>4, <2>1 DEF Within
  <2> QED BY <1>1, <1>4, <2>1, <2>2, FramedSame
<1>7. Open' /\ Open
  BY <1>1, <1>2 DEF Open
<1>8. Framed => ~Stray'
  BY <1>1, <1>5, OneOfThemNext
<1>9. Tracked'
  <2>1. phase' # "begin" /\ Stray' => FCGI_errno' # "none" \/ ~Calm
    <3> SUFFICES ASSUME phase' # "begin", Stray' PROVE FCGI_errno' # "none" \/ ~Calm
      OBVIOUS
    <3>1. Stray /\ phase # "begin"
      BY <1>1, <1>3, <1>8
    <3>2. ~Dead
      BY <1>2 DEF Dead, Within
    <3> QED BY <1>1, <3>1, <3>2 DEF Tracked, InProgress
  <2>2. phase' = "params" /\ Open' => Framed'
    BY <1>1, <1>5, <1>7 DEF Tracked, InProgress
  <2> QED BY <1>1, <1>2, <1>3, <1>5, <1>6, <1>7, <2>1, <2>2 DEF Tracked
<1> QED BY <1>1, <1>2, <1>3, <1>4, <1>5, <1>6, <1>9

\* Where a completed header leaves the reader.
HeaderPlace ==
    /\ Places /\ Within /\ ~isClosed /\ nested = "none" /\ pc = "fill" /\ SameConversation
    /\ contentLen = ContentPart /\ paddingLen = PaddingPart
    /\ Framed \/ Stray
    /\ Framed => /\ Advance /\ AlignedHeader(AfterHeader) /\ Cur + 1 \in 1..Len(script)
                 /\ wire[AfterHeader] = <<Cur + 1, HeaderLen>> /\ Header = script[Cur + 1]
    /\ Stray => ~AlignedHeader(AfterHeader)
    /\ AfterHeader \in 0..Len(wire)

LEMMA HeaderPlaced ==
    ASSUME Typed, Control, Tracked, AtHeader
    PROVE  HeaderPlace
<1>1. /\ SameConversation /\ pc = "fill" /\ Filling /\ paddingLen = PaddingPart /\ ~eorStop
      /\ contentLen = 0 \/ contentLen = ContentPart
      /\ headerLen + HeaderPart = HeaderLen
  BY DEF AtHeader, Filling, SameConversation, server
<1>2. Places /\ Within
  BY PlacesOK, Iteration, <1>1 DEF Typed
<1>3. contentLen = ContentPart /\ ~isClosed
  BY <1>1, <1>2 DEF Within, Control
<1>4. nested = "none"
  BY <1>1 DEF Control
<1>5. Framed \/ Stray
  BY <1>1, <1>3 DEF Tracked, InProgress
<1>6. ASSUME Framed
      PROVE  /\ Advance /\ AlignedHeader(AfterHeader) /\ Cur + 1 \in 1..Len(script)
             /\ wire[AfterHeader] = <<Cur + 1, HeaderLen>> /\ Header = script[Cur + 1]
  <2>1. Advance
    BY <1>1, <1>6, FramedAdvance
  <2>2. wire[AfterHeader] = <<Cur + 1, HeaderLen>> /\ Cur + 1 \in 1..Len(script)
    BY <1>1, <1>3, <2>1 DEF Advance
  <2>3. AfterHeader >= HeaderLen
    <3>1. headerLen <= rdNext
      BY <1>2 DEF Places
    <3> QED BY <1>1, <1>2, <3>1 DEF Within
  <2>4. AlignedHeader(AfterHeader)
    BY <2>2, <2>3 DEF AlignedHeader
  <2>5. Header = script[Cur + 1]
    BY <2>2 DEF Header, HeaderAt
  <2> QED BY <2>1, <2>2, <2>4, <2>5
<1>7. ASSUME Stray PROVE ~AlignedHeader(AfterHeader)
  <2>1. contentLen = 0 /\ paddingLen = 0 /\ StrayIn(script, wire, Mark, 0, 0)
    BY <1>7 DEF Stray, StrayIn
  <2>2. Mark + HeaderLen = AfterHeader /\ Mark \in Nat /\ Mark + HeaderLen <= Len(wire)
    BY <1>1, <1>2, <2>1 DEF Within, Places
  <2>3. wire[Mark + HeaderLen][2] # HeaderLen
    BY <1>2, <2>1, <2>2, StrayUnaligned DEF Places
  <2> QED BY <2>2, <2>3 DEF AlignedHeader
<1>8. AfterHeader \in 0..Len(wire)
  BY <1>2 DEF Within
<1> QED BY <1>1, <1>2, <1>3, <1>4, <1>5, <1>6, <1>7, <1>8 DEF HeaderPlace

LEMMA HeaderMark ==
    ASSUME Typed, Control, AtHeader
    PROVE  Mark' = AfterHeader
<1>1. rdNext' = AfterHeader /\ stop' = AfterHeader /\ headerLen' = 0 /\ Filling
  BY DEF AtHeader
<1>2. AfterHeader \in Nat
  <2>1. Within
    BY <1>1, Iteration DEF Typed
  <2> QED BY ONLY <2>1 DEF Within
<1> QED BY <1>1, <1>2 DEF Mark, Position

\* The header of a record, and where it leaves the reader.
RecordPlace ==
    /\ HeaderPlace /\ Framed /\ Advance /\ Framed' /\ ~Stray'
    /\ Mark' = AfterHeader /\ Cur' = Cur + 1 /\ Cur' \in 1..Len(script)
    /\ Header = script[Cur'] /\ contentLen' = Header.len /\ paddingLen' = Header.pad
    /\ wire[AfterHeader] = <<Cur', HeaderLen>> /\ Mark' > 0

LEMMA RecordPlaced ==
    ASSUME Typed, Control, Tracked, AtRecord
    PROVE  RecordPlace
<1>1. AtHeader /\ AlignedHeader(AfterHeader) /\ contentLen' = Header.len /\ paddingLen' = Header.pad
  BY DEF AtRecord
<1>2. HeaderPlace /\ Mark' = AfterHeader
  BY <1>1, HeaderPlaced, HeaderMark
<1>3. Framed /\ Advance
  BY <1>1, <1>2 DEF HeaderPlace
<1>4. /\ Cur + 1 \in 1..Len(script) /\ wire[AfterHeader] = <<Cur + 1, HeaderLen>>
      /\ Header = script[Cur + 1] /\ SameConversation
      /\ AfterHeader \in 1..Len(wire)
      /\ FramedIn(script, wire, AfterHeader, script[Cur + 1].len, script[Cur + 1].pad)
  <2>1. headerLen + HeaderPart = HeaderLen
    BY <1>1 DEF AtHeader
  <2> QED BY <1>2, <1>3, <2>1 DEF HeaderPlace, Advance
<1>5. Framed' /\ Cur' = Cur + 1
  <2>1. Cur' = wire[AfterHeader][1]
    BY <1>2, <1>4, FramedNext
  <2> QED BY <1>1, <1>2, <1>4, <2>1, FramedNext
<1>6. ~Stray'
  <2>1. Mark' \in 0..Len(wire)
    BY <1>2 DEF HeaderPlace
  <2> QED BY <1>4, <1>5, <2>1, OneOfThemNext
<1> QED BY <1>1, <1>2, <1>3, <1>4, <1>5, <1>6 DEF RecordPlace

LEMMA UnsupportedVersionTracked ==
    ASSUME Typed, Control, Tracked, UnsupportedVersion
    PROVE  Tracked' /\ Stray /\ HeaderPlace /\ Mark' = AfterHeader
<1>1. /\ AtHeader /\ ~AlignedHeader(AfterHeader) /\ contentLen' = 0 /\ paddingLen' = 0
      /\ isClosed' = TRUE /\ FCGI_errno' # "none" /\ nested' = nested /\ phase' = phase
  BY DEF UnsupportedVersion, ReturnError, SetError, AtHeader
<1>2. HeaderPlace /\ Mark' = AfterHeader
  BY <1>1, HeaderPlaced, HeaderMark
<1>3. Stray /\ nested' = "none"
  BY <1>1, <1>2 DEF HeaderPlace
<1>4. Framed' \/ Stray'
  BY <1>1, <1>2, OneOfThemNext DEF HeaderPlace
<1>5. ~Open'
  BY <1>1, <1>3 DEF Open
<1> QED BY <1>1, <1>2, <1>3, <1>4, <1>5 DEF Tracked

\* A record that is taken, refused, skipped or read by a handler.
LEMMA RecordTracked ==
    ASSUME Typed, Control, Tracked, AtRecord, Premises,
           \/ FCGI_errno' # "none"
           \/ nested' # "none"
           \/ ~isClosed'
           \/ Header.len = 0
    PROVE  Tracked' /\ RecordPlace
<1>1. RecordPlace
  BY RecordPlaced
<1>2. Framed' /\ ~Stray'
  BY <1>1 DEF RecordPlace
<1>3. FCGI_errno' # "none" \/ Open' \/ (contentLen' = 0 /\ paddingLen' = 0)
  <2> SUFFICES ASSUME Header.len = 0 PROVE contentLen' = 0 /\ paddingLen' = 0
    BY DEF Open
  <2>1. script \in Scripts /\ DOMAIN script = 1..Len(script)
    BY <1>1 DEF RecordPlace, HeaderPlace, Places
  <2>2. PlainEnds(script)
    BY <2>1 DEF Premises, Conforming
  <2>3. Header.pad = 0
    BY <1>1, <2>1, <2>2 DEF PlainEnds, RecordPlace
  <2> QED BY <1>1, <2>3 DEF RecordPlace
<1> QED BY <1>1, <1>2, <1>3 DEF Tracked

LEMMA ProcessHeaderTracked ==
    ASSUME Typed, Control, Tracked, Premises, ProcessHeader, ~UnsupportedVersion
    PROVE  Tracked' /\ RecordPlace
<1>0. AtHeader => pc = "fill" /\ ~isClosed
  BY DEF AtHeader, Filling, Control
<1>1. CASE RefuseBegin
  BY <1>1, RecordTracked DEF RefuseBegin, ReturnError, SetError
<1>2. CASE RefuseMultiplexing
  BY <1>0, <1>2, RecordTracked DEF RefuseMultiplexing, ReturnError, SetError, ContinueFill, AtRecord
<1>3. CASE BeginRequest
  BY <1>3, RecordTracked DEF BeginRequest, Recurse
<1>4. CASE GetValues
  BY <1>4, RecordTracked DEF GetValues, Recurse
<1>5. CASE UnknownManagement
  BY <1>0, <1>5, RecordTracked DEF UnknownManagement, ReturnError, SetError, ContinueFill, AtRecord
<1>6. CASE ForeignRecord
  BY <1>0, <1>6, RecordTracked DEF ForeignRecord, ContinueFill, AtRecord
<1>7. CASE UnexpectedType
  BY <1>7, RecordTracked DEF UnexpectedType, ReturnError, SetError
<1>8. CASE StreamRecord
  BY <1>0, <1>8, RecordTracked DEF StreamRecord, ContinueFill, AtRecord
<1>9. CASE EndOfStream
  BY <1>9, RecordTracked DEF EndOfStream
<1> QED BY <1>1, <1>2, <1>3, <1>4, <1>5, <1>6, <1>7, <1>8, <1>9 DEF ProcessHeader

\* A step at which the place stays the same.
LEMMA PlaceKept ==
    ASSUME Typed, Control, SameConversation, Mark' = Mark,
           contentLen' = contentLen, paddingLen' = paddingLen
    PROVE  /\ Framed' = Framed /\ Stray' = Stray /\ Cur' = Cur
           /\ ~(Framed' /\ Stray')
<1>1. Framed' = Framed /\ Stray' = Stray /\ Cur' = Cur
  BY FramedSame
<1> QED BY <1>1, OneOfThem

LEMMA NestedReadTracked ==
    ASSUME Typed, Control, Tracked, NestedRead
    PROVE  /\ Tracked' /\ SameConversation /\ Mark' = Mark /\ Cur' = Cur
           /\ Framed /\ Framed' /\ contentLen' = contentLen /\ paddingLen' = paddingLen
<1>1. Places /\ nested # "none" /\ pc = "use"
  BY PlacesOK DEF NestedRead, BeginBodyPart, BeginBodyDone, BeginBodyCut, ValuesPart, ValuesDone, ValuesCut, Reading
<1>2. Framed /\ headerLen = 0
  BY <1>1 DEF Tracked, InProgress, Places
<1>3. /\ SameConversation /\ contentLen' = contentLen /\ paddingLen' = paddingLen
      /\ headerLen' = headerLen /\ stop' = stop /\ phase' = phase
  <2>1. CASE BeginBodyPart
    BY <2>1 DEF BeginBodyPart, SameConversation, server, record
  <2>2. CASE BeginBodyDone
    BY <2>2 DEF BeginBodyDone, SameConversation, server
  <2>3. CASE BeginBodyCut
    BY <2>3 DEF BeginBodyCut, NestedError, SameConversation, server, ptrs
  <2>4. CASE ValuesPart
    BY <2>4 DEF ValuesPart, SameConversation, server, record
  <2>5. CASE ValuesDone
    BY <2>5 DEF ValuesDone, SameConversation, server, ptrs
  <2>6. CASE ValuesCut
    BY <2>6 DEF ValuesCut, NestedError, SameConversation, server, ptrs
  <2> QED BY <2>1, <2>2, <2>3, <2>4, <2>5, <2>6 DEF NestedRead
<1>4. Mark' = Mark
  <2>1. CASE BeginBodyPart \/ ValuesPart
    <3>1. ~isClosed /\ rdNext' = stop /\ pc' = "fill"
      BY <2>1 DEF BeginBodyPart, ValuesPart
    <3> QED BY <1>1, <1>2, <1>3, <3>1 DEF Mark, Position, Places
  <2>2. CASE BeginBodyDone
    <3>1. ~isClosed /\ ~isClosed' /\ pc' = pc
      BY <2>2 DEF BeginBodyDone, status
    <3> QED BY <1>1, <1>2, <1>3, <3>1 DEF Mark, Position
  <2>3. CASE BeginBodyCut \/ ValuesCut
    <3>1. isClosed /\ isClosed' /\ pc' = pc /\ rdNext' = rdNext
      BY <2>3 DEF BeginBodyCut, ValuesCut, NestedError, SetError, ptrs
    <3> QED BY <1>1, <1>2, <1>3, <3>1 DEF Mark, Position
  <2>4. CASE ValuesDone
    <3>1. isClosed /\ pc' = "fill" /\ rdNext' = rdNext
      BY <2>4 DEF ValuesDone, ptrs
    <3> QED BY <1>1, <1>2, <1>3, <3>1 DEF Mark, Position
  <2> QED BY <2>1, <2>2, <2>3, <2>4 DEF NestedRead
<1>5. Framed' /\ ~Stray' /\ Cur' = Cur
  BY <1>2, <1>3, <1>4, PlaceKept
<1>6. FCGI_errno' # "none" \/ Open' \/ phase' = "begin"
  <2>1. CASE BeginBodyPart
    BY <1>1, <2>1 DEF BeginBodyPart, Open
  <2>2. CASE BeginBodyDone
    BY <2>2 DEF BeginBodyDone, Open, status
  <2>3. CASE BeginBodyCut
    BY <2>3 DEF BeginBodyCut, NestedError, SetError
  <2>4. CASE ValuesPart
    BY <1>1, <2>4 DEF ValuesPart, Open
  <2>5. CASE ValuesDone
    BY <2>5 DEF ValuesDone, Open
  <2>6. CASE ValuesCut
    BY <2>6 DEF ValuesCut, NestedError, SetError
  <2> QED BY <2>1, <2>2, <2>3, <2>4, <2>5, <2>6 DEF NestedRead
<1> QED BY <1>2, <1>3, <1>4, <1>5, <1>6 DEF Tracked

LEMMA AcceptRequestTracked ==
    ASSUME Typed, Control, AcceptRequest
    PROVE  Tracked'
<1>1. /\ SameConversation /\ rdNext' = buffStop /\ headerLen' = 0 /\ contentLen' = 0 /\ paddingLen' = 0
      /\ pc' = "fill" /\ nested' = "none" /\ phase' = "begin"
  BY DEF AcceptRequest, SameConversation, server
<1>2. Mark' = buffStop /\ Mark' \in 0..Len(wire)
  BY <1>1, PlacesOK DEF Mark, Position, Places
<1>3. Framed' \/ Stray'
  BY <1>1, <1>2, OneOfThemNext
<1> QED BY <1>1, <1>3 DEF Tracked

\* FCGX_Accept_r goes on to the environment.
LEMMA BeginDoneTracked ==
    ASSUME Typed, Control, Tracked, Beginning, BeginDone
    PROVE  /\ Tracked' /\ SameConversation /\ rdNext = stop /\ rdNext' = rdNext
           /\ Mark' = Mark /\ Mark = rdNext /\ Cur' = Cur /\ Framed /\ Framed'
<1>1. /\ SameConversation /\ rdNext' = rdNext /\ headerLen' = headerLen /\ contentLen' = 0 /\ paddingLen' = 0
      /\ pc = "use" /\ pc' = "fill" /\ nested = "none" /\ nested' = nested /\ phase' = "params" /\ ~isClosed'
      /\ phase = "begin" /\ isBeginProcessed
  BY DEF BeginDone, InAccept, Reading, SetReaderType, SameConversation, server
<1>2. InProgress /\ ~isClosed
  BY <1>1 DEF InProgress, Control
<1>3. rdNext = stop /\ contentLen = 0 /\ paddingLen = 0 /\ Framed
  BY <1>1, <1>2 DEF Beginning, BeginKnown
<1>4. Places /\ headerLen = 0
  BY <1>1, PlacesOK DEF Places
<1>5. Mark = rdNext /\ Mark' = Mark
  BY <1>1, <1>2, <1>3, <1>4 DEF Mark, Position, Places
<1>6. Framed' /\ ~Stray' /\ Cur' = Cur
  BY <1>1, <1>3, <1>5, PlaceKept
<1>7. Open'
  BY <1>1 DEF Open
<1>8. Tracked'
  BY <1>1, <1>6, <1>7 DEF Tracked
<1> QED BY <1>1, <1>3, <1>5, <1>6, <1>8

LEMMA ParamsPartTracked ==
    ASSUME Typed, Control, Tracked, ParamsPart
    PROVE  /\ Tracked' /\ SameConversation /\ rdNext' = stop /\ Mark' = Mark /\ Mark = stop
           /\ Cur' = Cur /\ Framed /\ Framed'
<1>1. /\ SameConversation /\ headerLen' = headerLen /\ contentLen' = contentLen /\ paddingLen' = paddingLen
      /\ pc = "use" /\ pc' = "fill" /\ nested = "none" /\ nested' = nested /\ phase = "params" /\ phase' = "params"
      /\ ~isClosed /\ ~isClosed' /\ rdNext' = rdNext + (stop - rdNext)
  BY DEF ParamsPart, Deliver, Available, InAccept, Reading, SameConversation, server, record, status
<1>2. Places /\ headerLen = 0
  BY <1>1, PlacesOK DEF Places
<1>3. rdNext' = stop /\ Mark = stop /\ Mark' = stop
  BY <1>1, <1>2 DEF Mark, Position, Places
<1>4. Framed
  BY <1>1 DEF Tracked, InProgress, Open
<1>5. Framed' /\ ~Stray' /\ Cur' = Cur
  BY <1>1, <1>3, <1>4, PlaceKept
<1>6. Open'
  BY <1>1 DEF Open
<1>7. Tracked'
  BY <1>1, <1>5, <1>6 DEF Tracked
<1> QED BY <1>1, <1>3, <1>4, <1>5, <1>7

\* SetReaderType after the end of a stream.
LEMMA NextStreamTracked ==
    ASSUME Typed, Control, Tracked, SetReaderType("STDIN") \/ SetReaderType("DATA"),
           UNCHANGED server, InProgress, pc' = "use", pc = "use", nested = "none", nested' = "none",
           isClosed, phase # "begin", phase' = "app"
    PROVE  /\ Tracked' /\ SameConversation /\ rdNext' = rdNext /\ stop' = rdNext /\ Mark' = rdNext /\ Mark = rdNext
           /\ Cur' = Cur /\ contentLen' = 0 /\ paddingLen' = 0 /\ ~isClosed'
           /\ FCGI_errno = "none" /\ Calm /\ ~serverShut =>
                 ~Stray /\ ~Stray' /\ Framed' /\ Framed /\ contentLen = 0 /\ paddingLen = 0
<1>1. /\ SameConversation /\ rdNext' = rdNext /\ stop' = rdNext /\ headerLen' = headerLen
      /\ contentLen' = 0 /\ paddingLen' = 0 /\ ~isClosed' /\ FCGI_errno' = FCGI_errno
      /\ serverShut' = serverShut /\ sent' = sent
  BY DEF SetReaderType, SameConversation, server
<1>2. Places /\ headerLen = 0
  BY PlacesOK DEF Places
<1>3. Mark = rdNext /\ Mark' = rdNext /\ Mark' \in 0..Len(wire)
  BY <1>1, <1>2 DEF Mark, Position, Places
<1>4. Cur' = Cur
  BY <1>1, <1>3 DEF Cur, SameConversation
<1>5. Framed' \/ Stray'
  BY <1>1, <1>3, OneOfThemNext
<1>6. ~Open /\ Open'
  BY <1>1 DEF Open
<1>7. ASSUME FCGI_errno = "none", Calm, ~Dead
      PROVE  ~Stray /\ ~Stray' /\ Framed' /\ Framed /\ contentLen = 0 /\ paddingLen = 0
  <2>1. contentLen = 0 /\ paddingLen = 0
    BY <1>6, <1>7 DEF Tracked
  <2>2. ~Stray
    BY <1>7 DEF Tracked
  <2>3. Framed
    BY <2>2, <1>7 DEF Tracked
  <2>4. ~Stray' /\ Framed'
    BY <1>1, <1>3, <2>1, <2>2, <2>3, PlaceKept
  <2> QED BY <2>1, <2>2, <2>3, <2>4
<1>8. Dead => Dead' /\ headerLen' = 0
  BY <1>1, <1>2 DEF Dead
<1>9. Stray' => FCGI_errno' # "none" \/ (Dead' /\ headerLen' = 0) \/ ~Calm
  BY <1>1, <1>7, <1>8
<1>10. Tracked'
  BY <1>5, <1>6, <1>9 DEF Tracked
<1>11. ~serverShut => ~Dead
  BY DEF Dead
<1> QED BY <1>1, <1>3, <1>4, <1>7, <1>10, <1>11

LEMMA ParamsDoneTracked ==
    ASSUME Typed, Control, Tracked, ParamsDone
    PROVE  Tracked'
<1>1. /\ UNCHANGED server /\ InProgress /\ pc' = "use" /\ pc = "use" /\ nested = "none" /\ nested' = "none"
      /\ isClosed /\ phase # "begin" /\ phase' = "app" /\ SetReaderType("STDIN")
  BY DEF ParamsDone, InAccept, Reading, InProgress
<1> QED BY <1>1, NextStreamTracked

\* The application takes a byte or gives one back.
LEMMA AppReadsTracked ==
    ASSUME Typed, Control, Tracked, Serving => Delivered, AppGet \/ AppFill \/ AppUnGet
    PROVE  /\ Tracked' /\ SameConversation /\ Mark' = Mark /\ Mark = stop /\ Cur' = Cur
           /\ Framed' = Framed /\ Stray' = Stray
<1>1. /\ SameConversation /\ headerLen' = headerLen /\ contentLen' = contentLen /\ paddingLen' = paddingLen
      /\ pc = "use" /\ nested = "none" /\ nested' = nested /\ phase = "app" /\ phase' = phase
      /\ ~isClosed /\ ~isClosed' /\ stop' = stop /\ FCGI_errno' = FCGI_errno
      /\ sent' = sent /\ serverShut' = serverShut
  <2>1. CASE AppGet
    BY <2>1 DEF AppGet, InAccept, Reading, SameConversation, server, record, status, control
  <2>2. CASE AppFill
    BY <2>2 DEF AppFill, InAccept, Reading, SameConversation, server, ptrs, record, status
  <2>3. CASE AppUnGet
    BY <2>3 DEF AppUnGet, InAccept, Reading, SameConversation, server, record, status, control
  <2> QED BY <2>1, <2>2, <2>3
<1>2. Places /\ headerLen = 0
  BY <1>1, PlacesOK DEF Places
<1>3. Mark = stop /\ Mark' = stop
  <2>1. CASE AppFill
    <3>1. rdNext = stop /\ rdNext' = rdNext /\ pc' = "fill"
      BY <2>1 DEF AppFill, ptrs
    <3> QED BY <1>1, <1>2, <3>1 DEF Mark, Position, Places
  <2>2. CASE AppGet \/ AppUnGet
    <3>1. pc' = pc
      BY <2>2 DEF AppGet, AppUnGet, control
    <3> QED BY <1>1, <1>2, <3>1 DEF Mark, Position, Places
  <2> QED BY <2>1, <2>2
<1>4. Framed' = Framed /\ Stray' = Stray /\ Cur' = Cur
  BY <1>1, <1>3, FramedSame
<1>5. Stray => FCGI_errno # "none" \/ Dead' \/ ~Calm
  <2> SUFFICES ASSUME Stray, FCGI_errno = "none", Calm PROVE Dead'
    OBVIOUS
  <2>1. Dead
    BY <1>1 DEF Tracked, InProgress
  <2>2. CASE AppFill
    BY <1>1, <2>1, <2>2 DEF AppFill, Dead, ptrs
  <2>3. CASE AppGet
    <3>1. PICK m \in 1..Available : rdNext' = rdNext + m
      BY <2>3 DEF AppGet, Deliver
    <3>2. stop - rdNext >= 1
      BY <1>2, <3>1 DEF Available, Places
    <3>3. FALSE
      BY <1>2, <2>1, <3>2 DEF Places, Dead
    <3> QED BY <3>3
  <2>4. CASE AppUnGet
    <3>1. got[type] # <<>>
      BY <2>4 DEF AppUnGet
    <3>2. got[type] = <<>>
      BY <1>1 DEF Delivered, Serving, Open, InProgress
    <3> QED BY <3>1, <3>2
  <2> QED BY <2>2, <2>3, <2>4
<1>6. Framed \/ Stray
  BY <1>1 DEF Tracked, InProgress
<1>7. Open'
  BY <1>1 DEF Open
<1>8. Tracked'
  BY <1>1, <1>2, <1>4, <1>5, <1>6, <1>7 DEF Tracked
<1> QED BY <1>1, <1>3, <1>4, <1>8

LEMMA AppCallsTracked ==
    ASSUME Typed, Control, Tracked, AppStartFilterData \/ AppFClose \/ AppClearError
    PROVE  Tracked'
<1>1. /\ SameConversation /\ UNCHANGED server /\ pc = "use" /\ nested = "none" /\ phase = "app"
      /\ pc' = pc /\ nested' = nested /\ phase' = phase
  <2>1. CASE AppStartFilterData
    BY <2>1 DEF AppStartFilterData, InAccept, Reading, SameConversation, server, control
  <2>2. CASE AppFClose
    BY <2>2 DEF AppFClose, InAccept, Reading, SameConversation, server, control
  <2>3. CASE AppClearError
    BY <2>3 DEF AppClearError, InAccept, Reading, SameConversation, server, control
  <2> QED BY <2>1, <2>2, <2>3
<1>2. CASE isClosed /\ SetReaderType("DATA")
  BY <1>1, <1>2, NextStreamTracked DEF InProgress
<1>3. CASE ~Calm /\ isClosed'
  BY <1>1, <1>3 DEF Tracked, Calm
<1>4. CASE ~Calm /\ ~isClosed' /\ AppClearError
  <2>1. /\ contentLen' = contentLen /\ paddingLen' = paddingLen /\ headerLen' = headerLen
        /\ rdNext' = rdNext /\ stop' = stop /\ isClosed' = isClosed
    BY <1>4 DEF AppClearError, ptrs, record
  <2>2. Mark' = Mark
    BY <1>1, <2>1 DEF Mark, Position
  <2>3. Framed' = Framed /\ Stray' = Stray
    BY <1>1, <2>1, <2>2, FramedSame
  <2> QED BY <1>1, <1>4, <2>1, <2>3 DEF Tracked, InProgress, Calm
<1>5. (isClosed /\ SetReaderType("DATA")) \/ (~Calm /\ (isClosed' \/ AppClearError))
  <2>1. CASE AppStartFilterData
    <3>1. CASE role = "FILTER" /\ isClosed /\ type = "STDIN"
      BY <2>1, <3>1 DEF AppStartFilterData
    <3>2. CASE ~(role = "FILTER" /\ isClosed /\ type = "STDIN")
      <4>1. isClosed' /\ "seq" \in Faults
        BY <2>1, <3>2 DEF AppStartFilterData, SetError, AtEOF
      <4> QED BY <4>1 DEF Calm
    <3> QED BY <3>1, <3>2
  <2>2. CASE AppFClose
    BY <2>2 DEF AppFClose, Calm
  <2>3. CASE AppClearError
    BY <2>3 DEF AppClearError, Calm
  <2> QED BY <2>1, <2>2, <2>3
<1> QED BY <1>2, <1>3, <1>4, <1>5

LEMMA LeavesTracked ==
    ASSUME Typed, Control, Tracked, GiveUp \/ AppFinish \/ Finished \/ UNCHANGED vars
    PROVE  Tracked'
<1>1. CASE GiveUp \/ AppFinish
  BY <1>1 DEF GiveUp, AppFinish, Tracked, InProgress
<1>2. CASE Finished \/ UNCHANGED vars
  <2>1. /\ SameConversation /\ contentLen' = contentLen /\ paddingLen' = paddingLen /\ headerLen' = headerLen
        /\ rdNext' = rdNext /\ stop' = stop /\ isClosed' = isClosed /\ pc' = pc /\ nested' = nested
        /\ phase' = phase /\ FCGI_errno' = FCGI_errno /\ serverShut' = serverShut /\ sent' = sent
    BY <1>2 DEF Finished, vars, server, ptrs, record, status, control, SameConversation
  <2>2. Mark' = Mark
    BY <2>1 DEF Mark, Position
  <2>3. Framed' = Framed /\ Stray' = Stray
    BY <2>1, <2>2, FramedSame
  <2>4. (InProgress <=> InProgress') /\ (Open <=> Open') /\ (Dead <=> Dead')
    BY <2>1 DEF InProgress, Open, Dead
  <2> QED BY <2>1, <2>3, <2>4 DEF Tracked, Calm
<1> QED BY <1>1, <1>2

LEMMA StepTracked ==
    ASSUME Typed, Control, Tracked, Beginning, Serving => Delivered, Premises, [Next]_vars
    PROVE  Tracked'
<1>1. CASE Server
  BY <1>1, QuietTracked DEF Server
<1>2. CASE FillBuffProc
  BY <1>2, QuietTracked, OSReadFailsTracked, DeliverContentTracked, SkipContentTracked, SkipPaddingTracked,
     DeliverEndOfRecordTracked, GatherHeaderTracked DEF FillBuffProc
<1>3. CASE ProcessHeader
  BY <1>3, ProcessHeaderTracked, UnsupportedVersionTracked
<1>4. CASE NestedRead
  BY <1>4, NestedReadTracked
<1>5. CASE Accept
  BY <1>5, BeginDoneTracked, LeavesTracked, ParamsPartTracked, ParamsDoneTracked DEF Accept
<1>6. CASE App
  BY <1>6, AcceptRequestTracked, AppReadsTracked, AppCallsTracked, LeavesTracked DEF App
<1>7. CASE Finished \/ UNCHANGED vars
  BY <1>7, LeavesTracked
<1> QED BY <1>1, <1>2, <1>3, <1>4, <1>5, <1>6, <1>7 DEF Next, Library

-----------------------------------------------------------------------------
(* The beginning of a request.                                             *)

LEMMA BeginRequestBody ==
    ASSUME Typed, Control, Tracked, Premises, BeginRequest
    PROVE  BeginBody'
<1>1. RecordPlace /\ AtRecord
  BY ProcessHeaderTracked DEF BeginRequest, ProcessHeader, AtRecord, UnsupportedVersion
<1>2. /\ Header.type = "BEGIN" /\ Header.id # 0 /\ Header.len = BeginLen
      /\ requestId' = Header.id /\ begun' = wire[AfterHeader][1]
      /\ pc' = "fill" /\ taken' = 0
  BY DEF BeginRequest, Recurse
<1>3. rdNext' = AfterHeader
  BY <1>1 DEF AtRecord, AtHeader
<1>4. /\ wire[AfterHeader] = <<Cur', HeaderLen>> /\ Header = script[Cur'] /\ Cur' \in 1..Len(script)
      /\ Mark' > 0 /\ SameConversation /\ HeaderLen \in Nat
  BY <1>1 DEF RecordPlace, HeaderPlace, Places
<1>5. begun' = Cur' /\ begun' # 0 /\ wire'[rdNext'][2] = HeaderLen /\ HeaderLen + taken' = HeaderLen
  BY <1>2, <1>3, <1>4 DEF SameConversation
<1>6. Begins(script', begun') /\ script'[begun'].id = requestId' /\ script'[begun'].len = BeginLen
  BY <1>2, <1>4, <1>5 DEF Begins, SameConversation
<1> QED BY <1>2, <1>4, <1>5, <1>6 DEF BeginBody, Begins

\* While the body is read.
LEMMA FillBody ==
    ASSUME Typed, Control, Tracked, BeginBody, FillBuffProc
    PROVE  BeginBody'
<1> SUFFICES ASSUME nested' = "begin" PROVE BeginBody'
  BY DEF BeginBody
<1>1. nested' = nested /\ requestId' = requestId /\ begun' = begun /\ script' = script /\ wire' = wire /\ taken' = taken
  <2>1. CASE OSRead
    BY <2>1 DEF OSRead, server, request, control
  <2>2. CASE OSReadFails
    BY <2>2 DEF OSReadFails, server, request, control
  <2>3. CASE DeliverContent
    BY <2>3 DEF DeliverContent, server, request, control
  <2>4. CASE SkipContent
    BY <2>4 DEF SkipContent, server, request, control
  <2>5. CASE SkipPadding
    BY <2>5 DEF SkipPadding, server, request, control
  <2>6. CASE DeliverEndOfRecord
    BY <2>6 DEF DeliverEndOfRecord, server, request, control
  <2>7. CASE GatherHeader
    BY <2>7 DEF GatherHeader, server, request, control
  <2> QED BY <2>1, <2>2, <2>3, <2>4, <2>5, <2>6, <2>7 DEF FillBuffProc
<1>2. /\ begun # 0 /\ Mark > 0 /\ Cur = begun
      /\ Begins(script, begun) /\ script[begun].id = requestId
      /\ script[begun].len = BeginLen
      /\ pc = "fill" /\ contentLen > 0 /\ ~skip => HeaderLen + taken = wire[rdNext][2]
  BY <1>1 DEF BeginBody
<1>3. Cur' = Cur => Mark' # 0
  BY <1>2 DEF Cur
<1>4. Places
  BY PlacesOK
<1>5. Cur' = Cur /\ Mark' \in Nat
  <2>1. CASE OSRead
    <3>1. /\ rdNext' = rdNext /\ stop' = stop /\ headerLen' = headerLen /\ pc' = pc /\ isClosed' = isClosed
      BY <2>1 DEF OSRead, record, status, control
    <3> QED BY <1>1, <1>4, <3>1 DEF Mark, Position, Cur, Places
  <2>2. CASE OSReadFails
    <3>1. rdNext' = rdNext /\ headerLen' = 0 /\ isClosed' /\ pc = "fill"
      BY <2>2 DEF OSReadFails, MustRead, SetError, ptrs
    <3>2. headerLen = 0
      BY <1>1, <1>4 DEF Control, Places
    <3>3. Mark = rdNext /\ Mark' = rdNext
      BY <1>4, <3>1, <3>2 DEF Mark, Position, Places
    <3> QED BY <1>1, <1>4, <3>3 DEF Cur, Places
  <2>3. CASE DeliverContent
    <3>1. Mark' = AfterContent /\ Cur' = Cur
      BY <2>3, DeliverContentTracked
    <3>2. Within
      BY <2>3, Iteration DEF DeliverContent, Typed
    <3> QED BY <3>1, <3>2 DEF Within
  <2>4. CASE SkipContent
    <3>1. Mark' = AfterContent /\ Cur' = Cur
      BY <2>4, SkipContentTracked
    <3>2. Within
      BY <2>4, Iteration DEF SkipContent, Typed
    <3> QED BY <3>1, <3>2 DEF Within
  <2>5. CASE SkipPadding
    BY <2>5, SkipPaddingTracked, Iteration DEF SkipPadding, PastContent, Within, Typed
  <2>6. CASE DeliverEndOfRecord
    BY <2>6, DeliverEndOfRecordTracked, Iteration DEF DeliverEndOfRecord, PastContent, Within, Typed
  <2>7. CASE GatherHeader
    <3>1. nested = "none"
      BY <2>7, GatherHeaderTracked
    <3> QED BY <1>1, <3>1
  <2> QED BY <2>1, <2>2, <2>3, <2>4, <2>5, <2>6, <2>7 DEF FillBuffProc
<1>6. Mark' > 0
  BY <1>3, <1>5
<1>7. pc' = "fill" /\ contentLen' > 0 /\ ~skip' => HeaderLen + taken' = wire'[rdNext'][2]
  <2>1. CASE OSRead
    BY <1>1, <1>2, <2>1 DEF OSRead, record, control
  <2>2. CASE OSReadFails \/ DeliverContent \/ DeliverEndOfRecord
    BY <2>2 DEF OSReadFails, DeliverContent, DeliverEndOfRecord
  <2>3. CASE SkipContent
    BY <2>3 DEF SkipContent
  <2>4. CASE SkipPadding \/ GatherHeader
    BY <2>4 DEF SkipPadding, GatherHeader, PastContent
  <2> QED BY <2>1, <2>2, <2>3, <2>4 DEF FillBuffProc
<1>8. pc' = "use" /\ ~isClosed' => HeaderLen + taken' + Available' = wire'[stop'][2]
  <2>1. CASE DeliverContent
    <3>1. stop' = AfterContent /\ rdNext' = rdNext /\ Filling /\ contentLen > 0 /\ ~skip /\ pc = "fill"
      BY <2>1 DEF DeliverContent, Filling
    <3>2. Within /\ Advance
      BY <2>1, <3>1, DeliverContentTracked, Iteration DEF Typed
    <3>3. wire[AfterContent][2] = wire[rdNext][2] + ContentPart /\ HeaderLen + taken = wire[rdNext][2]
      BY <1>2, <3>1, <3>2 DEF Advance
    <3>4. Available' = AfterContent - rdNext /\ AfterContent = rdNext + ContentPart
      BY <3>1, <3>2 DEF Available, Within
    <3>5. taken \in Nat
      BY DEF Typed, ControlOK
    <3>6. Available' = ContentPart /\ ContentPart \in Nat /\ HeaderLen \in Nat
      BY <3>2, <3>4 DEF Within
    <3> QED BY <1>1, <3>1, <3>3, <3>5, <3>6
  <2>2. CASE OSReadFails \/ DeliverEndOfRecord
    BY <2>2 DEF OSReadFails, DeliverEndOfRecord, SetError
  <2>3. CASE SkipContent \/ SkipPadding \/ GatherHeader \/ OSRead
    BY <2>3 DEF SkipContent, SkipPadding, GatherHeader, OSRead, PastContent, control, Filling, MustRead
  <2> QED BY <2>1, <2>2, <2>3 DEF FillBuffProc
<1>9. Begins(script', begun')
  BY <1>1, <1>2 DEF Begins
<1> QED BY <1>1, <1>2, <1>5, <1>6, <1>7, <1>8, <1>9 DEF BeginBody, Begins

LEMMA BodyPartBody ==
    ASSUME Typed, Control, Tracked, BeginBody, BeginBodyPart
    PROVE  BeginBody'
<1>1. /\ nested = "begin" /\ pc = "use" /\ ~isClosed /\ pc' = "fill" /\ rdNext' = stop
      /\ taken' = taken + Available /\ requestId' = requestId /\ begun' = begun
  BY DEF BeginBodyPart, Reading, request
<1>2. SameConversation /\ Mark' = Mark /\ Cur' = Cur
  BY NestedReadTracked DEF NestedRead
<1>3. /\ begun # 0 /\ Mark > 0 /\ Cur = begun
      /\ Begins(script, begun) /\ script[begun].id = requestId
      /\ script[begun].len = BeginLen
      /\ HeaderLen + taken + Available = wire[stop][2]
  BY <1>1 DEF BeginBody
<1>4. HeaderLen \in Nat /\ taken \in Nat /\ Available \in Int
  BY PlacesOK DEF Places, Available, Typed, ControlOK
<1>5. HeaderLen + taken' = wire'[rdNext'][2]
  BY <1>1, <1>2, <1>3, <1>4 DEF SameConversation
<1> QED BY <1>1, <1>2, <1>3, <1>5 DEF BeginBody, Begins, SameConversation

LEMMA StepBody ==
    ASSUME Typed, Control, Tracked, BeginBody, Premises, [Next]_vars
    PROVE  BeginBody'
<1>1. CASE Server \/ Finished \/ UNCHANGED vars
  <2>1. /\ nested' = nested /\ requestId' = requestId /\ begun' = begun /\ script' = script /\ wire' = wire
        /\ taken' = taken /\ pc' = pc /\ contentLen' = contentLen /\ skip' = skip
    BY <1>1 DEF Server, ServerSend, ServerClose, Finished, vars, server, record, request, control
  <2>2. rdNext' = rdNext /\ stop' = stop /\ isClosed' = isClosed /\ headerLen' = headerLen
    BY <1>1 DEF Server, ServerSend, ServerClose, Finished, vars, ptrs, record, status
  <2>3. Mark' = Mark /\ Cur' = Cur /\ Available' = Available
    BY <2>1, <2>2 DEF Mark, Position, Cur, Available
  <2> QED BY <2>1, <2>2, <2>3 DEF BeginBody, Begins
<1>2. CASE FillBuffProc
  BY <1>2, FillBody
<1>3. CASE ProcessHeader
  <2>1. CASE BeginRequest
    BY <2>1, BeginRequestBody
  <2>2. CASE ~BeginRequest
    <3>1. AtHeader
      BY <1>3 DEF ProcessHeader, UnsupportedVersion, RefuseBegin, RefuseMultiplexing, BeginRequest, GetValues,
         UnknownManagement, ForeignRecord, UnexpectedType, StreamRecord, EndOfStream, AtRecord
    <3>2. nested = "none"
      BY <3>1, HeaderPlaced DEF HeaderPlace
    <3>3. nested' # "begin"
      BY <1>3, <2>2, <3>2 DEF ProcessHeader, UnsupportedVersion, RefuseBegin, RefuseMultiplexing, GetValues,
         UnknownManagement, ForeignRecord, UnexpectedType, StreamRecord, EndOfStream,
         ReturnError, ContinueFill, Recurse
    <3> QED BY <3>3 DEF BeginBody
  <2> QED BY <2>1, <2>2
<1>4. CASE NestedRead
  <2>1. CASE BeginBodyPart
    BY <2>1, BodyPartBody
  <2>2. CASE ~BeginBodyPart
    <3>1. nested' # "begin"
      BY <1>4, <2>2 DEF NestedRead, BeginBodyDone, BeginBodyCut, ValuesPart, ValuesDone, ValuesCut, NestedError, Reading
    <3> QED BY <3>1 DEF BeginBody
  <2> QED BY <2>1, <2>2
<1>5. CASE Accept
  <2>1. nested' = "none"
    BY <1>5 DEF Accept, BeginDone, GiveUp, ParamsPart, ParamsDone, InAccept, Reading
  <2> QED BY <2>1 DEF BeginBody
<1>6. CASE App
  <2>1. nested' = "none"
    BY <1>6 DEF App, AcceptRequest, AppGet, AppFill, AppUnGet, AppStartFilterData, AppFClose, AppClearError, AppFinish,
       InAccept, Reading, control
  <2> QED BY <2>1 DEF BeginBody
<1> QED BY <1>1, <1>2, <1>3, <1>4, <1>5, <1>6 DEF Next, Library

\* What stays the same while FillBuffProc runs.
FillKeeps ==
    /\ SameConversation /\ pc = "fill" /\ phase' = phase /\ type' = type /\ got' = got
    /\ role' = role /\ isBeginProcessed' = isBeginProcessed /\ served' = served
    /\ wasFCloseCalled' = wasFCloseCalled /\ cleared' = cleared
    /\ InProgress /\ ~isClosed

LEMMA FillBuffProcKeeps ==
    ASSUME Control, FillBuffProc
    PROVE  FillKeeps /\ requestId' = requestId /\ begun' = begun /\ nested' = nested
           /\ sent' = sent /\ serverShut' = serverShut
<1>1. CASE OSRead
  BY <1>1 DEF OSRead, MustRead, FillKeeps, SameConversation, server, calls, status, request, control, InProgress, Control
<1>2. CASE OSReadFails
  BY <1>2 DEF OSReadFails, MustRead, FillKeeps, SameConversation, server, calls, request, InProgress, Control
<1>3. CASE DeliverContent
  BY <1>3 DEF DeliverContent, Filling, FillKeeps, SameConversation, server, calls, status, request, InProgress, Control
<1>4. CASE SkipContent
  BY <1>4 DEF SkipContent, Filling, FillKeeps, SameConversation, server, calls, status, request, control, InProgress, Control
<1>5. CASE SkipPadding
  BY <1>5 DEF SkipPadding, PastContent, Filling, FillKeeps, SameConversation, server, calls, status, request, control, InProgress, Control
<1>6. CASE DeliverEndOfRecord
  BY <1>6 DEF DeliverEndOfRecord, PastContent, Filling, FillKeeps, SameConversation, server, calls, request, InProgress, Control
<1>7. CASE GatherHeader
  BY <1>7 DEF GatherHeader, PastContent, Filling, FillKeeps, SameConversation, server, calls, status, request, control, InProgress, Control
<1> QED BY <1>1, <1>2, <1>3, <1>4, <1>5, <1>6, <1>7 DEF FillBuffProc

LEMMA AtHeaderOf ==
    ASSUME ProcessHeader
    PROVE  AtHeader /\ role' = role /\ isBeginProcessed' = isBeginProcessed
           /\ (BeginRequest \/ (requestId' = requestId /\ begun' = begun))
<1>1. AtHeader
  BY DEF ProcessHeader, UnsupportedVersion, RefuseBegin, RefuseMultiplexing, BeginRequest, GetValues,
     UnknownManagement, ForeignRecord, UnexpectedType, StreamRecord, EndOfStream, AtRecord
<1>2. role' = role /\ isBeginProcessed' = isBeginProcessed /\ (BeginRequest \/ (requestId' = requestId /\ begun' = begun))
  <2>1. CASE BeginRequest
    BY <2>1 DEF BeginRequest
  <2>2. CASE ~BeginRequest
    BY <2>2 DEF ProcessHeader, UnsupportedVersion, RefuseBegin, RefuseMultiplexing, GetValues,
       UnknownManagement, ForeignRecord, UnexpectedType, StreamRecord, EndOfStream, request
  <2> QED BY <2>1, <2>2
<1> QED BY <1>1, <1>2

LEMMA ProcessHeaderKeeps ==
    ASSUME Control, ProcessHeader
    PROVE  FillKeeps /\ sent' = sent /\ serverShut' = serverShut
<1>1. AtHeader /\ role' = role /\ isBeginProcessed' = isBeginProcessed
  BY AtHeaderOf
<1> QED BY <1>1 DEF AtHeader, Filling, FillKeeps, SameConversation, server, calls, InProgress, Control

LEMMA NestedReadKeeps ==
    ASSUME NestedRead
    PROVE  /\ phase' = phase /\ type' = type /\ got' = got /\ InProgress /\ nested # "none" /\ SameConversation
           /\ wasFCloseCalled' = wasFCloseCalled /\ cleared' = cleared
           /\ requestId' = requestId /\ begun' = begun /\ sent' = sent /\ serverShut' = serverShut
           /\ BeginBodyDone \/ (isBeginProcessed' = isBeginProcessed /\ role' = role)
<1>1. CASE BeginBodyPart
  BY <1>1 DEF BeginBodyPart, Reading, InProgress, SameConversation, server, calls, status, request
<1>2. CASE BeginBodyDone
  BY <1>2 DEF BeginBodyDone, Reading, InProgress, SameConversation, server, calls, status
<1>3. CASE BeginBodyCut
  BY <1>3 DEF BeginBodyCut, NestedError, Reading, InProgress, SameConversation, server, calls, request
<1>4. CASE ValuesPart
  BY <1>4 DEF ValuesPart, Reading, InProgress, SameConversation, server, calls, status, request
<1>5. CASE ValuesDone
  BY <1>5 DEF ValuesDone, Reading, InProgress, SameConversation, server, calls, request
<1>6. CASE ValuesCut
  BY <1>6 DEF ValuesCut, NestedError, Reading, InProgress, SameConversation, server, calls, request
<1> QED BY <1>1, <1>2, <1>3, <1>4, <1>5, <1>6 DEF NestedRead

\* The calls of the application all come after FCGX_Accept_r has returned.
LEMMA AppPhase ==
    ASSUME App, ~AcceptRequest
    PROVE  phase = "app" /\ phase' = phase
BY DEF App, AppGet, AppFill, AppUnGet, AppStartFilterData, AppFClose, AppClearError, AppFinish,
   InAccept, Reading, control

LEMMA BeginBodyDoneKnown ==
    ASSUME Typed, Control, Tracked, BeginBody, Premises, BeginBodyDone
    PROVE  /\ BeginKnown' /\ stop \in 1..Len(wire) /\ wire[stop][1] = begun
<1>1. /\ nested = "begin" /\ pc = "use" /\ ~isClosed /\ rdNext' = stop /\ stop' = stop
      /\ taken + Available = BeginLen /\ contentLen' = contentLen /\ paddingLen' = paddingLen
      /\ requestId' = requestId /\ begun' = begun /\ FCGI_errno' = FCGI_errno
  BY DEF BeginBodyDone, Reading, status
<1>2. SameConversation /\ Mark' = Mark /\ Cur' = Cur /\ Framed /\ Framed'
  BY NestedReadTracked DEF NestedRead
<1>3. /\ begun # 0 /\ Mark > 0 /\ Cur = begun
      /\ Begins(script, begun) /\ script[begun].id = requestId
      /\ script[begun].len = BeginLen
      /\ HeaderLen + taken + Available = wire[stop][2]
  BY <1>1 DEF BeginBody
<1>4. Places /\ Mark = stop
  BY <1>1, PlacesOK DEF Places
<1>5. stop \in 1..Len(wire) /\ wire[stop][1] = begun
  BY <1>3, <1>4 DEF Cur, Places
<1>6. FCGI_errno = "none"
  BY <1>1 DEF Control, InProgress
<1>7. contentLen = 0 /\ paddingLen = script[begun].pad
  <2>1. wire[stop][2] = HeaderLen + script[begun].len
    <3>1. HeaderLen \in Nat /\ taken \in Nat /\ Available \in Int /\ BeginLen \in Nat
      BY <1>4, SizesAssumption DEF Places, Available, Typed, ControlOK
    <3> QED BY <1>1, <1>3, <3>1
  <2>2. script[begun].len \in Nat /\ HeaderLen \in Nat
    <3>1. script[begun] \in Record
      BY <1>4, <1>5 DEF Places
    <3> QED BY <1>4, <3>1 DEF Record, Places
  <2>3. FramedIn(script, wire, stop, contentLen, paddingLen)
    BY <1>2, <1>4 DEF Framed
  <2>4. contentLen = HeaderLen + script[begun].len - wire[stop][2] /\ paddingLen = script[begun].pad
    BY <1>5, <2>1, <2>2, <2>3 DEF FramedIn
  <2> QED BY <2>1, <2>2, <2>4
<1>8. script[begun].pad = 0
  <2>1. begun \in DOMAIN script /\ PlainEnds(script)
    BY <1>4, <1>5 DEF Places, Premises, Conforming
  <2> QED BY <1>3, <2>1 DEF PlainEnds, Begins
<1> QED BY <1>1, <1>2, <1>3, <1>5, <1>6, <1>7, <1>8 DEF BeginKnown, SameConversation, Begins

LEMMA StepKnown ==
    ASSUME Typed, Control, Tracked, Beginning, Premises, [Next]_vars
    PROVE  BeginKnown'
<1> USE DEF Beginning
<1>1. CASE Server \/ Finished \/ UNCHANGED vars
  <2>1. /\ requestId' = requestId /\ begun' = begun /\ script' = script /\ wire' = wire
        /\ pc' = pc /\ contentLen' = contentLen /\ paddingLen' = paddingLen /\ phase' = phase
        /\ isBeginProcessed' = isBeginProcessed /\ FCGI_errno' = FCGI_errno
    BY <1>1 DEF Server, ServerSend, ServerClose, Finished, vars, server, record, request, control, status
  <2>2. rdNext' = rdNext /\ stop' = stop /\ isClosed' = isClosed /\ headerLen' = headerLen
    BY <1>1 DEF Server, ServerSend, ServerClose, Finished, vars, ptrs, record, status
  <2>3. Mark' = Mark /\ (InProgress <=> InProgress')
    BY <2>1, <2>2 DEF Mark, Position, InProgress
  <2>4. Cur' = Cur /\ Framed' = Framed
    BY <2>1, <2>3, FramedSame DEF SameConversation
  <2> QED BY <2>1, <2>2, <2>3, <2>4 DEF BeginKnown, Begins
<1>2. CASE FillBuffProc \/ ProcessHeader
  <2>1. FillKeeps
    BY <1>2, FillBuffProcKeeps, ProcessHeaderKeeps
  <2>2. ~(phase' = "begin" /\ isBeginProcessed')
    BY <2>1 DEF FillKeeps, Control
  <2> QED BY <2>2 DEF BeginKnown
<1>3. CASE NestedRead
  <2>1. CASE BeginBodyDone
    BY <2>1, BeginBodyDoneKnown
  <2>2. CASE ~BeginBodyDone
    <3>1. phase' = phase /\ isBeginProcessed' = isBeginProcessed /\ InProgress /\ nested # "none"
      BY <1>3, <2>2, NestedReadKeeps
    <3>2. ~(phase' = "begin" /\ isBeginProcessed')
      BY <3>1 DEF Control
    <3> QED BY <3>2 DEF BeginKnown
  <2> QED BY <2>1, <2>2
<1>4. CASE Accept
  <2>1. phase' # "begin" \/ pc' = "closed"
    BY <1>4 DEF Accept, BeginDone, GiveUp, ParamsPart, ParamsDone, InAccept
  <2> QED BY <2>1 DEF BeginKnown, InProgress
<1>5. CASE App
  <2>1. phase' # "begin" \/ ~isBeginProcessed'
    BY <1>5, AppPhase DEF AcceptRequest
  <2> QED BY <2>1 DEF BeginKnown
<1> QED BY <1>1, <1>2, <1>3, <1>4, <1>5 DEF Next, Library

LEMMA StepUnserved ==
    ASSUME Control, Unserved, [Next]_vars
    PROVE  Unserved'
<1>1. CASE Server \/ Finished \/ UNCHANGED vars
  BY <1>1 DEF Server, ServerSend, ServerClose, Finished, vars, control, calls, Unserved, InProgress
<1>2. CASE FillBuffProc \/ ProcessHeader
  BY <1>2, FillBuffProcKeeps, ProcessHeaderKeeps DEF FillKeeps, Unserved
<1>3. CASE NestedRead
  BY <1>3, NestedReadKeeps DEF Unserved
<1>4. CASE Accept
  <2>1. phase' # "begin" \/ pc' = "closed"
    BY <1>4 DEF Accept, BeginDone, GiveUp, ParamsPart, ParamsDone, InAccept
  <2> QED BY <2>1 DEF Unserved, InProgress
<1>5. CASE App
  <2>1. CASE AcceptRequest
    BY <2>1 DEF AcceptRequest, Unserved
  <2>2. CASE ~AcceptRequest
    BY <1>5, <2>2, AppPhase DEF Unserved
  <2> QED BY <2>1, <2>2
<1> QED BY <1>1, <1>2, <1>3, <1>4, <1>5 DEF Next, Library

LEMMA StepBeginning ==
    ASSUME Typed, Control, Tracked, Beginning, Premises, [Next]_vars
    PROVE  Beginning'
BY StepBody, StepKnown, StepUnserved DEF Beginning

-----------------------------------------------------------------------------
(* Who may ask for FCGI_DATA.                                              *)

LEMMA StepNoFilter ==
    ASSUME Typed, Control, Tracked, BeginBody, NoFilter, Premises, [Next]_vars
    PROVE  NoFilter'
<1>0. Calm' = Calm
  BY DEF Calm
<1>1. CASE Server \/ Finished \/ UNCHANGED vars
  BY <1>0, <1>1 DEF Server, ServerSend, ServerClose, Finished, vars, request, status, NoFilter
<1>2. CASE FillBuffProc \/ ProcessHeader
  BY <1>0, <1>2, FillBuffProcKeeps, ProcessHeaderKeeps DEF FillKeeps, NoFilter
<1>3. CASE NestedRead
  <2>1. CASE BeginBodyDone
    <3>1. role' = HeaderAt(stop).role /\ type' = type
      BY <2>1 DEF BeginBodyDone, status
    <3>2. stop \in 1..Len(wire) /\ Places
      BY <2>1, BeginBodyDoneKnown, PlacesOK
    <3>3. wire[stop][1] \in DOMAIN script /\ script \in Scripts
      BY <3>2 DEF Places
    <3>4. ~Calm => role' # "FILTER"
      BY <3>1, <3>3 DEF HeaderAt, Premises, InSequence
    <3> QED BY <1>0, <3>1, <3>4 DEF NoFilter
  <2>2. CASE ~BeginBodyDone
    BY <1>0, <1>3, <2>2, NestedReadKeeps DEF NoFilter
  <2> QED BY <2>1, <2>2
<1>4. CASE Accept
  BY <1>0, <1>4 DEF Accept, BeginDone, GiveUp, ParamsPart, ParamsDone, SetReaderType, request, status, NoFilter
<1>5. CASE App
  <2>1. CASE AcceptRequest
    BY <1>0, <2>1 DEF AcceptRequest, NoFilter
  <2>2. CASE AppStartFilterData
    BY <1>0, <2>2 DEF AppStartFilterData, SetReaderType, request, NoFilter
  <2>3. CASE AppGet \/ AppFill \/ AppUnGet \/ AppFClose \/ AppClearError \/ AppFinish
    BY <1>0, <2>3 DEF AppGet, AppFill, AppUnGet, AppFClose, AppClearError, AppFinish, request, status, NoFilter
  <2> QED BY <1>5, <2>1, <2>2, <2>3 DEF App
<1> QED BY <1>1, <1>2, <1>3, <1>4, <1>5 DEF Next, Library

-----------------------------------------------------------------------------
(* What the consumer is to get.                                            *)

LEMMA ExpectedIsSeq ==
    ASSUME Places, NEW t
    PROVE  Expected(t) = Selected(wire, WantedCells(t)) /\ Expected(t) \in Seq(Cell)
<1>1. Expected(t) = Selected(wire, WantedCells(t))
  BY DEF Expected, WantedCells
<1>2. wire \in Seq(Cell)
  BY DEF Places
<1> QED BY <1>1, <1>2, SelectedIsSeq

LEMMA SeenSkips ==
    ASSUME Places, NEW t, NEW a \in Nat, NEW b \in Nat, a <= b, b <= Len(wire),
           \A q \in a+1..b : ~Wanted(wire[q], t)
    PROVE  Seen(t, b) = Seen(t, a)
<1>1. wire \in Seq(Cell)
  BY DEF Places
<1>2. \A q \in a+1..b : wire[q] \notin WantedCells(t)
  BY DEF WantedCells
<1> QED BY <1>1, <1>2, SelectedSkip DEF Seen

LEMMA SeenTakes ==
    ASSUME Places, NEW t, NEW a \in Nat, NEW b \in Nat, a <= b, b <= Len(wire),
           \A q \in a+1..b : Wanted(wire[q], t)
    PROVE  Seen(t, b) = Seen(t, a) \o SubSeq(wire, a + 1, b)
<1>1. wire \in Seq(Cell)
  BY DEF Places
<1>2. ASSUME NEW q \in a+1..b PROVE wire[q] \in WantedCells(t)
  <2>1. q \in 1..Len(wire)
    BY DEF Places
  <2>2. wire[q] \in Nat \X Nat
    BY <2>1 DEF Places, Cell
  <2> QED BY <2>2 DEF WantedCells
<1>3. Selected(SubSeq(wire, 1, b), WantedCells(t))
        = Selected(SubSeq(wire, 1, a), WantedCells(t)) \o SubSeq(wire, a + 1, b)
  <2> DEFINE T == WantedCells(t)
             s == wire
             S == Cell
  <2>1. s \in Seq(S) /\ b <= Len(s) /\ \A q \in a+1..b : s[q] \in T
    BY <1>1, <1>2
  <2> HIDE DEF T, s, S
  <2>2. Selected(SubSeq(s, 1, b), T) = Selected(SubSeq(s, 1, a), T) \o SubSeq(s, a + 1, b)
    <3> DEFINE y == SubSeq(s, a + 1, b)
    <3>0. /\ SubSeq(s, a + 1, b) \in Seq(S)
          /\ Len(SubSeq(s, a + 1, b)) = IF a <= b THEN b - a ELSE 0
          /\ \A i \in 1..b - a : SubSeq(s, a + 1, b)[i] = s[a + i]
      BY ONLY <2>1, a \in Nat, b \in Nat, PartOfSeq
    <3>1. y \in Seq(S) /\ (\A i \in 1..b - a : y[i] = s[a + i]) /\ DOMAIN y = 1..b - a
      <4>1. y \in Seq(S)
        BY ONLY <3>0
      <4>2. \A i \in 1..b - a : y[i] = s[a + i]
        BY ONLY <3>0
      <4>3. Len(y) = b - a
        BY ONLY <3>0, a \in Nat, b \in Nat, a <= b
      <4>4. DOMAIN y = 1..Len(y)
        <5> HIDE DEF y
        <5> QED BY ONLY <4>1
      <4> QED BY <4>1, <4>2, <4>3, <4>4
    <3>2. Selected(SubSeq(s, 1, b), T) = Selected(SubSeq(s, 1, a), T) \o Selected(y, T)
      <4>1. Splits(s, T, a, b)
        BY ONLY <2>1, a \in Nat, b \in Nat, a <= b, SelectedParts
      <4> QED BY ONLY <4>1 DEF Splits
    <3> HIDE DEF y
    <3>3. \A i \in 1..b - a : a + i \in a+1..b
      OBVIOUS
    <3>4. \A i \in DOMAIN y : y[i] \in T
      BY <2>1, <3>1, <3>3
    <3>5. Selected(y, T) = y
      BY <3>1, <3>4, SelectedAll
    <3> QED BY <3>2, <3>5 DEF y
  <2> QED BY <2>2 DEF s, T
<1> QED BY <1>3 DEF Seen

LEMMA SeenGivesBack ==
    ASSUME Places, NEW t, NEW p \in Nat, p > 0, p <= Len(wire), Wanted(wire[p], t)
    PROVE  Front(Seen(t, p)) = Seen(t, p - 1)
<1>1. wire \in Seq(Cell)
  BY DEF Places
<1>2. wire[p] \in WantedCells(t)
  <2>1. p \in 1..Len(wire)
    BY DEF Places
  <2>2. wire[p] \in Nat \X Nat
    BY <2>1 DEF Places, Cell
  <2> QED BY <2>2 DEF WantedCells
<1> QED BY <1>1, <1>2, SelectedBack DEF Seen

LEMMA SeenIsPrefix ==
    ASSUME Places, NEW t, NEW a \in Nat, a <= Len(wire)
    PROVE  IsPrefix(Seen(t, a), Expected(t)) /\ IsPrefix(<<>>, Expected(t))
<1>1. wire \in Seq(Cell)
  BY DEF Places
<1>2. IsPrefix(Seen(t, a), Expected(t))
  BY <1>1, ExpectedIsSeq, SelectedSoFar DEF Seen
<1> QED BY <1>2, ExpectedIsSeq, EmptyPrefix

LEMMA SeenAll ==
    ASSUME Places, NEW t, NEW a \in Nat, a <= Len(wire), \A q \in a+1..Len(wire) : ~Wanted(wire[q], t)
    PROVE  Seen(t, a) = Expected(t)
<1>1. wire \in Seq(Cell)
  BY DEF Places
<1>2. \A q \in a+1..Len(wire) : wire[q] \notin WantedCells(t)
  BY DEF WantedCells
<1> QED BY <1>1, <1>2, ExpectedIsSeq, SelectedWhole DEF Seen

LEMMA SeenNothing ==
    ASSUME Places, NEW t, NEW a \in Nat, a <= Len(wire), \A q \in 1..a : ~Wanted(wire[q], t)
    PROVE  Seen(t, a) = <<>>
<1>1. wire \in Seq(Cell)
  BY DEF Places
<1>2. \A q \in 1..a : wire[q] \notin WantedCells(t)
  BY DEF WantedCells
<1> QED BY <1>1, <1>2, SelectedNothing DEF Seen

\* Who wants a byte.
LEMMA WantedIs ==
    ASSUME NEW cell, NEW t
    PROVE  Wanted(cell, t) <=> IsContent(cell) /\ RecWanted(cell[1], t) /\ begun # 0
BY DEF Wanted, RecWanted

LEMMA OneWants ==
    ASSUME NEW cell, NEW t, NEW u, Wanted(cell, t), t # u
    PROVE  ~Wanted(cell, u)
BY DEF Wanted

\* A wanted byte is content of the request, behind the place where the reader is.
LEMMA WantedLater ==
    ASSUME Places, Known, NEW p \in 1..Len(wire), NEW q \in p..Len(wire), NEW t \in Streams, Wanted(wire[q], t)
    PROVE  /\ wire[q][1] \in 1..Len(script) /\ wire[p][1] <= wire[q][1]
           /\ ContentOf(script, begun, wire[q][1]) /\ script[wire[q][1]].type = t
<1>1. q \in 1..Len(wire) /\ p <= q /\ script \in Seq(Record) /\ Shape(script, wire)
  BY DEF Places
<1>2. wire[q][1] \in 1..Len(script) /\ wire[q][2] \in Nat
  BY <1>1 DEF Places
<1>3. wire[p][1] <= wire[q][1]
  BY ONLY <1>1, p \in 1..Len(wire), CellsInOrder
<1>4. script[wire[q][1]].len > 0
  <2>1. script[wire[q][1]] \in Record
    BY <1>2 DEF Places
  <2>2. script[wire[q][1]].len \in Nat /\ HeaderLen \in Nat
    BY <2>1 DEF Record, Places
  <2>3. wire[q][2] > HeaderLen /\ wire[q][2] <= HeaderLen + script[wire[q][1]].len
    BY DEF Wanted, IsContent
  <2> QED BY <1>2, <2>2, <2>3
<1>5. ContentOf(script, begun, wire[q][1]) /\ script[wire[q][1]].type = t
  BY <1>4 DEF Wanted, ContentOf, Known
<1> QED BY <1>2, <1>3, <1>5

-----------------------------------------------------------------------------
(* The invariant in the next state.                                        *)

KeepsRequest == SameConversation /\ requestId' = requestId /\ begun' = begun

LEMMA WantedNext ==
    ASSUME KeepsRequest
    PROVE  /\ \A cell, t : Wanted(cell, t)' <=> Wanted(cell, t)
           /\ \A t : WantedCells(t)' = WantedCells(t)
<1>1. \A cell, t : Wanted(cell, t)' <=> Wanted(cell, t)
  BY DEF KeepsRequest, SameConversation, Wanted, IsContent
<1>2. \A t : WantedCells(t)' = WantedCells(t)
  BY <1>1 DEF WantedCells
<1> QED BY <1>1, <1>2

LEMMA SeenNext ==
    ASSUME KeepsRequest
    PROVE  /\ \A t : SeenOf(t)' = Seen(t, rdNext')
           /\ \A t : Expected(t)' = Expected(t)
<1>1. \A t : WantedCells(t)' = WantedCells(t)
  BY WantedNext
<1>2. wire' = wire
  BY DEF KeepsRequest, SameConversation
<1>3. \A t : SeenOf(t)' = Seen(t, rdNext')
  BY <1>1, <1>2 DEF SeenOf, Seen
<1>4. \A t : Expected(t) = Selected(wire, WantedCells(t))
  BY DEF Expected, WantedCells
<1>5. \A t : Expected(t)' = Selected(wire', WantedCells(t)')
  BY DEF Expected, WantedCells
<1> QED BY <1>1, <1>2, <1>3, <1>4, <1>5

LEMMA IdentifiedNext ==
    ASSUME KeepsRequest, Known,
           Open' \/ Calm \/ phase' = "params" => Mark' > 0 /\ begun <= Cur',
           nested' = "values" => script[Cur'].id = 0,
           phase' = "params" => ~cleared' /\ ~wasFCloseCalled'
    PROVE  Identified'
BY DEF Identified, Known, KeepsRequest, SameConversation, Begins, Calm

LEMMA InOrderNext ==
    ASSUME KeepsRequest,
           phase' = "params" => \A k \in DOMAIN script :
              OwnUpTo(k, Cur') /\ (Open' \/ k < Cur') => script[k].type = "PARAMS",
           phase' = "app" /\ ~Stray' /\ (Open' \/ (FCGI_errno' = "none" /\ Calm)) =>
              \A k, l \in DOMAIN script :
                 k < l /\ OwnUpTo(k, Cur') /\ OwnUpTo(l, Cur') => ~(script[k].type = "STDIN" /\ script[l].type = "PARAMS")
    PROVE  InOrder'
BY DEF InOrder, Own, OwnUpTo, KeepsRequest, SameConversation, Calm

LEMMA SkippingNext ==
    ASSUME KeepsRequest,
           skip' /\ (Open' \/ Framed') =>
              IF contentLen' > 0 THEN \A t \in Streams : ~RecWanted(Cur', t) ELSE Barren(rdNext')
    PROVE  Skipping'
<1>1. \A cell, t : Wanted(cell, t)' <=> Wanted(cell, t)
  BY WantedNext
<1>2. wire' = wire
  BY DEF KeepsRequest, SameConversation
<1>3. Barren(rdNext') => Barren(rdNext)'
  BY <1>1, <1>2 DEF Barren
<1>4. (\A t \in Streams : ~RecWanted(Cur', t)) => (\A t \in Streams : ~RecWanted(Cur, t)')
  BY DEF RecWanted, KeepsRequest, SameConversation
<1> QED BY <1>3, <1>4 DEF Skipping

LEMMA HandedNext ==
    ASSUME KeepsRequest,
           Open' /\ contentLen' > 0 /\ ~skip' /\ nested' = "none" => RecWanted(Cur', type'),
           pc' = "use" /\ ~isClosed' /\ nested' # "none" =>
              \A q \in rdNext'+1..stop' : \A t \in Streams : ~Wanted(wire[q], t),
           pc' = "use" /\ ~isClosed' /\ nested' = "none" =>
              \/ stop' = rdNext' /\ got'[type'] = <<>>
              \/ ~Stray' /\ \A q \in stopUnget'+1..stop' : Wanted(wire[q], type')
    PROVE  Handed'
<1>1. RecWanted(Cur', type') => RecWanted(Cur, type)'
  BY DEF RecWanted, KeepsRequest, SameConversation
<1>2. \A cell, t : Wanted(cell, t)' <=> Wanted(cell, t)
  BY WantedNext
<1>3. (\A q \in rdNext'+1..stop' : \A t \in Streams : ~Wanted(wire[q], t))
         => (\A q \in rdNext+1..stop : \A t \in Streams : ~Wanted(wire[q], t))'
  BY <1>2 DEF KeepsRequest, SameConversation
<1>4. (\A q \in stopUnget'+1..stop' : Wanted(wire[q], type'))
         => (\A q \in stopUnget+1..stop : Wanted(wire[q], type))'
  BY DEF KeepsRequest, SameConversation, Wanted, IsContent
<1> QED BY <1>1, <1>3, <1>4 DEF Handed

LEMMA DeliveredNext ==
    ASSUME KeepsRequest,
           Open' /\ ~Stray' => got'[type'] = Seen(type', rdNext'),
           Open' /\ Stray' => got'[type'] = <<>>,
           ~Open' => got'[type'] = Seen(type', rdNext') \/ got'[type'] = <<>>
    PROVE  Delivered'
<1>1. SeenOf(type)' = Seen(type', rdNext')
  BY WantedNext DEF SeenOf, Seen, WantedCells, KeepsRequest, SameConversation, Wanted, IsContent
<1> QED BY <1>1 DEF Delivered

LEMMA FutureNext ==
    ASSUME KeepsRequest,
           phase' = "params" => /\ got'["STDIN"] = <<>> /\ got'["DATA"] = <<>>
                                /\ Seen("STDIN", rdNext') = <<>> /\ Seen("DATA", rdNext') = <<>>,
           type' = "STDIN" => /\ got'["DATA"] = <<>>
                              /\ FCGI_errno' = "none" /\ Calm => Seen("DATA", rdNext') = <<>>
    PROVE  Future'
<1>1. SeenOf("STDIN")' = Seen("STDIN", rdNext') /\ SeenOf("DATA")' = Seen("DATA", rdNext')
  BY SeenNext
<1> QED BY <1>1 DEF Future, Calm

LEMMA PastNext ==
    ASSUME KeepsRequest,
           phase' = "app" => IsPrefix(got'["PARAMS"], Expected("PARAMS")),
           type' = "DATA" => IsPrefix(got'["STDIN"], Expected("STDIN"))
    PROVE  Past'
<1>1. Expected("STDIN")' = Expected("STDIN") /\ Expected("PARAMS")' = Expected("PARAMS")
  BY SeenNext
<1> QED BY <1>1 DEF Past, IsPrefix

LEMMA CompleteNext ==
    ASSUME KeepsRequest,
           ~Open' /\ Untroubled' /\ ~wasFCloseCalled' => got'[type'] = Expected(type'),
           phase' = "app" /\ Untroubled' => got'["PARAMS"] = Expected("PARAMS")
    PROVE  Complete'
<1>1. Expected("PARAMS")' = Expected("PARAMS")
  BY SeenNext
<1>2. Expected(type)' = Expected(type')
  BY DEF Expected, KeepsRequest, SameConversation, Wanted, IsContent
<1> QED BY <1>1, <1>2 DEF Complete

-----------------------------------------------------------------------------
(* Steps of FillBuffProc while a request is read.                          *)

\* What every step of a request that is read starts from.
Ready ==
    /\ Typed /\ Control /\ NoFilter /\ Tracked /\ Beginning /\ Premises
    /\ Serving /\ Settled

LEMMA ReadyFacts ==
    ASSUME Ready
    PROVE  /\ Typed /\ Control /\ Tracked /\ Premises /\ Places /\ Known
           /\ type \in Streams /\ phase \in {"params", "app"} /\ InProgress
<1>1. Typed /\ Control /\ Tracked /\ Premises /\ Serving /\ Identified
  BY DEF Ready, Settled
<1>2. Places
  BY <1>1, PlacesOK
<1>3. type \in Streams /\ phase \in {"params", "app"} /\ InProgress
  BY <1>1 DEF Serving, Control, Streams, Typed, ControlOK
<1> QED BY <1>1, <1>2, <1>3 DEF Identified

LEMMA BarrenLater ==
    ASSUME NEW a \in Nat, NEW b \in Nat, a <= b, Barren(a), Len(wire) \in Nat
    PROVE  Barren(b)
<1>1. b+1..Len(wire) \subseteq a+1..Len(wire)
  OBVIOUS
<1> QED BY <1>1 DEF Barren

\* Content that is skipped, padding and headers add nothing to what was seen.
LEMMA PassContent ==
    ASSUME Typed, Control, Filling, Framed, contentLen > 0 => \A t \in Streams : ~RecWanted(Cur, t)
    PROVE  /\ \A t \in Streams : Seen(t, AfterContent) = SeenOf(t)
           /\ \A q \in rdNext+1..AfterContent : \A t \in Streams : ~Wanted(wire[q], t)
<1>1. Places /\ Within /\ Advance
  BY PlacesOK, Iteration, FramedAdvance DEF Typed
<1>2. ASSUME NEW q \in rdNext+1..AfterContent, NEW t \in Streams
      PROVE  ~Wanted(wire[q], t)
  <2>1. wire[q][1] = Cur
    BY <1>1 DEF Advance
  <2>2. contentLen > 0
    BY <1>1 DEF Within
  <2>3. ~RecWanted(wire[q][1], t)
    BY <2>1, <2>2
  <2> QED BY <2>3, WantedIs
<1>3. ASSUME NEW t \in Streams PROVE Seen(t, AfterContent) = SeenOf(t)
  <2>1. AfterContent \in Nat /\ rdNext \in Nat /\ rdNext <= AfterContent /\ AfterContent <= Len(wire)
    BY <1>1 DEF Within
  <2>2. \A q \in rdNext+1..AfterContent : ~Wanted(wire[q], t)
    BY <1>2
  <2> QED BY <1>1, <2>1, <2>2, SeenSkips DEF SeenOf
<1> QED BY <1>2, <1>3

LEMMA PassRest ==
    ASSUME Typed, Control, Filling, Framed, contentLen = ContentPart,
           contentLen > 0 => \A t \in Streams : ~RecWanted(Cur, t)
    PROVE  \A t \in Streams : /\ Seen(t, AfterPadding) = SeenOf(t)
                              /\ paddingLen = PaddingPart => Seen(t, AfterHeader) = SeenOf(t)
<1>1. Places /\ Within /\ Advance
  BY PlacesOK, Iteration, FramedAdvance DEF Typed
<1>2. \A q \in rdNext+1..AfterContent : \A t \in Streams : ~Wanted(wire[q], t)
  BY PassContent
<1>3. /\ rdNext \in Nat /\ AfterContent \in Nat /\ AfterPadding \in Nat /\ AfterHeader \in Nat /\ Len(wire) \in Nat
      /\ rdNext <= AfterContent /\ AfterContent <= AfterPadding /\ AfterPadding <= AfterHeader /\ AfterHeader <= Len(wire)
  BY <1>1 DEF Within
<1>4. \A q \in AfterContent+1..AfterPadding : ~IsContent(wire[q])
  BY <1>1 DEF Advance
<1>5. paddingLen = PaddingPart => \A q \in AfterPadding+1..AfterHeader : ~IsContent(wire[q])
  BY <1>1 DEF Advance
<1> SUFFICES ASSUME NEW t \in Streams
             PROVE  /\ Seen(t, AfterPadding) = SeenOf(t)
                    /\ paddingLen = PaddingPart => Seen(t, AfterHeader) = SeenOf(t)
  OBVIOUS
<1>6. \A q \in rdNext+1..AfterPadding : ~Wanted(wire[q], t)
  <2> SUFFICES ASSUME NEW q \in rdNext+1..AfterPadding PROVE ~Wanted(wire[q], t)
    OBVIOUS
  <2>1. CASE q <= AfterContent
    <3>1. q \in rdNext+1..AfterContent
      BY <1>3, <2>1
    <3> QED BY <1>2, <3>1
  <2>2. CASE q > AfterContent
    <3>1. q \in AfterContent+1..AfterPadding
      BY <1>3, <2>2
    <3> QED BY <1>4, <3>1, WantedIs
  <2> QED BY <1>3, <2>1, <2>2
<1>7. Seen(t, AfterPadding) = SeenOf(t)
  <2>1. rdNext <= AfterPadding /\ AfterPadding <= Len(wire)
    BY <1>3
  <2> QED BY <1>1, <1>3, <1>6, <2>1, SeenSkips DEF SeenOf
<1>8. paddingLen = PaddingPart => Seen(t, AfterHeader) = SeenOf(t)
  <2> SUFFICES ASSUME paddingLen = PaddingPart PROVE Seen(t, AfterHeader) = SeenOf(t)
    OBVIOUS
  <2>1. \A q \in AfterPadding+1..AfterHeader : ~Wanted(wire[q], t)
    BY <1>5, WantedIs
  <2>2. Seen(t, AfterHeader) = Seen(t, AfterPadding)
    BY <1>1, <1>3, <2>1, SeenSkips
  <2> QED BY <1>7, <2>2
<1> QED BY <1>7, <1>8

\* Steps at which little but the rest of the world changes.
LEMMA SameSettled ==
    ASSUME Settled, KeepsRequest, Mark' = Mark, contentLen' = contentLen, paddingLen' = paddingLen,
           skip' = skip, nested' = nested, phase' = phase, type' = type, got' = got, rdNext' = rdNext,
           wasFCloseCalled' = wasFCloseCalled, Open' <=> Open,
           phase = "params" => cleared' = cleared,
           FCGI_errno' = "none" /\ Calm => FCGI_errno = "none",
           Untroubled' => Untroubled,
           Handed'
    PROVE  Settled'
<1>1. Framed' = Framed /\ Stray' = Stray /\ Cur' = Cur
  BY FramedSame DEF KeepsRequest
<1>2. Identified'
  BY <1>1, IdentifiedNext DEF Settled, Identified
<1>3. InOrder'
  BY <1>1, InOrderNext DEF Settled, InOrder, Own
<1>4. Skipping'
  BY <1>1, SkippingNext DEF Settled, Skipping
<1>5. Delivered'
  BY <1>1, DeliveredNext DEF Settled, Delivered, SeenOf
<1>6. Future'
  BY FutureNext DEF Settled, Future, SeenOf
<1>7. Past'
  BY PastNext DEF Settled, Past
<1>8. Complete'
  BY CompleteNext DEF Settled, Complete
<1> QED BY <1>2, <1>3, <1>4, <1>5, <1>6, <1>7, <1>8 DEF Settled

LEMMA QuietServing ==
    ASSUME Ready, Server \/ OSRead \/ Finished \/ UNCHANGED vars
    PROVE  Settled'
<1>1. KeepsRequest
  BY DEF Server, ServerSend, ServerClose, OSRead, Finished, vars, server, request, KeepsRequest, SameConversation
<1>2. /\ contentLen' = contentLen /\ paddingLen' = paddingLen /\ skip' = skip /\ headerLen' = headerLen
      /\ rdNext' = rdNext /\ stop' = stop /\ stopUnget' = stopUnget
  BY DEF Server, ServerSend, ServerClose, OSRead, Finished, vars, record, ptrs
<1>3. /\ nested' = nested /\ phase' = phase /\ type' = type /\ got' = got /\ pc' = pc /\ isClosed' = isClosed
      /\ wasFCloseCalled' = wasFCloseCalled /\ cleared' = cleared /\ FCGI_errno' = FCGI_errno
  BY DEF Server, ServerSend, ServerClose, OSRead, Finished, vars, control, status, calls
<1>4. serverShut => serverShut'
  BY DEF Server, ServerSend, ServerClose, OSRead, Finished, vars, server
<1>5. Mark' = Mark
  BY <1>2, <1>3 DEF Mark, Position
<1>6. (Open' <=> Open) /\ (Untroubled' => Untroubled)
  BY <1>3, <1>4 DEF Open, Untroubled
<1>7. Cur' = Cur /\ Stray' = Stray
  BY <1>1, <1>2, <1>5, FramedSame DEF KeepsRequest
<1>8. Handed'
  BY <1>1, <1>2, <1>3, <1>6, <1>7, HandedNext DEF Ready, Settled, Handed
<1> QED BY <1>1, <1>2, <1>3, <1>5, <1>6, <1>8, SameSettled DEF Ready

-----------------------------------------------------------------------------
(* FillBuffProc itself.                                                    *)

LEMMA OSReadFailsPlace ==
    ASSUME Ready, OSReadFails
    PROVE  /\ Mark > 0 /\ begun <= Cur /\ Mark' > 0 /\ Mark' = rdNext /\ Cur <= Cur' /\ Open /\ FillKeeps /\ KeepsRequest
           /\ contentLen' = contentLen /\ paddingLen' = paddingLen /\ skip' = skip /\ nested' = nested
           /\ rdNext' = rdNext /\ isClosed' /\ serverShut' = serverShut
           /\ headerLen = 0 => Framed' = Framed /\ Stray' = Stray /\ Cur' = Cur
           /\ headerLen > 0 => nested = "none" /\ contentLen = 0 /\ paddingLen = 0
           /\ headerLen > 0 /\ Framed => Cur' = Cur + 1 /\ Stray'
           /\ FCGI_errno' = "none" => FCGI_errno = "none" /\ serverShut
<1>1. Typed /\ Control /\ Places /\ Known /\ Identified /\ pc = "fill"
  BY ReadyFacts DEF Ready, Settled, OSReadFails, MustRead
<1>2. FillKeeps /\ KeepsRequest /\ nested' = nested /\ serverShut' = serverShut
  BY <1>1, FillBuffProcKeeps DEF FillBuffProc, KeepsRequest, FillKeeps
<1>3. /\ contentLen' = contentLen /\ paddingLen' = paddingLen /\ skip' = skip
      /\ rdNext' = rdNext /\ isClosed' /\ headerLen' = 0 /\ pc' = "use"
  BY DEF OSReadFails, SetError, ptrs
<1>4. FCGI_errno' = "none" => FCGI_errno = "none" /\ serverShut
  BY DEF OSReadFails, SetError
<1>5. Open
  BY <1>2 DEF Open, FillKeeps
<1>6. Mark > 0 /\ begun <= Cur
  BY <1>1, <1>5 DEF Identified
<1>7. Mark = rdNext - headerLen /\ Mark' = rdNext
  BY <1>1, <1>3 DEF Places, Mark, Position
<1>8. headerLen \in Nat /\ rdNext \in Nat /\ Mark \in 1..Len(wire) /\ Mark' \in 1..Len(wire) /\ Mark <= Mark'
      /\ Mark + headerLen = Mark' /\ headerLen \in 0..HeaderLen
  BY <1>1, <1>6, <1>7 DEF Places
<1>9. Cur = wire[Mark][1] /\ Cur' = wire[Mark'][1]
  BY <1>2, <1>8 DEF Cur, KeepsRequest, SameConversation
<1>10. Cur <= Cur'
  <2>1. script \in Seq(Record) /\ Shape(script, wire)
    BY <1>1 DEF Places
  <2>2. wire[Mark][1] <= wire[Mark'][1]
    BY ONLY <1>8, <2>1, CellsInOrder
  <2> QED BY <1>9, <2>2
<1>11. headerLen = 0 => Framed' = Framed /\ Stray' = Stray /\ Cur' = Cur
  <2> SUFFICES ASSUME headerLen = 0 PROVE Framed' = Framed /\ Stray' = Stray /\ Cur' = Cur
    OBVIOUS
  <2>1. Mark' = Mark
    BY <1>8
  <2> QED BY <1>2, <1>3, <2>1, FramedSame DEF KeepsRequest
<1>12. headerLen > 0 => nested = "none" /\ contentLen = 0 /\ paddingLen = 0
  BY <1>1 DEF Control
<1>13. headerLen > 0 /\ Framed => Cur' = Cur + 1 /\ Stray'
  <2> SUFFICES ASSUME headerLen > 0, Framed PROVE Cur' = Cur + 1 /\ Stray'
    OBVIOUS
  <2>1. script \in Seq(Record) /\ Shape(script, wire) /\ FramedIn(script, wire, Mark, 0, 0) /\ Mark \in Nat
    BY <1>1, <1>8, <1>12 DEF Places, Framed
  <2> DEFINE i == IF Mark = 0 THEN 1 ELSE wire[Mark][1] + 1
             n == headerLen
             m == Mark
  <2>2. i = Cur + 1 /\ m + n = Mark' /\ m + n <= Len(wire) /\ n > 0 /\ n \in 0..HeaderLen
    <3>1. i = Cur + 1
      BY <1>8, <1>9
    <3> QED BY <1>8, <3>1
  <2>3. i \in 1..Len(script) /\ wire[m + n] = <<i, n>>
    <3>1. i = IF m = 0 THEN 1 ELSE wire[m][1] + 1
      OBVIOUS
    <3>2. FramedIn(script, wire, m, 0, 0) /\ m \in Nat
      BY <2>1
    <3> HIDE DEF i, n, m, Shape, FramedIn
    <3>3. HeaderAhead(script, wire, m, n, i)
      BY ONLY <2>1, <2>2, <3>1, <3>2, FramedHeader
    <3> QED BY ONLY <3>3 DEF HeaderAhead
  <2>4. Cur' = Cur + 1 /\ wire[Mark'] = <<Cur + 1, headerLen>>
    BY <1>9, <2>2, <2>3
  <2>5. script[Cur + 1] \in Record
    BY <1>1, <2>2, <2>3 DEF Places
  <2>6. headerLen < Size(script[Cur + 1])
    <3>1. HeaderLen <= Size(script[Cur + 1]) /\ Size(script[Cur + 1]) \in Nat
      BY <2>5, SizePositive
    <3> QED BY <1>1, <3>1 DEF Places
  <2>7. StrayIn(script, wire, Mark', 0, 0)
    BY <1>8, <2>4, <2>6 DEF StrayIn
  <2>8. Stray'
    BY <1>2, <1>3, <1>12, <2>7, FramedNext DEF KeepsRequest
  <2> QED BY <2>4, <2>8
<1>14. Mark' > 0
  BY <1>8
<1> QED BY <1>2, <1>3, <1>4, <1>5, <1>6, <1>7, <1>10, <1>11, <1>12, <1>13, <1>14

LEMMA OSReadFailsServing ==
    ASSUME Ready, OSReadFails
    PROVE  Settled'
<1>0. /\ Mark > 0 /\ begun <= Cur /\ Mark' > 0 /\ Cur <= Cur' /\ Open /\ FillKeeps /\ KeepsRequest
      /\ contentLen' = contentLen /\ paddingLen' = paddingLen /\ skip' = skip /\ nested' = nested
      /\ rdNext' = rdNext /\ isClosed' /\ serverShut' = serverShut
      /\ FCGI_errno' = "none" => FCGI_errno = "none" /\ serverShut
  BY OSReadFailsPlace
<1>1. /\ headerLen = 0 => Framed' = Framed /\ Stray' = Stray /\ Cur' = Cur
      /\ headerLen > 0 => nested = "none" /\ contentLen = 0 /\ paddingLen = 0
      /\ headerLen > 0 /\ Framed => Cur' = Cur + 1 /\ Stray'
  BY OSReadFailsPlace
<1>2. Places /\ Known /\ Tracked /\ InProgress
  BY ReadyFacts
<1>3. /\ phase' = phase /\ type' = type /\ got' = got /\ ~isClosed
      /\ wasFCloseCalled' = wasFCloseCalled /\ cleared' = cleared
  BY <1>0 DEF FillKeeps
<1>4. Identified /\ InOrder /\ Skipping /\ Handed /\ Delivered /\ Future /\ Past /\ Complete
  BY DEF Ready, Settled
<1>5. headerLen = 0 \/ headerLen > 0
  BY <1>2 DEF Places
<1>6. Open' => nested # "none" /\ headerLen = 0
  BY <1>0, <1>1, <1>5 DEF Open
<1>7. Cur \in Nat /\ Cur' \in Nat /\ begun \in Nat /\ Len(script) \in Nat
  <2>1. Mark \in 1..Len(wire) /\ Mark' \in 1..Len(wire)
    <3>1. Mark' = rdNext
      BY OSReadFailsPlace
    <3> QED BY <1>0, <1>2, <3>1 DEF Places
  <2>2. Cur = wire[Mark][1] /\ Cur' = wire[Mark'][1]
    BY <1>0 DEF Cur, KeepsRequest, SameConversation
  <2>3. begun \in Nat /\ Len(script) \in Nat
    BY <1>2, ReadyFacts DEF Typed, RequestOK, Places
  <2> QED BY <1>2, <2>1, <2>2, <2>3 DEF Places
<1>8. Identified'
  <2>1. Mark' > 0 /\ begun <= Cur'
    BY <1>0, <1>7
  <2>2. nested' = "values" => script[Cur'].id = 0
    BY <1>0, <1>1, <1>4, <1>5 DEF Identified
  <2>3. phase' = "params" => ~cleared' /\ ~wasFCloseCalled'
    BY <1>3, <1>4 DEF Identified
  <2> QED BY <1>0, <1>2, <2>1, <2>2, <2>3, IdentifiedNext
<1>9. InOrder'
  <2>1. ASSUME phase' = "params", NEW k \in DOMAIN script, OwnUpTo(k, Cur'), Open' \/ k < Cur'
        PROVE  script[k].type = "PARAMS"
    <3>1. phase = "params"
      BY <1>3, <2>1
    <3>2. Own(k)
      <4>1. CASE headerLen = 0
        BY <1>1, <2>1, <4>1 DEF Own
      <4>2. CASE headerLen > 0
        <5>1. Framed
          BY <1>0, <1>2, <3>1 DEF Tracked
        <5>2. Cur' = Cur + 1 /\ k < Cur'
          BY <1>1, <1>6, <2>1, <4>2, <5>1
        <5>3. k \in Nat
          BY <1>2 DEF Places
        <5>4. k <= Cur
          BY <1>7, <5>2, <5>3
        <5> QED BY <2>1, <5>4 DEF Own, OwnUpTo
      <4> QED BY <1>5, <4>1, <4>2
    <3> QED BY <1>0, <1>4, <3>1, <3>2 DEF InOrder
  <2>2. ASSUME phase' = "app", ~Stray', Open' \/ (FCGI_errno' = "none" /\ Calm),
               NEW k \in DOMAIN script, NEW l \in DOMAIN script, k < l,
               OwnUpTo(k, Cur'), OwnUpTo(l, Cur')
        PROVE  ~(script[k].type = "STDIN" /\ script[l].type = "PARAMS")
    <3>1. phase = "app"
      BY <1>3, <2>2
    <3>2. headerLen = 0
      <4> SUFFICES ASSUME headerLen > 0 PROVE FALSE
        BY <1>5
      <4>1. FCGI_errno = "none" /\ Calm
        BY <1>0, <1>6, <2>2
      <4>2. Framed
        BY <1>2, <1>3, <3>1, <4>1 DEF Tracked
      <4> QED BY <1>1, <2>2, <4>2
    <3>3. Own(k) /\ Own(l) /\ ~Stray
      BY <1>1, <2>2, <3>2 DEF Own
    <3> QED BY <1>0, <1>4, <2>2, <3>1, <3>3 DEF InOrder
  <2> QED BY <1>0, <2>1, <2>2, InOrderNext
<1>10. Skipping'
  <2> SUFFICES ASSUME skip'
               PROVE  IF contentLen' > 0 THEN \A t \in Streams : ~RecWanted(Cur', t) ELSE Barren(rdNext')
    BY <1>0, SkippingNext
  <2>1. IF contentLen > 0 THEN \A t \in Streams : ~RecWanted(Cur, t) ELSE Barren(rdNext)
    BY <1>0, <1>4 DEF Skipping
  <2>2. contentLen > 0 => Cur' = Cur
    BY <1>1, <1>5
  <2> QED BY <1>0, <2>1, <2>2
<1>11. Handed'
  <2>1. ~(Open' /\ nested' = "none")
    BY <1>0 DEF Open
  <2> QED BY <1>0, <2>1, HandedNext
<1>12. Delivered'
  <2>1. Open' => Stray' = Stray
    BY <1>1, <1>6
  <2>2. (~Stray => got[type] = Seen(type, rdNext)) /\ (Stray => got[type] = <<>>)
    BY <1>0, <1>4 DEF Delivered, SeenOf
  <2> QED BY <1>0, <1>3, <2>1, <2>2, DeliveredNext
<1>13. Future'
  BY <1>0, <1>3, <1>4, FutureNext DEF Future, SeenOf
<1>14. Past'
  BY <1>0, <1>3, <1>4, PastNext DEF Past
<1>15. Complete'
  <2>1. ~Untroubled'
    BY <1>0 DEF Untroubled
  <2> QED BY <1>0, <2>1, CompleteNext
<1> QED BY <1>8, <1>9, <1>10, <1>11, <1>12, <1>13, <1>14, <1>15 DEF Settled

\* Steps that take the reader on in the record that it is in.
LEMMA MovesOn ==
    ASSUME Ready, KeepsRequest, Open, Open', Cur' = Cur, Mark' > 0, Stray' <=> Stray, nested' = nested,
           phase' = phase, type' = type, got' = got, FCGI_errno' = FCGI_errno, serverShut' = serverShut,
           wasFCloseCalled' = wasFCloseCalled, cleared' = cleared,
           ~Stray => \A t \in Streams : Seen(t, rdNext') = SeenOf(t),
           Stray => phase = "app" /\ ~(FCGI_errno = "none" /\ Calm),
           skip' => IF contentLen' > 0 THEN \A t \in Streams : ~RecWanted(Cur', t) ELSE Barren(rdNext'),
           Handed'
    PROVE  Settled'
<1>1. Known /\ Identified /\ InOrder /\ Delivered /\ Future /\ Past /\ Complete /\ type \in Streams
  BY ReadyFacts DEF Ready, Settled
<1>2. Identified'
  BY <1>1, IdentifiedNext DEF Identified
<1>3. InOrder'
  BY <1>1, InOrderNext DEF InOrder, Own
<1>4. Skipping'
  BY SkippingNext
<1>5. Delivered'
  <2>1. ~Stray => got'[type'] = Seen(type', rdNext')
    BY <1>1 DEF Delivered
  <2>2. Stray => got'[type'] = <<>>
    BY <1>1 DEF Delivered
  <2> QED BY <2>1, <2>2, DeliveredNext
<1>6. Future'
  <2>1. phase' = "params" => /\ got'["STDIN"] = <<>> /\ got'["DATA"] = <<>>
                             /\ Seen("STDIN", rdNext') = <<>> /\ Seen("DATA", rdNext') = <<>>
    BY <1>1 DEF Future, Streams
  <2>2. type' = "STDIN" => /\ got'["DATA"] = <<>>
                           /\ FCGI_errno' = "none" /\ Calm => Seen("DATA", rdNext') = <<>>
    BY <1>1 DEF Future, Streams
  <2> QED BY <2>1, <2>2, FutureNext
<1>7. Past'
  BY <1>1, PastNext DEF Past
<1>8. Complete'
  <2>1. Untroubled' = Untroubled
    BY DEF Untroubled
  <2> QED BY <1>1, <2>1, CompleteNext DEF Complete
<1> QED BY <1>2, <1>3, <1>4, <1>5, <1>6, <1>7, <1>8 DEF Settled

\* FillBuffProc while a request is read.
LEMMA FillingFacts ==
    ASSUME Ready, FillBuffProc, Filling
    PROVE  /\ FillKeeps /\ KeepsRequest /\ Open /\ nested' = nested /\ serverShut' = serverShut
           /\ Typed /\ Control /\ Places /\ Within /\ Known /\ type \in Streams /\ Tracked
           /\ phase \in {"params", "app"} /\ nested # "begin"
           /\ Mark > 0 /\ begun <= Cur
           /\ Stray => phase = "app" /\ ~(FCGI_errno = "none" /\ Calm)
           /\ skip => IF contentLen > 0 THEN \A t \in Streams : ~RecWanted(Cur, t) ELSE Barren(rdNext)
           /\ contentLen > 0 /\ ~skip /\ nested = "none" => RecWanted(Cur, type)
           /\ nested # "none" => script[Cur].id = 0 /\ \A t \in Streams : ~RecWanted(Cur, t)
           /\ phase = "params" => ~Stray
<1>1. Typed /\ Control /\ Places /\ Known /\ type \in Streams /\ Tracked /\ InProgress /\ phase \in {"params", "app"}
  BY ReadyFacts
<1>2. FillKeeps /\ KeepsRequest /\ nested' = nested /\ serverShut' = serverShut
  BY <1>1, FillBuffProcKeeps DEF KeepsRequest, FillKeeps
<1>3. Open
  BY <1>2 DEF Open, FillKeeps
<1>4. Within
  BY <1>1, Iteration DEF Typed
<1>5. nested # "begin"
  BY <1>1 DEF Control
<1>6. Mark > 0 /\ begun <= Cur
  BY <1>3 DEF Ready, Settled, Identified
<1>7. ~(Framed /\ Stray)
  BY <1>1, OneOfThem
<1>8. phase = "params" => ~Stray
  BY <1>1, <1>3, <1>7 DEF Tracked
<1>9. Stray => phase = "app" /\ ~(FCGI_errno = "none" /\ Calm)
  <2>1. ~Dead
    BY <1>4 DEF Dead, Within
  <2> QED BY <1>1, <1>8, <2>1 DEF Tracked
<1>10. skip => IF contentLen > 0 THEN \A t \in Streams : ~RecWanted(Cur, t) ELSE Barren(rdNext)
  BY <1>3 DEF Ready, Settled, Skipping
<1>11. contentLen > 0 /\ ~skip /\ nested = "none" => RecWanted(Cur, type)
  BY <1>3 DEF Ready, Settled, Handed
<1>12. nested # "none" => script[Cur].id = 0 /\ \A t \in Streams : ~RecWanted(Cur, t)
  <2>1. nested # "none" => nested = "values"
    BY <1>1, <1>5 DEF Typed, ControlOK
  <2>2. nested # "none" => script[Cur].id = 0
    BY <2>1 DEF Ready, Settled, Identified
  <2>3. requestId # 0
    BY <1>1 DEF Known, Begins
  <2> QED BY <2>2, <2>3 DEF RecWanted
<1> QED BY <1>1, <1>2, <1>3, <1>4, <1>5, <1>6, <1>8, <1>9, <1>10, <1>11, <1>12

LEMMA DeliverContentServing ==
    ASSUME Ready, DeliverContent
    PROVE  Settled'
<1>0. FillBuffProc /\ Filling
  BY DEF FillBuffProc, DeliverContent
<1>1. /\ FillKeeps /\ KeepsRequest /\ Open /\ nested' = nested /\ serverShut' = serverShut
      /\ Typed /\ Control /\ Places /\ Within /\ Known /\ type \in Streams /\ Tracked /\ nested # "begin"
  BY <1>0, FillingFacts
<1>2. Framed /\ Framed' /\ Mark' = AfterContent /\ Cur' = Cur /\ Advance
  BY <1>1, DeliverContentTracked
<1>3. /\ contentLen > 0 /\ ~skip /\ rdNext' = rdNext /\ stop' = AfterContent /\ stopUnget' = rdNext
      /\ contentLen' = contentLen - ContentPart /\ skip' = skip /\ FCGI_errno' = FCGI_errno /\ isClosed' = isClosed
  BY DEF DeliverContent, status
<1>4. /\ phase' = phase /\ type' = type /\ got' = got /\ ~isClosed /\ SameConversation
      /\ wasFCloseCalled' = wasFCloseCalled /\ cleared' = cleared
  BY <1>1 DEF FillKeeps
<1>5. Mark' > 0 /\ Mark' \in 0..Len(wire)
  BY <1>1, <1>2, <1>3 DEF Advance, Within
<1>6. ~Stray /\ ~Stray' /\ (Stray' <=> Stray)
  BY <1>1, <1>2, <1>4, <1>5, OneOfThem, OneOfThemNext
<1>7. Open'
  BY <1>3, <1>4 DEF Open
<1>8. \A t \in Streams : Seen(t, rdNext') = SeenOf(t)
  BY <1>3 DEF SeenOf
<1>9. Handed'
  <2>1. nested = "none" => RecWanted(Cur, type)
    BY <1>0, <1>3, FillingFacts
  <2>2. \A q \in rdNext+1..AfterContent : wire[q][1] = Cur /\ IsContent(wire[q])
    BY <1>2 DEF Advance
  <2>3. nested # "none" => \A q \in rdNext+1..AfterContent : \A t \in Streams : ~Wanted(wire[q], t)
    <3>1. nested # "none" => \A t \in Streams : ~RecWanted(Cur, t)
      BY <1>0, FillingFacts
    <3> QED BY <2>2, <3>1, WantedIs
  <2>4. nested = "none" => \A q \in rdNext+1..AfterContent : Wanted(wire[q], type)
    BY <1>1, <2>1, <2>2, WantedIs DEF Known
  <2>5. Open' /\ contentLen' > 0 /\ ~skip' /\ nested' = "none" => RecWanted(Cur', type')
    BY <1>1, <1>2, <1>4, <2>1
  <2>6. pc' = "use" /\ ~isClosed' /\ nested' # "none" =>
           \A q \in rdNext'+1..stop' : \A t \in Streams : ~Wanted(wire[q], t)
    BY <1>1, <1>3, <2>3
  <2>7. pc' = "use" /\ ~isClosed' /\ nested' = "none" =>
           ~Stray' /\ \A q \in stopUnget'+1..stop' : Wanted(wire[q], type')
    BY <1>1, <1>3, <1>4, <1>6, <2>4
  <2> QED BY <1>1, <2>5, <2>6, <2>7, HandedNext
<1> QED BY <1>1, <1>2, <1>3, <1>4, <1>5, <1>6, <1>7, <1>8, <1>9, MovesOn

LEMMA SkipContentServing ==
    ASSUME Ready, SkipContent
    PROVE  Settled'
<1>0. FillBuffProc /\ Filling
  BY DEF FillBuffProc, SkipContent
<1>1. /\ FillKeeps /\ KeepsRequest /\ Open /\ nested' = nested /\ serverShut' = serverShut
      /\ Typed /\ Control /\ Places /\ Within /\ Known /\ type \in Streams /\ Tracked
  BY <1>0, FillingFacts
<1>2. Framed /\ Framed' /\ Mark' = AfterContent /\ Cur' = Cur /\ Advance
  BY <1>1, SkipContentTracked
<1>3. /\ skip /\ contentLen > ContentPart /\ rdNext' = AfterContent /\ pc' = pc
      /\ contentLen' = contentLen - ContentPart /\ skip' = skip /\ FCGI_errno' = FCGI_errno /\ isClosed' = isClosed
  BY DEF SkipContent, status, control
<1>4. /\ phase' = phase /\ type' = type /\ got' = got /\ ~isClosed /\ SameConversation /\ pc = "fill"
      /\ wasFCloseCalled' = wasFCloseCalled /\ cleared' = cleared
  BY <1>1 DEF FillKeeps
<1>5. contentLen > 0 /\ contentLen' > 0
  BY <1>1, <1>3 DEF Within
<1>6. Mark' > 0 /\ Mark' \in 0..Len(wire)
  BY <1>1, <1>2, <1>5 DEF Advance, Within
<1>7. ~Stray /\ ~Stray' /\ (Stray' <=> Stray)
  BY <1>1, <1>2, <1>4, <1>6, OneOfThem, OneOfThemNext
<1>8. Open'
  BY <1>3, <1>4 DEF Open
<1>9. \A t \in Streams : ~RecWanted(Cur, t)
  BY <1>0, <1>3, <1>5, FillingFacts
<1>10. \A t \in Streams : Seen(t, rdNext') = SeenOf(t)
  BY <1>0, <1>1, <1>2, <1>3, <1>9, PassContent
<1>11. Handed'
  BY <1>1, <1>3, <1>4, HandedNext
<1> QED BY <1>1, <1>2, <1>3, <1>4, <1>5, <1>6, <1>7, <1>8, <1>9, <1>10, <1>11, MovesOn

LEMMA SkipPaddingServing ==
    ASSUME Ready, SkipPadding
    PROVE  Settled'
<1>0. FillBuffProc /\ Filling
  BY DEF FillBuffProc, SkipPadding, PastContent
<1>1. /\ FillKeeps /\ KeepsRequest /\ Open /\ nested' = nested /\ serverShut' = serverShut
      /\ Typed /\ Control /\ Places /\ Within /\ Known /\ type \in Streams /\ Tracked /\ Mark > 0
  BY <1>0, FillingFacts
<1>2. /\ Framed /\ Framed' /\ Mark' = AfterPadding /\ Cur' = Cur /\ Advance
      /\ contentLen' = 0 /\ contentLen = ContentPart /\ headerLen = 0
  BY <1>1, SkipPaddingTracked
<1>3. /\ rdNext' = AfterPadding /\ pc' = pc /\ skip' = (skip /\ contentLen = 0)
      /\ FCGI_errno' = FCGI_errno /\ isClosed' = isClosed
      /\ contentLen = 0 \/ skip
  BY DEF SkipPadding, PastContent, status, control
<1>4. /\ phase' = phase /\ type' = type /\ got' = got /\ ~isClosed /\ SameConversation /\ pc = "fill"
      /\ wasFCloseCalled' = wasFCloseCalled /\ cleared' = cleared
  BY <1>1 DEF FillKeeps
<1>5. Mark' > 0 /\ Mark' \in 0..Len(wire) /\ rdNext \in Nat /\ rdNext' \in Nat /\ rdNext <= rdNext' /\ Len(wire) \in Nat
  <2>1. Mark = rdNext
    BY <1>1, <1>2, <1>4 DEF Places
  <2> QED BY <1>1, <1>2, <1>3, <2>1 DEF Within
<1>6. ~Stray /\ ~Stray' /\ (Stray' <=> Stray)
  BY <1>1, <1>2, <1>4, <1>5, OneOfThem, OneOfThemNext
<1>7. Open'
  BY <1>3, <1>4 DEF Open
<1>8. contentLen > 0 => \A t \in Streams : ~RecWanted(Cur, t)
  <2>1. contentLen > 0 => skip
    BY <1>1, <1>3 DEF Within
  <2> QED BY <1>0, <2>1, FillingFacts
<1>9. \A t \in Streams : Seen(t, rdNext') = SeenOf(t)
  BY <1>0, <1>1, <1>2, <1>3, <1>8, PassRest
<1>10. Handed'
  BY <1>1, <1>2, <1>3, <1>4, HandedNext
<1>11. skip' => Barren(rdNext')
  <2>1. skip' => skip /\ contentLen = 0
    BY <1>3
  <2>2. skip => IF contentLen > 0 THEN \A t \in Streams : ~RecWanted(Cur, t) ELSE Barren(rdNext)
    BY <1>0, FillingFacts
  <2>3. skip' => Barren(rdNext)
    BY <2>1, <2>2
  <2> QED BY <1>5, <2>3, BarrenLater
<1> QED BY <1>1, <1>2, <1>3, <1>4, <1>5, <1>6, <1>7, <1>9, <1>10, <1>11, MovesOn

LEMMA DeliverEndOfRecordServing ==
    ASSUME Ready, DeliverEndOfRecord
    PROVE  Settled'
<1>0. FillBuffProc /\ Filling
  BY DEF FillBuffProc, DeliverEndOfRecord, PastContent
<1>1. /\ FillKeeps /\ KeepsRequest /\ Open /\ nested' = nested /\ serverShut' = serverShut
      /\ Typed /\ Control /\ Places /\ Within /\ Known /\ type \in Streams /\ Tracked /\ Mark > 0
  BY <1>0, FillingFacts
<1>2. /\ Framed /\ Framed' /\ Mark' = AfterPadding /\ Cur' = Cur /\ Advance
      /\ contentLen' = 0 /\ contentLen = ContentPart /\ headerLen = 0 /\ nested # "none"
  BY <1>1, DeliverEndOfRecordTracked
<1>3. /\ rdNext' = AfterPadding /\ skip' = (skip /\ contentLen = 0)
      /\ FCGI_errno' = FCGI_errno /\ isClosed'
      /\ contentLen = 0 \/ skip
  BY DEF DeliverEndOfRecord, PastContent
<1>4. /\ phase' = phase /\ type' = type /\ got' = got /\ ~isClosed /\ SameConversation /\ pc = "fill"
      /\ wasFCloseCalled' = wasFCloseCalled /\ cleared' = cleared
  BY <1>1 DEF FillKeeps
<1>5. Mark' > 0 /\ Mark' \in 0..Len(wire) /\ rdNext \in Nat /\ rdNext' \in Nat /\ rdNext <= rdNext' /\ Len(wire) \in Nat
  <2>1. Mark = rdNext
    BY <1>1, <1>2, <1>4 DEF Places
  <2> QED BY <1>1, <1>2, <1>3, <2>1 DEF Within
<1>6. ~Stray /\ ~Stray' /\ (Stray' <=> Stray)
  BY <1>1, <1>2, <1>4, <1>5, OneOfThem, OneOfThemNext
<1>7. Open'
  BY <1>1, <1>2 DEF Open
<1>8. contentLen > 0 => \A t \in Streams : ~RecWanted(Cur, t)
  BY <1>0, <1>2, FillingFacts
<1>9. \A t \in Streams : Seen(t, rdNext') = SeenOf(t)
  BY <1>0, <1>1, <1>2, <1>3, <1>8, PassRest
<1>10. Handed'
  BY <1>1, <1>2, <1>3, HandedNext
<1>11. skip' => Barren(rdNext')
  <2>1. skip' => skip /\ contentLen = 0
    BY <1>3
  <2>2. skip => IF contentLen > 0 THEN \A t \in Streams : ~RecWanted(Cur, t) ELSE Barren(rdNext)
    BY <1>0, FillingFacts
  <2>3. skip' => Barren(rdNext)
    BY <2>1, <2>2
  <2> QED BY <1>5, <2>3, BarrenLater
<1> QED BY <1>1, <1>2, <1>3, <1>4, <1>5, <1>6, <1>7, <1>9, <1>10, <1>11, MovesOn

LEMMA GatherHeaderServing ==
    ASSUME Ready, GatherHeader
    PROVE  Settled'
<1>0. FillBuffProc /\ Filling
  BY DEF FillBuffProc, GatherHeader, PastContent
<1>1. /\ FillKeeps /\ KeepsRequest /\ Open /\ nested' = nested /\ serverShut' = serverShut
      /\ Typed /\ Control /\ Places /\ Within /\ Known /\ type \in Streams /\ Tracked /\ Mark > 0
  BY <1>0, FillingFacts
<1>2. /\ Framed \/ Stray
      /\ Framed => Framed' /\ Cur' = Cur /\ Advance
      /\ Stray => Stray' /\ Mark' = Mark /\ Cur' = Cur
      /\ Mark' = AfterPadding - headerLen
      /\ contentLen' = 0 /\ contentLen = ContentPart /\ paddingLen = PaddingPart /\ nested = "none"
  BY <1>1, GatherHeaderTracked
<1>3. /\ rdNext' = AfterHeader /\ skip' = (skip /\ contentLen = 0) /\ pc' = pc
      /\ FCGI_errno' = FCGI_errno /\ isClosed' = isClosed
      /\ contentLen = 0 \/ skip
  BY DEF GatherHeader, PastContent, status, control
<1>4. /\ phase' = phase /\ type' = type /\ got' = got /\ ~isClosed /\ SameConversation /\ pc = "fill"
      /\ wasFCloseCalled' = wasFCloseCalled /\ cleared' = cleared
  BY <1>1 DEF FillKeeps
<1>5. Mark' > 0 /\ Mark' \in 0..Len(wire) /\ rdNext \in Nat /\ rdNext' \in Nat /\ rdNext <= rdNext' /\ Len(wire) \in Nat
  <2>1. Mark = rdNext - headerLen
    BY <1>1, <1>4 DEF Places
  <2> QED BY <1>1, <1>2, <1>3, <2>1 DEF Within
<1>6. (Stray' <=> Stray) /\ Cur' = Cur
  <2>1. ~(Framed /\ Stray) /\ ~(Framed' /\ Stray')
    BY <1>1, <1>4, <1>5, OneOfThem, OneOfThemNext
  <2> QED BY <1>2, <2>1
<1>7. Open'
  BY <1>3, <1>4 DEF Open
<1>8. contentLen > 0 => \A t \in Streams : ~RecWanted(Cur, t)
  <2>1. contentLen > 0 => skip
    BY <1>1, <1>3 DEF Within
  <2> QED BY <1>0, <2>1, FillingFacts
<1>9. ~Stray => \A t \in Streams : Seen(t, rdNext') = SeenOf(t)
  BY <1>0, <1>1, <1>2, <1>3, <1>8, PassRest
<1>10. Handed'
  BY <1>1, <1>2, <1>3, <1>4, HandedNext
<1>11. skip' => Barren(rdNext')
  <2>1. skip' => skip /\ contentLen = 0
    BY <1>3
  <2>2. skip => IF contentLen > 0 THEN \A t \in Streams : ~RecWanted(Cur, t) ELSE Barren(rdNext)
    BY <1>0, FillingFacts
  <2>3. skip' => Barren(rdNext)
    BY <2>1, <2>2
  <2> QED BY <1>5, <2>3, BarrenLater
<1>12. Stray => phase = "app" /\ ~(FCGI_errno = "none" /\ Calm)
  BY <1>0, FillingFacts
<1> QED BY <1>1, <1>2, <1>3, <1>4, <1>5, <1>6, <1>7, <1>9, <1>10, <1>11, <1>12, MovesOn

LEMMA FillBuffProcServing ==
    ASSUME Ready, FillBuffProc
    PROVE  Settled'
BY QuietServing, OSReadFailsServing, DeliverContentServing, SkipContentServing, SkipPaddingServing,
   DeliverEndOfRecordServing, GatherHeaderServing DEF FillBuffProc

-----------------------------------------------------------------------------
(* ProcessHeader while a request is read.                                  *)

Stays  == pc' = "fill" /\ ~isClosed' /\ FCGI_errno' = FCGI_errno
Closes == pc' = "use" /\ isClosed' /\ nested' = "none"

\* What becomes of a record whose header was read.
Refused  == Closes /\ FCGI_errno' # "none" /\ KeepSkip
Asked    == Stays /\ nested' = "values" /\ KeepSkip /\ Header.id = 0
Skipped  == /\ Stays /\ nested' = "none" /\ skip'
            /\ \/ Header.type = "BEGIN" /\ Header.len > 0
               \/ Header.type # "BEGIN" /\ Header.id # 0 /\ Header.id # requestId
Plain    == /\ Stays /\ nested' = "none" /\ KeepSkip
            /\ Header.id = 0 /\ Header.type \notin {"BEGIN", "GET_VALUES"}
Streamed == Stays /\ nested' = "none" /\ KeepSkip /\ Header.id = requestId /\ Header.type = type
Ended    == /\ Closes /\ FCGI_errno' = FCGI_errno /\ KeepSkip
            /\ Header.id = requestId /\ Header.type = type /\ Header.len = 0

Outcome == Refused \/ Asked \/ Skipped \/ Plain \/ Streamed \/ Ended

LEMMA OutcomeOf ==
    ASSUME ProcessHeader, ~UnsupportedVersion, ~BeginRequest, nested = "none", ~isClosed
    PROVE  Outcome
<1>1. CASE RefuseBegin
  <2>1. Refused
    BY <1>1 DEF RefuseBegin, ReturnError, SetError, Refused, Closes
  <2> QED BY <2>1 DEF Outcome
<1>2. CASE RefuseMultiplexing
  <2>1. CASE skip' = TRUE /\ ContinueFill
    <3>1. Header.len > 0
      BY <1>2, SizesAssumption DEF RefuseMultiplexing
    <3>2. Skipped
      BY <1>2, <2>1, <3>1 DEF RefuseMultiplexing, ContinueFill, Skipped, Stays
    <3> QED BY <3>2 DEF Outcome
  <2>2. CASE KeepSkip /\ ReturnError("OS")
    <3>1. Refused
      BY <2>2 DEF ReturnError, SetError, Refused, Closes
    <3> QED BY <3>1 DEF Outcome
  <2> QED BY <1>2, <2>1, <2>2 DEF RefuseMultiplexing
<1>3. CASE GetValues
  <2>1. Asked
    BY <1>3 DEF GetValues, Recurse, Asked, Stays
  <2> QED BY <2>1 DEF Outcome
<1>4. CASE UnknownManagement
  <2>1. CASE ContinueFill
    <3>1. Plain
      BY <1>4, <2>1 DEF UnknownManagement, ContinueFill, Plain, Stays
    <3> QED BY <3>1 DEF Outcome
  <2>2. CASE ReturnError("OS")
    <3>1. Refused
      BY <1>4, <2>2 DEF UnknownManagement, ReturnError, SetError, Refused, Closes
    <3> QED BY <3>1 DEF Outcome
  <2> QED BY <1>4, <2>1, <2>2 DEF UnknownManagement
<1>5. CASE ForeignRecord
  <2>1. Skipped
    BY <1>5 DEF ForeignRecord, ContinueFill, Skipped, Stays
  <2> QED BY <2>1 DEF Outcome
<1>6. CASE UnexpectedType
  <2>1. Refused
    BY <1>6 DEF UnexpectedType, ReturnError, SetError, Refused, Closes
  <2> QED BY <2>1 DEF Outcome
<1>7. CASE StreamRecord
  <2>1. Streamed
    BY <1>7 DEF StreamRecord, ContinueFill, Streamed, Stays
  <2> QED BY <2>1 DEF Outcome
<1>8. CASE EndOfStream
  <2>1. Ended
    BY <1>8 DEF EndOfStream, Ended, Closes
  <2> QED BY <2>1 DEF Outcome
<1> QED BY <1>1, <1>2, <1>3, <1>4, <1>5, <1>6, <1>7, <1>8 DEF ProcessHeader

\* The step, with what is known before it.
Heading ==
    /\ Places /\ Known /\ SameConversation /\ KeepsRequest /\ Premises /\ Outcome
    /\ ~isClosed /\ Open /\ nested = "none" /\ type \in Streams /\ phase \in {"params", "app"}
    /\ phase = "params" => type = "PARAMS"
    /\ phase = "app" => type # "PARAMS"
    /\ phase' = phase /\ type' = type /\ got' = got /\ serverShut' = serverShut
    /\ wasFCloseCalled' = wasFCloseCalled /\ cleared' = cleared
    /\ Framed /\ Framed' /\ ~Stray /\ ~Stray' /\ Mark' > 0 /\ Mark' = rdNext'
    /\ begun \in Nat /\ Cur \in Nat /\ begun <= Cur /\ Cur' = Cur + 1 /\ Cur' \in 1..Len(script)
    /\ Header = script[Cur'] /\ contentLen' = Header.len /\ Header.len \in Nat
    /\ rdNext' \in 1..Len(wire) /\ rdNext <= rdNext' /\ wire[rdNext'] = <<Cur', HeaderLen>>
    /\ Header.len > 0 => rdNext' + 1 \in 1..Len(wire) /\ wire[rdNext' + 1] = <<Cur', HeaderLen + 1>>
    /\ \A t \in Streams : Seen(t, rdNext') = SeenOf(t)
    /\ skip /\ contentLen = 0 => Barren(rdNext)
    /\ Identified /\ InOrder /\ Delivered /\ Future /\ Past /\ Complete

LEMMA HeadingOf ==
    ASSUME Ready, ProcessHeader, ~UnsupportedVersion
    PROVE  Heading
<1>1. /\ Typed /\ Control /\ Tracked /\ Premises /\ Places /\ Known
      /\ type \in Streams /\ phase \in {"params", "app"} /\ InProgress
  BY ReadyFacts
<1>2. RecordPlace
  BY <1>1, ProcessHeaderTracked
<1>3. /\ HeaderPlace /\ Framed /\ Framed' /\ ~Stray'
      /\ Mark' = AfterHeader /\ Cur' = Cur + 1 /\ Cur' \in 1..Len(script)
      /\ Header = script[Cur'] /\ contentLen' = Header.len
      /\ wire[AfterHeader] = <<Cur', HeaderLen>> /\ Mark' > 0 /\ Advance
  BY <1>2 DEF RecordPlace
<1>4. /\ Within /\ ~isClosed /\ nested = "none" /\ pc = "fill" /\ SameConversation
      /\ contentLen = ContentPart /\ paddingLen = PaddingPart
      /\ AfterHeader \in 0..Len(wire)
  BY <1>3 DEF HeaderPlace
<1>5. ~BeginRequest
  BY <1>1 DEF BeginRequest, Control
<1>6. Outcome
  BY <1>4, <1>5, OutcomeOf
<1>7. FillKeeps /\ serverShut' = serverShut
  BY <1>1, ProcessHeaderKeeps
<1>8. AtHeader /\ KeepsRequest
  BY <1>4, <1>5, AtHeaderOf DEF KeepsRequest
<1>9. rdNext' = AfterHeader /\ Filling /\ (contentLen = 0 \/ skip) /\ headerLen + HeaderPart = HeaderLen
  BY <1>8 DEF AtHeader
<1>10. Open
  BY <1>4 DEF Open
<1>11. Identified /\ InOrder /\ Delivered /\ Future /\ Past /\ Complete /\ Skipping
  BY DEF Ready, Settled
<1>12. Mark > 0 /\ begun <= Cur
  BY <1>10, <1>11 DEF Identified
<1>13. ~Stray
  BY <1>1, <1>3, OneOfThem
<1>14. Cur \in Nat /\ begun \in Nat
  <2>1. Mark \in 1..Len(wire) /\ Cur = wire[Mark][1]
    BY <1>1, <1>12 DEF Places, Cur
  <2>2. begun \in {0} \cup DOMAIN script
    BY <1>1 DEF Typed, RequestOK
  <2> QED BY <1>1, <2>1, <2>2 DEF Places
<1>15. skip /\ contentLen = 0 => Barren(rdNext)
  BY <1>10, <1>11 DEF Skipping
<1>16. contentLen > 0 => \A t \in Streams : ~RecWanted(Cur, t)
  <2>1. contentLen > 0 => skip
    BY <1>4, <1>9 DEF Within
  <2> QED BY <1>10, <1>11, <2>1 DEF Skipping
<1>17. \A t \in Streams : Seen(t, rdNext') = SeenOf(t)
  BY <1>1, <1>3, <1>4, <1>9, <1>16, PassRest
<1>18. Header.len \in Nat
  <2>1. script[Cur'] \in Record
    BY <1>1, <1>3 DEF Places
  <2> QED BY <1>3, <2>1 DEF Record
<1>19. rdNext' \in 1..Len(wire) /\ rdNext <= rdNext'
  BY <1>3, <1>4, <1>9 DEF Within
<1>20. Header.len > 0 => rdNext' + 1 \in 1..Len(wire) /\ wire[rdNext' + 1] = <<Cur', HeaderLen + 1>>
  BY <1>3, <1>4, <1>9 DEF Advance
<1>21. /\ phase = "params" => type = "PARAMS"
       /\ phase = "app" => type # "PARAMS"
  BY <1>1 DEF Control
<1>22. /\ phase' = phase /\ type' = type /\ got' = got
       /\ wasFCloseCalled' = wasFCloseCalled /\ cleared' = cleared
  BY <1>7 DEF FillKeeps
<1>23. Mark' = rdNext' /\ wire[rdNext'] = <<Cur', HeaderLen>>
  BY <1>3, <1>9
<1> QED BY <1>1, <1>3, <1>4, <1>6, <1>7, <1>8, <1>10, <1>11, <1>12, <1>13, <1>14, <1>15, <1>17, <1>18,
           <1>19, <1>20, <1>21, <1>22, <1>23 DEF Heading

\* A record taken for one of the request's is of the stream that is read.
LEMMA TakenIsOfStream ==
    ASSUME Heading, OwnUpTo(Cur', Cur'), Open' \/ FCGI_errno' = "none"
    PROVE  Header.type = type
<1>1. script[Cur'].id = requestId /\ script[Cur'].type # "BEGIN" /\ Header = script[Cur']
  BY DEF OwnUpTo, Heading
<1>2. requestId # 0
  BY DEF Heading, Known, Begins
<1>3. ~Refused
  BY DEF Refused, Closes, Open
<1> QED BY <1>1, <1>2, <1>3 DEF Heading, Outcome, Asked, Skipped, Plain, Streamed, Ended

LEMMA OwnAtHeading ==
    ASSUME Heading, NEW k \in DOMAIN script, OwnUpTo(k, Cur')
    PROVE  k \in Nat /\ k <= Cur' /\ (k = Cur' \/ (k <= Cur /\ Own(k)))
<1>1. k \in Nat /\ Cur \in Nat /\ Cur' = Cur + 1 /\ k <= Cur'
  BY DEF Heading, Places, OwnUpTo
<1>2. k = Cur' \/ k <= Cur
  BY <1>1
<1> QED BY <1>1, <1>2 DEF Own, OwnUpTo

LEMMA HeadingInOrder ==
    ASSUME Heading
    PROVE  /\ phase' = "params" => \A k \in DOMAIN script :
                OwnUpTo(k, Cur') /\ (Open' \/ k < Cur') => script[k].type = "PARAMS"
           /\ phase' = "app" /\ ~Stray' /\ (Open' \/ (FCGI_errno' = "none" /\ Calm)) =>
                \A k, l \in DOMAIN script :
                   k < l /\ OwnUpTo(k, Cur') /\ OwnUpTo(l, Cur') => ~(script[k].type = "STDIN" /\ script[l].type = "PARAMS")
<1>1. ASSUME phase' = "params", NEW k \in DOMAIN script, OwnUpTo(k, Cur'), Open' \/ k < Cur'
      PROVE  script[k].type = "PARAMS"
  <2>1. CASE Own(k) /\ k <= Cur
    BY <1>1, <2>1 DEF Heading, InOrder
  <2>2. CASE k = Cur'
    <3>1. Open'
      BY <1>1, <2>2 DEF Heading
    <3>2. Header.type = type
      BY <1>1, <2>2, <3>1, TakenIsOfStream
    <3> QED BY <1>1, <2>2, <3>2 DEF Heading
  <2> QED BY <1>1, <2>1, <2>2, OwnAtHeading
<1>2. ASSUME phase' = "app", ~Stray', Open' \/ (FCGI_errno' = "none" /\ Calm),
             NEW k \in DOMAIN script, NEW l \in DOMAIN script, k < l, OwnUpTo(k, Cur'), OwnUpTo(l, Cur')
      PROVE  ~(script[k].type = "STDIN" /\ script[l].type = "PARAMS")
  <2>1. k \in Nat /\ l \in Nat /\ (l = Cur' \/ (l <= Cur /\ Own(l))) /\ (k = Cur' \/ (k <= Cur /\ Own(k))) /\ l <= Cur'
        /\ Cur' \in Nat
    BY <1>2, OwnAtHeading DEF Heading
  <2>2. Own(k)
    BY <1>2, <2>1
  <2>3. CASE Own(l)
    BY <1>2, <2>2, <2>3 DEF Heading, InOrder
  <2>4. CASE l = Cur'
    <3>1. Header.type = type
      BY <1>2, <2>4, TakenIsOfStream
    <3> QED BY <1>2, <2>4, <3>1 DEF Heading
  <2> QED BY <2>1, <2>3, <2>4
<1> QED BY <1>1, <1>2

LEMMA HeadingIdentified ==
    ASSUME Heading
    PROVE  Identified'
<1>1. Mark' > 0 /\ begun <= Cur'
  BY DEF Heading
<1>2. nested' = "values" => script[Cur'].id = 0
  BY DEF Heading, Outcome, Refused, Asked, Skipped, Plain, Streamed, Ended, Closes
<1>3. phase' = "params" => ~cleared' /\ ~wasFCloseCalled'
  BY DEF Heading, Identified
<1>4. KeepsRequest /\ Known
  BY DEF Heading
<1> QED BY <1>1, <1>2, <1>3, <1>4, IdentifiedNext

\* What comes behind this header and is wanted is content of a later record, or of this one.
LEMMA WantedBehind ==
    ASSUME Heading, NEW q \in rdNext'+1..Len(wire), NEW t \in Streams, Wanted(wire[q], t)
    PROVE  /\ wire[q][1] \in 1..Len(script) /\ Cur' <= wire[q][1] /\ begun < Cur'
           /\ ContentOf(script, begun, wire[q][1]) /\ script[wire[q][1]].type = t
           /\ Header.len = 0 => Cur' < wire[q][1]
           /\ begun \in DOMAIN script /\ Begins(script, begun) /\ script[begun].id = requestId
<1>1. rdNext' \in 1..Len(wire) /\ q \in rdNext'..Len(wire) /\ wire[rdNext'][1] = Cur' /\ Places /\ Known
  <2>1. Places /\ Known /\ wire[rdNext'][1] = Cur' /\ rdNext' \in 1..Len(wire)
    BY DEF Heading
  <2>2. Len(wire) \in Nat
    BY <2>1 DEF Places
  <2>3. q \in rdNext'..Len(wire)
    <3> DEFINE p == rdNext'
               n == Len(wire)
    <3>1. p \in 1..n /\ n \in Nat /\ q \in p+1..n
      BY <2>1, <2>2
    <3> HIDE DEF p, n
    <3>2. q \in p..n
      BY ONLY <3>1
    <3> QED BY <3>2 DEF p, n
  <2> QED BY <2>1, <2>3
<1>2. /\ wire[q][1] \in 1..Len(script) /\ wire[rdNext'][1] <= wire[q][1]
      /\ ContentOf(script, begun, wire[q][1]) /\ script[wire[q][1]].type = t
  <2> DEFINE p == rdNext'
  <2>1. p \in 1..Len(wire) /\ q \in p..Len(wire)
    BY <1>1
  <2> HIDE DEF p
  <2>2. wire[q][1] \in 1..Len(script) /\ wire[p][1] <= wire[q][1]
         /\ ContentOf(script, begun, wire[q][1]) /\ script[wire[q][1]].type = t
    BY <1>1, <2>1, WantedLater
  <2> QED BY <2>2 DEF p
<1>3. begun < Cur' /\ Cur' \in Nat /\ Len(script) \in Nat
  BY DEF Heading, Places
<1>4. Header.len = 0 => Cur' < wire[q][1]
  <2>1. script[wire[q][1]].len > 0
    BY <1>2 DEF ContentOf
  <2>2. Header.len = 0 => wire[q][1] # Cur'
    BY <2>1 DEF Heading
  <2> QED BY <1>1, <1>2, <1>3, <2>2
<1>5. begun \in DOMAIN script
  <2>1. begun \in Nat /\ begun > 0 /\ Cur' <= Len(script) /\ DOMAIN script = 1..Len(script)
    <3>1. begun \in Nat /\ Cur' <= Len(script)
      BY <1>3 DEF Heading
    <3>2. begun > 0
      BY <1>1, <3>1 DEF Known
    <3>3. DOMAIN script = 1..Len(script)
      BY <1>1 DEF Places
    <3> QED BY <3>1, <3>2, <3>3
  <2> QED BY ONLY <2>1, <1>3
<1> QED BY <1>1, <1>2, <1>3, <1>4, <1>5 DEF Known

LEMMA HeadingSkipping ==
    ASSUME Heading
    PROVE  Skipping'
<1>1. SUFFICES ASSUME skip'
               PROVE  IF Header.len > 0 THEN \A t \in Streams : ~RecWanted(Cur', t) ELSE Barren(rdNext')
  BY SkippingNext DEF Heading
<1>2. CASE KeepSkip
  <2>1. Barren(rdNext)
    BY <1>1, <1>2 DEF KeepSkip, Heading
  <2>2. rdNext \in Nat /\ rdNext' \in Nat /\ rdNext <= rdNext' /\ Len(wire) \in Nat
    BY DEF Heading, Places
  <2>3. Barren(rdNext')
    BY <2>1, <2>2, BarrenLater
  <2>4. ASSUME Header.len > 0, NEW t \in Streams PROVE ~RecWanted(Cur', t)
    <3>1. rdNext' + 1 \in rdNext'+1..Len(wire) /\ wire[rdNext' + 1] = <<Cur', HeaderLen + 1>>
      BY <2>2, <2>4 DEF Heading
    <3>2. ~Wanted(wire[rdNext' + 1], t)
      BY <2>3, <3>1 DEF Barren
    <3>3. IsContent(<<Cur', HeaderLen + 1>>)
      <4>1. HeaderLen + 1 > HeaderLen /\ HeaderLen + 1 <= HeaderLen + script[Cur'].len
        BY <2>4, SizesAssumption DEF Heading
      <4> QED BY <4>1 DEF IsContent
    <3> QED BY <3>1, <3>2, <3>3, WantedIs DEF Heading, Known
  <2> QED BY <2>3, <2>4
<1>3. CASE Skipped
  <2>1. requestId # 0 /\ Header = script[Cur']
    BY DEF Heading, Known, Begins
  <2>2. \A t \in Streams : ~RecWanted(Cur', t)
    BY <1>3, <2>1 DEF Skipped, RecWanted, Streams
  <2>3. ASSUME ~(Header.len > 0) PROVE Barren(rdNext')
    <3>1. Header.len = 0 /\ Header.type # "BEGIN" /\ Header.id # 0 /\ Header.id # requestId
      BY <1>3, <2>3 DEF Skipped, Heading
    <3> SUFFICES ASSUME NEW q \in rdNext'+1..Len(wire), NEW t \in Streams, Wanted(wire[q], t) PROVE FALSE
      BY DEF Barren
    <3> DEFINE i == Cur'
               j == wire[q][1]
    <3>2. /\ j \in DOMAIN script /\ i \in DOMAIN script /\ begun \in DOMAIN script
          /\ begun < i /\ i < j /\ Begins(script, begun) /\ ContentOf(script, begun, j)
          /\ script[begun].id = requestId
      BY <3>1, WantedBehind DEF Heading, Places
    <3>3. NoEmptyForeign(script)
      BY DEF Heading, Premises, Places, Conforming
    <3>4. script[i].type # "BEGIN" /\ script[i].id # 0 /\ script[i].len = 0 /\ script[i].id # requestId
      BY <2>1, <3>1
    <3> HIDE DEF i, j
    <3> QED BY <3>2, <3>3, <3>4 DEF NoEmptyForeign
  <2> QED BY <2>2, <2>3
<1> QED BY <1>1, <1>2, <1>3 DEF Heading, Outcome, Refused, Asked, Plain, Streamed, Ended

\* The content of a record of the stream is that of the request.
LEMMA StreamedIsWanted ==
    ASSUME Heading, Streamed, Header.len > 0
    PROVE  RecWanted(Cur', type)
<1>1. script[Cur'].type = type /\ script[Cur'].id = requestId /\ type \in Streams /\ script[Cur'].len > 0
  BY DEF Heading, Streamed
<1>2. SUFFICES ASSUME script[Cur'].req # script[begun].req PROVE FALSE
  BY <1>1 DEF RecWanted
<1>3. RequestsFollow(script) /\ begun < Cur' /\ begun \in Nat /\ Cur' \in 1..Len(script) /\ Len(script) \in Nat
  BY DEF Heading, Premises, Places, Conforming
<1>4. Begins(script, begun) /\ script[begun].id = requestId /\ begun # 0
  BY DEF Heading, Known
<1>5. begun \in DOMAIN script /\ Cur' \in DOMAIN script /\ DOMAIN script = 1..Len(script)
  BY <1>3, <1>4 DEF Heading, Places
<1>6. PICK k \in begun+1..Cur', l \in begun+1..Cur' :
          /\ k < l /\ script[k].id = script[begun].id /\ script[l].id = script[begun].id
          /\ script[k].type = "STDIN" /\ script[l].type = "PARAMS"
  <2> DEFINE j == Cur'
  <2>1. /\ begun < j /\ Begins(script, begun) /\ script[j].type \in Streams /\ script[j].len > 0
        /\ script[j].id = script[begun].id /\ script[j].req # script[begun].req
        /\ j \in DOMAIN script /\ begun \in DOMAIN script
    BY <1>1, <1>2, <1>3, <1>4, <1>5
  <2> HIDE DEF j
  <2>2. \E k, l \in begun+1..j : /\ k < l /\ script[k].id = script[begun].id /\ script[l].id = script[begun].id
                                 /\ script[k].type = "STDIN" /\ script[l].type = "PARAMS"
    BY <1>3, <2>1 DEF RequestsFollow
  <2> QED BY <2>2 DEF j
<1>7. k \in DOMAIN script /\ l \in DOMAIN script /\ OwnUpTo(k, Cur') /\ OwnUpTo(l, Cur')
  BY <1>3, <1>4, <1>5, <1>6 DEF OwnUpTo
<1>8. Open' /\ phase' \in {"params", "app"} /\ ~Stray'
  BY DEF Heading, Streamed, Stays, Open
<1> QED BY <1>6, <1>7, <1>8, HeadingInOrder

LEMMA HeadingHanded ==
    ASSUME Heading
    PROVE  Handed'
<1>1. ~(pc' = "use" /\ ~isClosed')
  BY DEF Heading, Outcome, Refused, Asked, Skipped, Plain, Streamed, Ended, Closes, Stays
<1>2. ASSUME Open', contentLen' > 0, ~skip', nested' = "none" PROVE RecWanted(Cur', type')
  <2>1. ~isClosed' /\ Header.len > 0 /\ type' = type
    BY <1>2 DEF Open, Heading
  <2>2. ~Plain
    <3>1. PlainManagement(script) /\ Cur' \in DOMAIN script /\ Header = script[Cur']
      BY DEF Heading, Premises, Places, Conforming
    <3> QED BY <2>1, <3>1 DEF Plain, PlainManagement
  <2>3. Streamed
    BY <1>2, <2>1, <2>2 DEF Heading, Outcome, Refused, Asked, Skipped, Ended, Closes
  <2> QED BY <2>1, <2>3, StreamedIsWanted
<1>3. KeepsRequest
  BY DEF Heading
<1> QED BY <1>1, <1>2, <1>3, HandedNext

LEMMA HeadingComplete ==
    ASSUME Heading
    PROVE  Complete'
<1>1. FCGI_errno' = "none" => FCGI_errno = "none"
  BY DEF Heading, Outcome, Refused, Asked, Skipped, Plain, Streamed, Ended, Stays
<1>2. Untroubled' => Untroubled
  BY <1>1 DEF Heading, Untroubled
<1>3. phase' = "app" /\ Untroubled' => got'["PARAMS"] = Expected("PARAMS")
  BY <1>2 DEF Heading, Complete
<1>4. ASSUME ~Open', Untroubled' PROVE got'[type'] = Expected(type')
  <2>1. Ended
    BY <1>4 DEF Heading, Outcome, Refused, Asked, Skipped, Plain, Streamed, Stays, Open, Untroubled
  <2>2. got'[type'] = Seen(type, rdNext') /\ type' = type
    BY DEF Heading, Delivered
  <2>3. ASSUME NEW q \in rdNext'+1..Len(wire), Wanted(wire[q], type) PROVE FALSE
    <3> DEFINE i == Cur'
               j == wire[q][1]
    <3>1. Header.len = 0 /\ type \in Streams /\ Header = script[i] /\ script[i].type = type /\ script[i].id = requestId
      BY <2>1 DEF Ended, Heading
    <3>2. /\ j \in DOMAIN script /\ i \in DOMAIN script /\ begun \in DOMAIN script
          /\ begun < i /\ i < j /\ Begins(script, begun) /\ ContentOf(script, begun, j)
          /\ script[begun].id = requestId /\ script[j].type = type
      BY <2>3, <3>1, WantedBehind DEF Heading, Places
    <3>3. NothingBehindEnd(script)
      BY DEF Heading, Premises, Places, Conforming
    <3>4. script[i].len = 0
      BY <3>1
    <3> HIDE DEF i, j
    <3> QED BY <3>1, <3>2, <3>3, <3>4 DEF NothingBehindEnd
  <2>4. Seen(type, rdNext') = Expected(type)
    <3> DEFINE p == rdNext'
    <3>0. \A q \in p+1..Len(wire) : ~Wanted(wire[q], type)
      BY <2>3
    <3>2. Places
      BY DEF Heading
    <3>1. p \in Nat /\ p <= Len(wire)
      BY <3>2 DEF Heading, Places
    <3> HIDE DEF p
    <3>3. Seen(type, p) = Expected(type)
      BY <3>0, <3>1, <3>2, SeenAll
    <3> QED BY <3>3 DEF p
  <2> QED BY <2>2, <2>4
<1>5. KeepsRequest
  BY DEF Heading
<1> QED BY <1>3, <1>4, <1>5, CompleteNext

LEMMA RecordServing ==
    ASSUME Ready, ProcessHeader, ~UnsupportedVersion
    PROVE  Settled'
<1>0. Heading
  BY HeadingOf
<1>1. KeepsRequest /\ type' = type /\ got' = got /\ phase' = phase /\ type \in Streams
      /\ Delivered /\ Future /\ Past /\ Open /\ ~Stray /\ ~Stray'
      /\ (\A t \in Streams : Seen(t, rdNext') = SeenOf(t))
  BY <1>0 DEF Heading
<1>2. got[type] = Seen(type, rdNext')
  BY <1>1 DEF Delivered
<1>3. Delivered'
  BY <1>1, <1>2, DeliveredNext
<1>4. FCGI_errno' = "none" => FCGI_errno = "none"
  BY <1>0 DEF Heading, Outcome, Refused, Asked, Skipped, Plain, Streamed, Ended, Stays
<1>5. Future'
  BY <1>1, <1>4, FutureNext DEF Future, Streams
<1>6. Past'
  BY <1>1, PastNext DEF Past
<1>7. InOrder'
  BY <1>0, <1>1, HeadingInOrder, InOrderNext
<1> QED BY <1>0, <1>3, <1>5, <1>6, <1>7, HeadingIdentified, HeadingSkipping, HeadingHanded, HeadingComplete
        DEF Settled

\* A header of which no sense can be made.
LEMMA UnsupportedVersionServing ==
    ASSUME Ready, UnsupportedVersion
    PROVE  Settled'
<1>1. /\ Typed /\ Control /\ Tracked /\ Places /\ Known /\ type \in Streams /\ phase \in {"params", "app"} /\ InProgress
      /\ Identified /\ InOrder /\ Delivered /\ Future /\ Past /\ Complete /\ Skipping
  BY ReadyFacts DEF Ready, Settled
<1>2. Stray /\ HeaderPlace /\ Mark' = AfterHeader
  BY <1>1, UnsupportedVersionTracked
<1>3. /\ Places /\ Within /\ ~isClosed /\ nested = "none" /\ pc = "fill" /\ SameConversation /\ contentLen = ContentPart
      /\ AfterHeader \in 0..Len(wire)
  BY <1>2 DEF HeaderPlace
<1>4. KeepsRequest
  BY <1>3 DEF UnsupportedVersion, request, KeepsRequest
<1>5. /\ isClosed' /\ FCGI_errno' # "none" /\ nested' = nested /\ pc' = "use" /\ contentLen' = 0 /\ KeepSkip
      /\ rdNext' = AfterHeader /\ type' = type /\ phase' = phase /\ got' = got
      /\ wasFCloseCalled' = wasFCloseCalled /\ cleared' = cleared
  BY DEF UnsupportedVersion, ReturnError, SetError, AtHeader, calls
<1>6. Open /\ ~Open'
  BY <1>3, <1>5 DEF Open
<1>7. phase = "app"
  <2>1. ~Framed
    BY <1>1, <1>2, OneOfThem
  <2> QED BY <1>1, <1>6, <2>1 DEF Tracked
<1>8. Mark > 0 /\ begun <= Cur
  BY <1>1, <1>6 DEF Identified
<1>9. Mark \in 1..Len(wire) /\ Mark' \in 1..Len(wire) /\ Mark <= Mark' /\ rdNext \in Nat /\ rdNext' \in Nat /\ rdNext <= rdNext'
      /\ Len(wire) \in Nat
  <2>1. Mark = rdNext - headerLen
    BY <1>1, <1>3 DEF Places
  <2> QED BY <1>2, <1>3, <1>5, <1>8, <2>1 DEF Within, Places
<1>10. begun <= Cur'
  <2>1. Cur = wire[Mark][1] /\ Cur' = wire[Mark'][1]
    BY <1>4, <1>9 DEF Cur, KeepsRequest, SameConversation
  <2>2. wire[Mark][1] <= wire[Mark'][1]
    <3>1. script \in Seq(Record) /\ Shape(script, wire)
      BY <1>3 DEF Places
    <3> QED BY ONLY <1>9, <3>1, CellsInOrder
  <2>3. wire[Mark][1] \in Nat /\ wire[Mark'][1] \in Nat /\ begun \in Nat
    <3>1. begun \in Nat
      BY <1>1 DEF Typed, RequestOK, Places
    <3> QED BY <1>3, <1>9, <3>1 DEF Places
  <2> QED BY <1>8, <2>1, <2>2, <2>3
<1>11. Identified'
  BY <1>1, <1>3, <1>4, <1>5, <1>7, <1>9, <1>10, IdentifiedNext
<1>12. InOrder'
  BY <1>4, <1>5, <1>6, <1>7, InOrderNext
<1>13. Skipping'
  <2>1. ASSUME skip' PROVE Barren(rdNext')
    <3>0. skip /\ contentLen = 0
      BY <1>5, <2>1 DEF KeepSkip
    <3>1. Barren(rdNext)
      BY <1>1, <1>6, <3>0 DEF Skipping
    <3> QED BY <1>9, <3>1, BarrenLater
  <2> QED BY <1>4, <1>5, <2>1, SkippingNext
<1>14. Handed'
  BY <1>4, <1>5, <1>6, HandedNext
<1>15. Delivered'
  <2>1. got'[type'] = <<>>
    BY <1>1, <1>2, <1>5, <1>6 DEF Delivered
  <2> QED BY <1>4, <1>6, <2>1, DeliveredNext
<1>16. Future'
  BY <1>1, <1>4, <1>5, <1>7, FutureNext DEF Future
<1>17. Past'
  BY <1>1, <1>4, <1>5, PastNext DEF Past
<1>18. Complete'
  <2>1. ~Untroubled'
    BY <1>5 DEF Untroubled
  <2> QED BY <1>4, <2>1, CompleteNext
<1> QED BY <1>11, <1>12, <1>13, <1>14, <1>15, <1>16, <1>17, <1>18 DEF Settled

LEMMA ProcessHeaderServing ==
    ASSUME Ready, ProcessHeader
    PROVE  Settled'
BY UnsupportedVersionServing, RecordServing

-----------------------------------------------------------------------------
(* The recursive reads while a request is read.                            *)

LEMMA NestedReadServing ==
    ASSUME Ready, NestedRead
    PROVE  Settled'
<1>1. /\ Typed /\ Control /\ Tracked /\ Places /\ Known /\ type \in Streams /\ phase \in {"params", "app"}
      /\ Identified /\ InOrder /\ Delivered /\ Future /\ Past /\ Complete /\ Skipping /\ Handed
  BY ReadyFacts DEF Ready, Settled
<1>2. /\ SameConversation /\ Mark' = Mark /\ Cur' = Cur
      /\ Framed /\ Framed' /\ contentLen' = contentLen /\ paddingLen' = paddingLen
  BY <1>1, NestedReadTracked
<1>3. /\ phase' = phase /\ type' = type /\ got' = got /\ nested # "none"
      /\ wasFCloseCalled' = wasFCloseCalled /\ cleared' = cleared
      /\ KeepsRequest /\ serverShut' = serverShut
  BY <1>2, NestedReadKeeps DEF KeepsRequest
<1>4. nested = "values" /\ pc = "use" /\ (ValuesPart \/ ValuesDone \/ ValuesCut)
  <2>1. nested # "begin"
    BY <1>1 DEF Control
  <2>2. nested = "values"
    BY <1>1, <1>3, <2>1 DEF Typed, ControlOK
  <2> QED BY <2>2 DEF NestedRead, BeginBodyPart, BeginBodyDone, BeginBodyCut, ValuesPart, ValuesDone, ValuesCut, Reading
<1>5. Open /\ Mark > 0 /\ begun <= Cur
  BY <1>1, <1>3 DEF Open, Identified
<1>6. ~Stray /\ ~Stray' /\ (Stray' <=> Stray)
  <2>1. Mark \in 0..Len(wire)
    BY <1>1 DEF Places
  <2>2. ~(Framed /\ Stray) /\ ~(Framed' /\ Stray')
    BY <1>1, <1>2, <2>1, OneOfThem, OneOfThemNext
  <2> QED BY <1>2, <2>2
<1>7. CASE ValuesPart
  <2>1. /\ ~isClosed /\ rdNext' = stop /\ pc' = "fill" /\ nested' = nested
        /\ FCGI_errno' = FCGI_errno /\ skip' = skip
    BY <1>7 DEF ValuesPart, status, record
  <2>2. Open'
    BY <1>3, <2>1 DEF Open
  <2>3. ~skip' /\ rdNext <= stop
    BY <1>1, <1>4, <2>1 DEF Control
  <2>4. ASSUME NEW t \in Streams PROVE Seen(t, rdNext') = SeenOf(t)
    <3>1. \A q \in rdNext+1..stop : ~Wanted(wire[q], t)
      BY <1>1, <1>4, <2>1 DEF Handed
    <3>2. rdNext \in Nat /\ stop \in Nat /\ stop <= Len(wire)
      BY <1>1 DEF Places
    <3>3. Seen(t, stop) = Seen(t, rdNext)
      BY <1>1, <2>3, <3>1, <3>2, SeenSkips
    <3> QED BY <2>1, <3>3 DEF SeenOf
  <2>5. Handed'
    BY <1>3, <2>1, HandedNext
  <2> QED BY <1>2, <1>3, <1>5, <1>6, <2>1, <2>2, <2>3, <2>4, <2>5, MovesOn
<1>8. CASE ValuesDone
  <2>1. /\ rdNext' = rdNext /\ pc' = "fill" /\ nested' = "none" /\ isClosed' = FALSE /\ contentLen = 0
        /\ FCGI_errno' = FCGI_errno /\ skip' = skip
    BY <1>8 DEF ValuesDone, ValuesComplete, ptrs
  <2>2. Open'
    BY <2>1 DEF Open
  <2>3. skip' => Barren(rdNext')
    BY <1>1, <1>5, <2>1 DEF Skipping
  <2>4. \A t \in Streams : Seen(t, rdNext') = SeenOf(t)
    BY <2>1 DEF SeenOf
  <2>5. Handed'
    BY <1>2, <1>3, <2>1, HandedNext
  <2>6. ~isClosed' /\ contentLen' = 0
    BY <1>2, <2>1
  <2>7. Identified'
    BY <1>1, <1>2, <1>3, <1>5, <2>1, IdentifiedNext DEF Identified
  <2>8. InOrder'
    BY <1>1, <1>2, <1>3, <1>5, <1>6, <2>2, InOrderNext DEF InOrder, Own
  <2>9. Skipping'
    BY <1>3, <2>3, <2>6, SkippingNext
  <2>10. Delivered'
    BY <1>1, <1>3, <1>5, <1>6, <2>1, <2>2, DeliveredNext DEF Delivered, SeenOf
  <2>11. Future'
    BY <1>1, <1>3, <2>1, FutureNext DEF Future, SeenOf
  <2>12. Past'
    BY <1>1, <1>3, PastNext DEF Past
  <2>13. Complete'
    <3>1. Untroubled' => Untroubled
      BY <1>3, <2>1 DEF Untroubled
    <3> QED BY <1>1, <1>3, <2>2, <3>1, CompleteNext DEF Complete
  <2> QED BY <2>5, <2>7, <2>8, <2>9, <2>10, <2>11, <2>12, <2>13 DEF Settled
<1>9. CASE ValuesCut
  <2>1. /\ rdNext' = rdNext /\ nested' = "none" /\ isClosed' /\ FCGI_errno' # "none" /\ skip' = skip
    BY <1>9 DEF ValuesCut, NestedError, SetError, ptrs
  <2>2. ~Open'
    BY <2>1 DEF Open
  <2>3. Identified'
    BY <1>1, <1>2, <1>3, <1>5, <2>1, IdentifiedNext DEF Identified
  <2>4. InOrder'
    BY <1>1, <1>2, <1>3, <1>5, <2>1, <2>2, InOrderNext DEF InOrder, Own
  <2>5. Skipping'
    BY <1>1, <1>2, <1>3, <1>5, <2>1, SkippingNext DEF Skipping
  <2>6. Handed'
    BY <1>3, <2>1, <2>2, HandedNext
  <2>7. Delivered'
    BY <1>1, <1>3, <1>5, <1>6, <2>1, <2>2, DeliveredNext DEF Delivered, SeenOf
  <2>8. Future'
    BY <1>1, <1>3, <2>1, FutureNext DEF Future, SeenOf
  <2>9. Past'
    BY <1>1, <1>3, PastNext DEF Past
  <2>10. Complete'
    <3>1. ~Untroubled'
      BY <2>1 DEF Untroubled
    <3> QED BY <1>3, <3>1, CompleteNext
  <2> QED BY <2>3, <2>4, <2>5, <2>6, <2>7, <2>8, <2>9, <2>10 DEF Settled
<1> QED BY <1>4, <1>7, <1>8, <1>9

-----------------------------------------------------------------------------
(* FCGX_Accept_r.                                                          *)

LEMMA BeginDoneServing ==
    ASSUME Typed, Control, Tracked, Beginning, Premises, BeginDone
    PROVE  Settled'
<1>1. /\ Tracked' /\ SameConversation /\ rdNext = stop /\ rdNext' = rdNext
      /\ Mark' = Mark /\ Mark = rdNext /\ Cur' = Cur /\ Framed /\ Framed'
  BY BeginDoneTracked
<1>2. Places
  BY PlacesOK
<1>3. InProgress /\ phase = "begin" /\ isBeginProcessed /\ nested = "none"
  BY DEF BeginDone, InAccept, Reading, InProgress
<1>4. FCGI_errno = "none" /\ begun # 0 /\ Mark > 0 /\ Cur = begun /\ Begins(script, begun) /\ script[begun].id = requestId
  BY <1>3 DEF Beginning, BeginKnown
<1>5. got = [t \in Streams |-> <<>>] /\ ~wasFCloseCalled /\ ~cleared
  BY <1>3 DEF Beginning, Unserved
<1>6. /\ type' = "PARAMS" /\ skip' = FALSE /\ contentLen' = 0 /\ isClosed' = FALSE /\ FCGI_errno' = FCGI_errno
      /\ phase' = "params" /\ pc' = "fill" /\ nested' = nested /\ got' = got
      /\ wasFCloseCalled' = wasFCloseCalled /\ cleared' = cleared /\ KeepsRequest
  BY <1>1 DEF BeginDone, SetReaderType, calls, request, KeepsRequest
<1>7. Open' /\ Known
  BY <1>4, <1>6 DEF Open, Known
<1>8. got'["PARAMS"] = <<>> /\ got'["STDIN"] = <<>> /\ got'["DATA"] = <<>>
  BY <1>5, <1>6 DEF Streams
<1>9. Mark \in 1..Len(wire) /\ wire[Mark][1] = begun /\ rdNext \in 1..Len(wire) /\ wire[rdNext][1] = begun
  <2>1. Mark \in 1..Len(wire)
    BY <1>2, <1>4 DEF Places
  <2> QED BY <1>1, <1>4, <2>1 DEF Cur
<1>10. ASSUME NEW t \in Streams PROVE Seen(t, rdNext') = <<>>
  <2>1. ASSUME NEW q \in 1..rdNext, Wanted(wire[q], t) PROVE FALSE
    <3>1. q \in 1..Len(wire) /\ q <= rdNext
      BY <1>2 DEF Places
    <3>2. ContentOf(script, begun, wire[q][1]) /\ wire[q][1] \in 1..Len(script)
      <4>1. q \in q..Len(wire)
        BY <1>2, <3>1 DEF Places
      <4> QED BY <1>2, <1>7, <2>1, <3>1, <4>1, WantedLater
    <3>3. wire[q][1] <= wire[rdNext][1]
      <4>1. script \in Seq(Record) /\ Shape(script, wire)
        BY <1>2 DEF Places
      <4> QED BY ONLY <1>9, <3>1, <4>1, CellsInOrder
    <3>4. ContentBehindBegin(script) /\ begun \in DOMAIN script
      <4>1. begun \in 1..Len(script)
        BY <1>2, <1>9 DEF Places
      <4> QED BY <1>2, <4>1 DEF Premises, Conforming, Places
    <3>5. begun \in Nat /\ wire[q][1] \in 1..begun
      BY <1>2, <1>9, <3>2, <3>3 DEF Places
    <3> QED BY <1>4, <3>2, <3>4, <3>5 DEF ContentBehindBegin
  <2>2. Seen(t, rdNext) = <<>>
    <3>1. rdNext \in Nat /\ rdNext <= Len(wire)
      BY <1>2, <1>9 DEF Places
    <3> QED BY <1>2, <2>1, <3>1, SeenNothing
  <2> QED BY <1>1, <2>2
<1>11. Seen("PARAMS", rdNext') = <<>> /\ Seen("STDIN", rdNext') = <<>> /\ Seen("DATA", rdNext') = <<>>
  BY <1>10 DEF Streams
<1>12. Identified'
  <2>1. Mark' > 0 /\ begun <= Cur'
    <3>1. begun \in Nat
      BY <1>2, <1>9 DEF Places
    <3> QED BY <1>1, <1>4, <3>1
  <2> QED BY <1>3, <1>5, <1>6, <1>7, <2>1, IdentifiedNext
<1>13. InOrder'
  <2>1. \A k \in DOMAIN script : ~OwnUpTo(k, Cur')
    BY <1>1, <1>2, <1>4, <1>9 DEF OwnUpTo, Places
  <2> QED BY <1>6, <2>1, InOrderNext
<1>14. Skipping'
  BY <1>6, SkippingNext
<1>15. Handed'
  BY <1>6, HandedNext
<1>16. Delivered'
  BY <1>6, <1>7, <1>8, <1>11, DeliveredNext
<1>17. Future'
  BY <1>6, <1>8, <1>11, FutureNext
<1>18. Past'
  BY <1>6, PastNext
<1>19. Complete'
  BY <1>6, <1>7, CompleteNext
<1> QED BY <1>12, <1>13, <1>14, <1>15, <1>16, <1>17, <1>18, <1>19 DEF Settled

\* The consumer takes some of what was handed out.
LEMMA TakesBytes ==
    ASSUME Ready, pc = "use", nested = "none", ~isClosed, ~Stray, NEW m \in 0..Available, Deliver(m),
           KeepsRequest, Mark' = Mark, Cur' = Cur, Stray' <=> Stray,
           nested' = nested, phase' = phase, type' = type, isClosed' = isClosed, contentLen' = contentLen,
           skip' = skip, stop' = stop, stopUnget' = stopUnget,
           FCGI_errno' = FCGI_errno, serverShut' = serverShut,
           wasFCloseCalled' = wasFCloseCalled, cleared' = cleared,
           pc' = "use" => m > 0
    PROVE  Settled'
<1>1. /\ Typed /\ Control /\ Places /\ Known /\ type \in Streams
      /\ Identified /\ InOrder /\ Delivered /\ Future /\ Past /\ Complete /\ Skipping /\ Handed
  BY ReadyFacts DEF Ready, Settled
<1>2. Open /\ Open'
  BY DEF Open
<1>3. ~skip /\ rdNext <= stop /\ stopUnget <= rdNext
  BY <1>1 DEF Control
<1>4. /\ rdNext \in Nat /\ stop \in Nat /\ stopUnget \in Nat /\ stop <= Len(wire) /\ Len(wire) \in Nat
      /\ m \in Nat /\ rdNext + m \in Nat /\ rdNext <= rdNext + m /\ rdNext + m <= stop /\ rdNext + m <= Len(wire)
  <2>1. rdNext \in Nat /\ stop \in Nat /\ stopUnget \in Nat /\ stop <= Len(wire) /\ Len(wire) \in Nat
    BY <1>1 DEF Places
  <2>2. m \in Nat /\ m <= stop - rdNext
    BY <2>1 DEF Available
  <2> QED BY <2>1, <2>2
<1>5. rdNext' = rdNext + m /\ got' = [got EXCEPT ![type] = @ \o SubSeq(wire, rdNext + 1, rdNext + m)]
  BY DEF Deliver
<1>6. m > 0 => \A q \in stopUnget+1..stop : Wanted(wire[q], type)
  <2>1. m > 0 => stop # rdNext
    BY <1>4
  <2> QED BY <1>1, <2>1 DEF Handed
<1>7. \A q \in rdNext+1..rdNext+m : Wanted(wire[q], type)
  <2> SUFFICES ASSUME NEW q \in rdNext+1..rdNext+m PROVE Wanted(wire[q], type)
    OBVIOUS
  <2>1. m > 0 /\ q \in stopUnget+1..stop
    BY <1>3, <1>4
  <2> QED BY <1>6, <2>1
<1>8. got \in [Streams -> Seq(Nat \X Nat)]
  BY <1>1 DEF Typed, CallsOK
<1>9. got'[type] = Seen(type, rdNext')
  <2>1. got'[type] = got[type] \o SubSeq(wire, rdNext + 1, rdNext + m)
    BY <1>1, <1>5, <1>8
  <2>2. got[type] = Seen(type, rdNext)
    BY <1>1, <1>2 DEF Delivered, SeenOf
  <2>3. Seen(type, rdNext + m) = Seen(type, rdNext) \o SubSeq(wire, rdNext + 1, rdNext + m)
    <3> DEFINE b == rdNext + m
    <3>1. b \in Nat /\ rdNext <= b /\ b <= Len(wire) /\ \A q \in rdNext+1..b : Wanted(wire[q], type)
      BY <1>4, <1>7
    <3> HIDE DEF b
    <3>2. Seen(type, b) = Seen(type, rdNext) \o SubSeq(wire, rdNext + 1, b)
      BY <1>1, <1>4, <3>1, SeenTakes
    <3> QED BY <3>2 DEF b
  <2> QED BY <1>5, <2>1, <2>2, <2>3
<1>10. ASSUME NEW t \in Streams, t # type PROVE got'[t] = got[t] /\ Seen(t, rdNext') = SeenOf(t)
  <2>1. got'[t] = got[t]
    BY <1>5, <1>8, <1>10
  <2>2. \A q \in rdNext+1..rdNext+m : ~Wanted(wire[q], t)
    BY <1>7, <1>10, OneWants
  <2>3. Seen(t, rdNext + m) = Seen(t, rdNext)
    <3> DEFINE b == rdNext + m
    <3>1. b \in Nat /\ rdNext <= b /\ b <= Len(wire) /\ \A q \in rdNext+1..b : ~Wanted(wire[q], t)
      BY <1>4, <2>2
    <3> HIDE DEF b
    <3>2. Seen(t, b) = Seen(t, rdNext)
      BY <1>1, <1>4, <3>1, SeenSkips
    <3> QED BY <3>2 DEF b
  <2> QED BY <1>5, <2>1, <2>3 DEF SeenOf
<1>11. Identified'
  BY <1>1, <1>2, IdentifiedNext DEF Identified
<1>12. InOrder'
  BY <1>1, <1>2, InOrderNext DEF InOrder, Own
<1>13. Skipping'
  BY <1>3, SkippingNext
<1>14. Handed'
  <2>1. Open' /\ contentLen' > 0 /\ ~skip' /\ nested' = "none" => RecWanted(Cur', type')
    BY <1>1, <1>2 DEF Handed
  <2>2. pc' = "use" => \A q \in stopUnget'+1..stop' : Wanted(wire[q], type')
    BY <1>6
  <2> QED BY <2>1, <2>2, HandedNext
<1>15. Delivered'
  BY <1>2, <1>9, DeliveredNext
<1>16. Future'
  <2>1. phase' = "params" => type = "PARAMS"
    BY <1>1 DEF Control
  <2>2. phase' = "params" => /\ got'["STDIN"] = <<>> /\ got'["DATA"] = <<>>
                             /\ Seen("STDIN", rdNext') = <<>> /\ Seen("DATA", rdNext') = <<>>
    <3> SUFFICES ASSUME phase' = "params"
                 PROVE  /\ got'["STDIN"] = <<>> /\ got'["DATA"] = <<>>
                        /\ Seen("STDIN", rdNext') = <<>> /\ Seen("DATA", rdNext') = <<>>
      OBVIOUS
    <3>1. "STDIN" \in Streams /\ "DATA" \in Streams /\ "STDIN" # type /\ "DATA" # type /\ phase = "params"
      BY <2>1 DEF Streams
    <3>2. /\ got'["STDIN"] = got["STDIN"] /\ got'["DATA"] = got["DATA"]
          /\ Seen("STDIN", rdNext') = SeenOf("STDIN") /\ Seen("DATA", rdNext') = SeenOf("DATA")
      BY <1>10, <3>1
    <3> QED BY <1>1, <3>1, <3>2 DEF Future
  <2>3. type' = "STDIN" => /\ got'["DATA"] = <<>>
                           /\ FCGI_errno' = "none" /\ Calm => Seen("DATA", rdNext') = <<>>
    <3> SUFFICES ASSUME type = "STDIN"
                 PROVE  got'["DATA"] = <<>> /\ (FCGI_errno = "none" /\ Calm => Seen("DATA", rdNext') = <<>>)
      OBVIOUS
    <3>1. got'["DATA"] = got["DATA"] /\ Seen("DATA", rdNext') = SeenOf("DATA")
      BY <1>10 DEF Streams
    <3> QED BY <1>1, <3>1 DEF Future
  <2> QED BY <2>2, <2>3, FutureNext
<1>17. phase = "app" => got'["PARAMS"] = got["PARAMS"]
  BY <1>1, <1>10 DEF Control, Streams
<1>18. type = "DATA" => got'["STDIN"] = got["STDIN"]
  BY <1>10 DEF Streams
<1>19. Past'
  BY <1>1, <1>17, <1>18, PastNext DEF Past
<1>20. Complete'
  <2>1. Untroubled' <=> Untroubled
    BY DEF Untroubled
  <2> QED BY <1>1, <1>2, <1>17, <2>1, CompleteNext DEF Complete
<1> QED BY <1>11, <1>12, <1>13, <1>14, <1>15, <1>16, <1>19, <1>20 DEF Settled

LEMMA ParamsPartServing ==
    ASSUME Ready, ParamsPart
    PROVE  Settled'
<1>1. Typed /\ Control /\ Tracked /\ Places
  BY ReadyFacts
<1>2. /\ SameConversation /\ rdNext' = stop /\ Mark' = Mark /\ Cur' = Cur /\ Framed /\ Framed'
  BY <1>1, ParamsPartTracked
<1>3. /\ pc = "use" /\ nested = "none" /\ ~isClosed /\ Deliver(Available) /\ pc' = "fill"
      /\ nested' = nested /\ phase' = phase /\ type' = type /\ isClosed' = isClosed /\ contentLen' = contentLen
      /\ skip' = skip /\ stop' = stop /\ stopUnget' = stopUnget
      /\ FCGI_errno' = FCGI_errno /\ serverShut' = serverShut
      /\ wasFCloseCalled' = wasFCloseCalled /\ cleared' = cleared
  BY DEF ParamsPart, InAccept, Reading, status, record, server, calls
<1>4. KeepsRequest
  BY <1>2 DEF ParamsPart, request, KeepsRequest
<1>5. ~Stray /\ (Stray' <=> Stray)
  <2>1. Mark' \in 0..Len(wire)
    BY <1>1, <1>2 DEF Places
  <2>2. ~(Framed /\ Stray) /\ ~(Framed' /\ Stray')
    BY <1>1, <1>2, <2>1, OneOfThem, OneOfThemNext
  <2> QED BY <1>2, <2>2
<1>6. Available \in 0..Available
  <2>1. rdNext <= stop /\ rdNext \in Nat /\ stop \in Nat
    BY <1>1, <1>3 DEF Control, Places
  <2> QED BY <2>1 DEF Available
<1> DEFINE m == Available
<1>7. m \in 0..Available /\ Deliver(m)
  BY <1>3, <1>6
<1> HIDE DEF m
<1> QED BY <1>2, <1>3, <1>4, <1>5, <1>7, TakesBytes

LEMMA ParamsDoneServing ==
    ASSUME Ready, ParamsDone
    PROVE  Settled'
<1>1. /\ Typed /\ Control /\ Tracked /\ Places /\ Known /\ InProgress
      /\ Identified /\ InOrder /\ Delivered /\ Future /\ Past /\ Complete
  BY ReadyFacts DEF Ready, Settled
<1>2. /\ pc = "use" /\ nested = "none" /\ phase = "params" /\ isClosed /\ SetReaderType("STDIN") /\ phase' = "app"
      /\ UNCHANGED server /\ pc' = "use" /\ nested' = "none" /\ got' = got
      /\ wasFCloseCalled' = wasFCloseCalled /\ cleared' = cleared
  BY DEF ParamsDone, InAccept, Reading, calls
<1>3. /\ SameConversation /\ rdNext' = rdNext /\ stop' = rdNext /\ Cur' = Cur /\ contentLen' = 0 /\ ~isClosed'
      /\ Mark' = rdNext /\ Mark = rdNext
  BY <1>1, <1>2, NextStreamTracked
<1>4. KeepsRequest /\ type' = "STDIN" /\ skip' = FALSE /\ FCGI_errno' = FCGI_errno /\ serverShut' = serverShut
  BY <1>2, <1>3 DEF ParamsDone, SetReaderType, request, KeepsRequest, server
<1>5. ~Open /\ Open' /\ type = "PARAMS"
  BY <1>1, <1>2, <1>3 DEF Open, Control
<1>6. /\ got["STDIN"] = <<>> /\ got["DATA"] = <<>>
      /\ Seen("STDIN", rdNext) = <<>> /\ Seen("DATA", rdNext) = <<>>
  BY <1>1, <1>2 DEF Future, SeenOf
<1>7. Identified'
  <2>1. Mark' > 0 /\ begun <= Cur'
    BY <1>1, <1>2, <1>3 DEF Identified
  <2> QED BY <1>1, <1>2, <1>4, <2>1, IdentifiedNext
<1>8. InOrder'
  <2>1. ASSUME NEW k \in DOMAIN script, NEW l \in DOMAIN script, k < l, OwnUpTo(k, Cur'), OwnUpTo(l, Cur')
        PROVE  script[k].type = "PARAMS"
    <3>1. k \in Nat /\ l \in Nat /\ k < l /\ l <= Cur /\ Own(k)
      BY <1>1, <1>3, <2>1 DEF Places, Own, OwnUpTo
    <3>2. Cur \in Nat
      <4>1. Mark \in 1..Len(wire)
        BY <1>1, <1>2 DEF Identified, Places
      <4> QED BY <1>1, <4>1 DEF Cur, Places
    <3>3. k < Cur
      BY <3>1, <3>2
    <3> QED BY <1>1, <1>2, <3>1, <3>3 DEF InOrder
  <2>2. \A k, l \in DOMAIN script :
            k < l /\ OwnUpTo(k, Cur') /\ OwnUpTo(l, Cur') => ~(script[k].type = "STDIN" /\ script[l].type = "PARAMS")
    BY <2>1
  <2> QED BY <1>2, <1>4, <2>2, InOrderNext
<1>9. Skipping'
  BY <1>4, SkippingNext
<1>10. Handed'
  <2>1. stop' = rdNext' /\ got'[type'] = <<>> /\ ~(contentLen' > 0)
    BY <1>2, <1>3, <1>4, <1>6
  <2> QED BY <1>2, <1>4, <2>1, HandedNext
<1>11. Delivered'
  BY <1>2, <1>3, <1>4, <1>5, <1>6, DeliveredNext
<1>12. Future'
  BY <1>2, <1>3, <1>4, <1>6, FutureNext
<1>13. Past'
  <2>1. got["PARAMS"] = Seen("PARAMS", rdNext) \/ got["PARAMS"] = <<>>
    BY <1>1, <1>5 DEF Delivered, SeenOf
  <2>2. rdNext \in Nat /\ rdNext <= Len(wire)
    BY <1>1 DEF Places
  <2>3. IsPrefix(Seen("PARAMS", rdNext), Expected("PARAMS")) /\ IsPrefix(<<>>, Expected("PARAMS"))
    BY <1>1, <2>2, SeenIsPrefix
  <2>4. IsPrefix(got'["PARAMS"], Expected("PARAMS"))
    BY <1>2, <2>1, <2>3
  <2> QED BY <1>4, <2>4, PastNext
<1>14. Complete'
  <2>1. Untroubled' <=> Untroubled
    BY <1>2, <1>4 DEF Untroubled
  <2>2. ~wasFCloseCalled
    BY <1>1, <1>2 DEF Identified
  <2>3. Untroubled => got["PARAMS"] = Expected("PARAMS")
    BY <1>1, <1>5, <2>2 DEF Complete
  <2> QED BY <1>2, <1>4, <1>5, <2>1, <2>3, CompleteNext
<1> QED BY <1>7, <1>8, <1>9, <1>10, <1>11, <1>12, <1>13, <1>14 DEF Settled

-----------------------------------------------------------------------------
(* The application's calls.                                                *)

LEMMA AppGetServing ==
    ASSUME Ready, AppGet
    PROVE  Settled'
<1>1. Typed /\ Control /\ Tracked /\ Places /\ Delivered /\ Handed /\ InProgress
  BY ReadyFacts DEF Ready, Settled
<1>2. SameConversation /\ Mark' = Mark /\ Cur' = Cur /\ Stray' = Stray
  BY <1>1, AppReadsTracked
<1>3. PICK m \in 1..Available : Deliver(m)
  BY DEF AppGet
<1>4. /\ pc = "use" /\ nested = "none" /\ ~isClosed /\ pc' = "use"
      /\ nested' = nested /\ phase' = phase /\ type' = type /\ isClosed' = isClosed /\ contentLen' = contentLen
      /\ skip' = skip /\ stop' = stop /\ stopUnget' = stopUnget
      /\ FCGI_errno' = FCGI_errno /\ serverShut' = serverShut
      /\ wasFCloseCalled' = wasFCloseCalled /\ cleared' = cleared
  BY DEF AppGet, InAccept, Reading, status, record, server, calls, control
<1>5. KeepsRequest
  BY <1>2 DEF AppGet, request, KeepsRequest
<1>6. m \in 0..Available /\ m > 0 /\ Available \in Nat
  <2>1. rdNext \in Nat /\ stop \in Nat /\ rdNext <= stop
    BY <1>1, <1>4 DEF Control, Places
  <2>2. Available \in Nat
    BY <2>1 DEF Available
  <2> QED BY <1>3, <2>2
<1>7. ~Stray
  <2>1. stop # rdNext
    <3>1. rdNext \in Nat /\ stop \in Nat
      BY <1>1 DEF Places
    <3> QED BY <1>6, <3>1 DEF Available
  <2> QED BY <1>1, <1>4, <2>1 DEF Handed
<1>8. Stray' <=> Stray
  BY <1>2
<1> QED BY <1>2, <1>3, <1>4, <1>5, <1>6, <1>7, <1>8, TakesBytes

LEMMA AppFillServing ==
    ASSUME Ready, AppFill
    PROVE  Settled'
<1>1. Typed /\ Control /\ Tracked /\ Settled /\ Delivered /\ Handed
  BY ReadyFacts DEF Ready, Settled
<1>2. SameConversation /\ Mark' = Mark /\ Cur' = Cur /\ Stray' = Stray
  BY <1>1, AppReadsTracked
<1>3. /\ nested = "none" /\ ~isClosed /\ pc' = "fill"
      /\ nested' = nested /\ phase' = phase /\ type' = type /\ isClosed' = isClosed /\ contentLen' = contentLen
      /\ paddingLen' = paddingLen /\ skip' = skip /\ got' = got /\ rdNext' = rdNext
      /\ FCGI_errno' = FCGI_errno /\ serverShut' = serverShut
      /\ wasFCloseCalled' = wasFCloseCalled /\ cleared' = cleared
  BY DEF AppFill, InAccept, Reading, status, record, server, calls, ptrs
<1>4. KeepsRequest
  BY <1>2 DEF AppFill, request, KeepsRequest
<1>5. (Open' <=> Open) /\ (Untroubled' => Untroubled)
  BY <1>3 DEF Open, Untroubled
<1>6. Handed'
  BY <1>1, <1>2, <1>3, <1>4, <1>5, HandedNext DEF Handed
<1> QED BY <1>1, <1>2, <1>3, <1>4, <1>5, <1>6, SameSettled

\* A byte given back is what the reader went past last.
LEMMA AppUnGetServing ==
    ASSUME Ready, AppUnGet
    PROVE  Settled'
<1>1. /\ Typed /\ Control /\ Tracked /\ Places /\ Known /\ type \in Streams
      /\ Identified /\ InOrder /\ Delivered /\ Future /\ Past /\ Complete /\ Handed
  BY ReadyFacts DEF Ready, Settled
<1>2. SameConversation /\ Mark' = Mark /\ Cur' = Cur /\ Stray' = Stray
  BY <1>1, AppReadsTracked
<1>3. /\ pc = "use" /\ nested = "none" /\ phase = "app" /\ ~isClosed /\ pc' = pc
      /\ nested' = nested /\ phase' = phase /\ type' = type /\ isClosed' = isClosed /\ contentLen' = contentLen
      /\ skip' = skip /\ stop' = stop /\ stopUnget' = stopUnget
      /\ FCGI_errno' = FCGI_errno /\ serverShut' = serverShut
      /\ wasFCloseCalled' = wasFCloseCalled /\ cleared' = cleared
      /\ rdNext # stopUnget /\ got[type] # <<>> /\ rdNext' = rdNext - 1
      /\ got' = [got EXCEPT ![type] = Front(@)]
  BY DEF AppUnGet, InAccept, Reading, status, record, server, calls, control
<1>4. KeepsRequest
  BY <1>2 DEF AppUnGet, request, KeepsRequest
<1>5. Open /\ Open'
  BY <1>3 DEF Open
<1>6. ~skip /\ rdNext <= stop /\ stopUnget <= rdNext
  BY <1>1, <1>3 DEF Control
<1>7. /\ rdNext \in Nat /\ rdNext > 0 /\ rdNext - 1 \in Nat /\ rdNext <= Len(wire) /\ rdNext - 1 <= rdNext
      /\ rdNext \in stopUnget+1..stop /\ rdNext \in 1..Len(wire) /\ rdNext - 1 <= Len(wire)
      /\ (rdNext - 1)+1..rdNext = {rdNext}
  <2>1. rdNext \in Nat /\ stop \in Nat /\ stopUnget \in Nat /\ stop <= Len(wire) /\ Len(wire) \in Nat
    BY <1>1 DEF Places
  <2> QED BY <1>3, <1>6, <2>1
<1>8. ~Stray /\ \A q \in stopUnget+1..stop : Wanted(wire[q], type)
  BY <1>1, <1>3 DEF Handed
<1>9. Wanted(wire[rdNext], type)
  BY <1>7, <1>8
<1>10. got \in [Streams -> Seq(Nat \X Nat)]
  BY <1>1 DEF Typed, CallsOK
<1>11. got'[type] = Seen(type, rdNext')
  <2>1. got'[type] = Front(got[type]) /\ got[type] = Seen(type, rdNext)
    BY <1>1, <1>3, <1>5, <1>8, <1>10 DEF Delivered, SeenOf
  <2>2. Front(Seen(type, rdNext)) = Seen(type, rdNext - 1)
    BY <1>1, <1>7, <1>9, SeenGivesBack
  <2> QED BY <1>3, <2>1, <2>2
<1>12. ASSUME NEW t \in Streams, t # type PROVE got'[t] = got[t] /\ Seen(t, rdNext') = SeenOf(t)
  <2>1. got'[t] = got[t]
    BY <1>3, <1>10, <1>12
  <2>2. ~Wanted(wire[rdNext], t)
    BY <1>9, <1>12, OneWants
  <2>3. Seen(t, rdNext) = Seen(t, rdNext - 1)
    <3> DEFINE a == rdNext - 1
    <3>1. a \in Nat /\ a <= rdNext /\ \A q \in a+1..rdNext : ~Wanted(wire[q], t)
      BY <1>7, <2>2
    <3> HIDE DEF a
    <3>2. Seen(t, rdNext) = Seen(t, a)
      BY <1>1, <1>7, <3>1, SeenSkips
    <3> QED BY <3>2 DEF a
  <2> QED BY <1>3, <2>1, <2>3 DEF SeenOf
<1>13. Identified'
  BY <1>1, <1>2, <1>3, <1>4, <1>5, IdentifiedNext DEF Identified
<1>14. InOrder'
  BY <1>1, <1>2, <1>3, <1>4, <1>5, InOrderNext DEF InOrder, Own
<1>15. Skipping'
  BY <1>3, <1>4, <1>6, SkippingNext
<1>16. Handed'
  <2>1. Open' /\ contentLen' > 0 /\ ~skip' /\ nested' = "none" => RecWanted(Cur', type')
    BY <1>1, <1>2, <1>3, <1>5 DEF Handed
  <2>2. ~Stray' /\ \A q \in stopUnget'+1..stop' : Wanted(wire[q], type')
    BY <1>2, <1>3, <1>8
  <2> QED BY <1>3, <1>4, <2>1, <2>2, HandedNext
<1>17. Delivered'
  BY <1>2, <1>3, <1>4, <1>5, <1>8, <1>11, DeliveredNext
<1>18. type # "PARAMS"
  BY <1>1, <1>3 DEF Control
<1>19. Future'
  <2>1. type' = "STDIN" => /\ got'["DATA"] = <<>>
                           /\ FCGI_errno' = "none" /\ Calm => Seen("DATA", rdNext') = <<>>
    <3> SUFFICES ASSUME type = "STDIN"
                 PROVE  got'["DATA"] = <<>> /\ (FCGI_errno = "none" /\ Calm => Seen("DATA", rdNext') = <<>>)
      BY <1>3
    <3>1. got'["DATA"] = got["DATA"] /\ Seen("DATA", rdNext') = SeenOf("DATA")
      BY <1>12 DEF Streams
    <3> QED BY <1>1, <3>1 DEF Future
  <2> QED BY <1>3, <1>4, <2>1, FutureNext
<1>20. got'["PARAMS"] = got["PARAMS"] /\ (type = "DATA" => got'["STDIN"] = got["STDIN"])
  BY <1>12, <1>18 DEF Streams
<1>21. Past'
  BY <1>1, <1>3, <1>4, <1>20, PastNext DEF Past
<1>22. Complete'
  <2>1. Untroubled' <=> Untroubled
    BY <1>3 DEF Untroubled
  <2> QED BY <1>1, <1>3, <1>4, <1>5, <1>20, <2>1, CompleteNext DEF Complete
<1> QED BY <1>13, <1>14, <1>15, <1>16, <1>17, <1>19, <1>21, <1>22 DEF Settled

\* The application closes its input, or a call that came too early does.
LEMMA ShutInput ==
    ASSUME Ready, KeepsRequest, pc = "use", phase = "app", nested = "none", ~Calm, isClosed',
           pc' = pc, nested' = nested, phase' = phase, type' = type, got' = got, rdNext' = rdNext,
           contentLen' = contentLen, paddingLen' = paddingLen, headerLen' = headerLen, skip' = skip,
           Untroubled' => wasFCloseCalled', Untroubled' => Untroubled
    PROVE  Settled'
<1>1. /\ Typed /\ Control /\ Tracked /\ Places /\ Known /\ type \in Streams
      /\ Identified /\ InOrder /\ Delivered /\ Future /\ Past /\ Complete /\ Skipping
  BY ReadyFacts DEF Ready, Settled
<1>2. ~Open'
  BY DEF Open
<1>3. Identified'
  BY <1>1, <1>2, IdentifiedNext
<1>4. InOrder'
  BY <1>1, <1>2, InOrderNext
<1>5. Skipping'
  <2> SUFFICES ASSUME skip', Framed'
               PROVE  IF contentLen' > 0 THEN \A t \in Streams : ~RecWanted(Cur', t) ELSE Barren(rdNext')
    BY <1>2, SkippingNext
  <2>1. isClosed
    BY <1>1 DEF Control
  <2>2. Mark' = Mark
    BY <2>1 DEF Mark, Position
  <2>3. Framed' = Framed /\ Cur' = Cur
    BY <2>2, FramedSame DEF KeepsRequest
  <2> QED BY <1>1, <2>3 DEF Skipping
<1>6. Handed'
  BY <1>2, HandedNext
<1>7. Delivered'
  <2>1. got[type] = Seen(type, rdNext) \/ got[type] = <<>>
    BY <1>1 DEF Delivered, SeenOf
  <2> QED BY <1>2, <2>1, DeliveredNext
<1>8. Future'
  BY <1>1, FutureNext DEF Future
<1>9. Past'
  BY <1>1, PastNext DEF Past
<1>10. Complete'
  BY <1>1, CompleteNext DEF Complete
<1> QED BY <1>3, <1>4, <1>5, <1>6, <1>7, <1>8, <1>9, <1>10 DEF Settled

LEMMA AppFCloseServing ==
    ASSUME Ready, AppFClose
    PROVE  Settled'
<1>1. /\ pc = "use" /\ phase = "app" /\ nested = "none" /\ ~Calm /\ isClosed'
      /\ pc' = pc /\ nested' = nested /\ phase' = phase /\ type' = type /\ got' = got /\ rdNext' = rdNext
      /\ contentLen' = contentLen /\ paddingLen' = paddingLen /\ headerLen' = headerLen /\ skip' = skip
      /\ wasFCloseCalled' /\ cleared' = cleared /\ FCGI_errno' = FCGI_errno /\ serverShut' = serverShut
  BY DEF AppFClose, InAccept, Reading, Calm, control, record, server
<1>2. KeepsRequest
  BY DEF AppFClose, request, server, KeepsRequest, SameConversation
<1>3. Untroubled' => Untroubled
  BY <1>1 DEF Untroubled
<1> QED BY <1>1, <1>2, <1>3, ShutInput

LEMMA AppClearErrorServing ==
    ASSUME Ready, AppClearError
    PROVE  Settled'
<1>1. Typed /\ Control /\ Settled /\ Handed
  BY ReadyFacts DEF Ready, Settled
<1>2. /\ phase = "app" /\ ~Calm /\ isClosed' = isClosed
      /\ pc' = pc /\ nested' = nested /\ phase' = phase /\ type' = type /\ got' = got
      /\ rdNext' = rdNext /\ stop' = stop /\ stopUnget' = stopUnget
      /\ contentLen' = contentLen /\ paddingLen' = paddingLen /\ headerLen' = headerLen /\ skip' = skip
      /\ wasFCloseCalled' = wasFCloseCalled /\ cleared'
  BY DEF AppClearError, InAccept, Reading, Calm, control, record, ptrs
<1>3. KeepsRequest
  BY DEF AppClearError, request, server, KeepsRequest, SameConversation
<1>4. Mark' = Mark
  BY <1>2 DEF Mark, Position
<1>5. Cur' = Cur /\ Stray' = Stray
  BY <1>2, <1>3, <1>4, FramedSame DEF KeepsRequest
<1>6. Open' <=> Open
  BY <1>2 DEF Open
<1>7. ~Untroubled'
  BY <1>2 DEF Untroubled
<1>8. Handed'
  BY <1>1, <1>2, <1>3, <1>5, <1>6, HandedNext DEF Handed
<1> QED BY <1>1, <1>2, <1>3, <1>4, <1>6, <1>7, <1>8, SameSettled

\* FCGX_StartFilterData.
LEMMA AppStartFilterDataServing ==
    ASSUME Ready, AppStartFilterData
    PROVE  Settled'
<1>1. /\ Typed /\ Control /\ Tracked /\ Places /\ Known /\ type \in Streams /\ NoFilter /\ InProgress
      /\ Identified /\ InOrder /\ Delivered /\ Future /\ Past /\ Complete
  BY ReadyFacts DEF Ready, Settled
<1>2. /\ pc = "use" /\ phase = "app" /\ nested = "none"
      /\ pc' = pc /\ nested' = nested /\ phase' = phase /\ got' = got /\ serverShut' = serverShut
      /\ wasFCloseCalled' = wasFCloseCalled /\ cleared' = cleared /\ UNCHANGED server
  BY DEF AppStartFilterData, InAccept, Reading, control, server, calls
<1>3. KeepsRequest
  BY DEF AppStartFilterData, request, server, KeepsRequest, SameConversation
<1>4. CASE role = "FILTER" /\ isClosed /\ type = "STDIN"
  <2>1. SetReaderType("DATA")
    BY <1>4 DEF AppStartFilterData
  <2>2. Calm
    BY <1>1, <1>4 DEF NoFilter
  <2>3. FCGI_errno = "none"
    BY <2>2 DEF AppStartFilterData, AtEOF, Calm
  <2>4. /\ rdNext' = rdNext /\ stop' = rdNext /\ Mark' = rdNext /\ Mark = rdNext /\ Cur' = Cur
        /\ contentLen' = 0 /\ paddingLen' = 0 /\ ~isClosed'
    BY <1>1, <1>2, <1>4, <2>1, NextStreamTracked
  <2>5. type' = "DATA" /\ skip' = FALSE /\ FCGI_errno' = FCGI_errno
    BY <2>1 DEF SetReaderType
  <2>6. Open' /\ ~Open
    BY <1>2, <1>4, <2>4 DEF Open
  <2>7. Stray => Stray'
    <3>1. Stray' <=> StrayIn(script, wire, Mark', contentLen', paddingLen')
      BY <1>3, FramedNext DEF KeepsRequest
    <3>2. Stray <=> StrayIn(script, wire, Mark, contentLen, paddingLen)
      BY DEF Stray
    <3>3. Stray => contentLen = 0 /\ paddingLen = 0
      BY <3>2 DEF StrayIn
    <3> QED BY <2>4, <3>1, <3>2, <3>3
  <2>8. got["DATA"] = <<>> /\ Seen("DATA", rdNext) = <<>>
    BY <1>1, <1>4, <2>2, <2>3 DEF Future, SeenOf
  <2>9. Identified'
    <3>1. Mark' > 0 /\ begun <= Cur'
      BY <1>1, <2>2, <2>4 DEF Identified
    <3> QED BY <1>1, <1>2, <1>3, <3>1, IdentifiedNext
  <2>10. InOrder'
    <3>1. ~Stray' => \A k, l \in DOMAIN script :
             k < l /\ OwnUpTo(k, Cur') /\ OwnUpTo(l, Cur') => ~(script[k].type = "STDIN" /\ script[l].type = "PARAMS")
      BY <1>1, <1>2, <2>2, <2>3, <2>4, <2>7 DEF InOrder, Own
    <3> QED BY <1>2, <1>3, <3>1, InOrderNext
  <2>11. Skipping'
    BY <1>3, <2>5, SkippingNext
  <2>12. Handed'
    <3>1. stop' = rdNext' /\ got'[type'] = <<>> /\ ~(contentLen' > 0)
      BY <1>2, <2>4, <2>5, <2>8
    <3> QED BY <1>2, <1>3, <3>1, HandedNext
  <2>13. Delivered'
    BY <1>2, <1>3, <2>4, <2>5, <2>6, <2>8, DeliveredNext
  <2>14. Future'
    BY <1>2, <1>3, <2>5, FutureNext
  <2>15. Past'
    <3>1. got["STDIN"] = Seen("STDIN", rdNext) \/ got["STDIN"] = <<>>
      BY <1>1, <1>4, <2>6 DEF Delivered, SeenOf
    <3>2. rdNext \in Nat /\ rdNext <= Len(wire)
      BY <1>1 DEF Places
    <3>3. IsPrefix(Seen("STDIN", rdNext), Expected("STDIN")) /\ IsPrefix(<<>>, Expected("STDIN"))
      BY <1>1, <3>2, SeenIsPrefix
    <3>4. IsPrefix(got'["STDIN"], Expected("STDIN")) /\ IsPrefix(got'["PARAMS"], Expected("PARAMS"))
      BY <1>1, <1>2, <3>1, <3>3 DEF Past
    <3> QED BY <1>3, <3>4, PastNext
  <2>16. Complete'
    <3>1. Untroubled' => Untroubled
      BY <1>2, <2>5 DEF Untroubled
    <3> QED BY <1>1, <1>2, <1>3, <2>6, <3>1, CompleteNext DEF Complete
  <2> QED BY <2>9, <2>10, <2>11, <2>12, <2>13, <2>14, <2>15, <2>16 DEF Settled
<1>5. CASE ~(role = "FILTER" /\ isClosed /\ type = "STDIN")
  <2>1. SetError("CALL_SEQ") /\ UNCHANGED <<ptrs, record, type>>
    BY <1>5 DEF AppStartFilterData
  <2>2. ~Calm
    BY <1>5 DEF AppStartFilterData, AtEOF, Calm
  <2>3. /\ isClosed' /\ FCGI_errno' # "none" /\ type' = type /\ rdNext' = rdNext
        /\ contentLen' = contentLen /\ paddingLen' = paddingLen /\ headerLen' = headerLen /\ skip' = skip
    BY <2>1 DEF SetError, ptrs, record
  <2>4. ~Untroubled'
    BY <2>3 DEF Untroubled
  <2> QED BY <1>2, <1>3, <2>2, <2>3, <2>4, ShutInput
<1> QED BY <1>4, <1>5

-----------------------------------------------------------------------------
(* Every step.                                                             *)

\* Only BeginDone starts to serve a request.
LEMMA StartsServing ==
    ASSUME Control, ~Serving, [Next]_vars, Serving'
    PROVE  BeginDone
<1>1. ~(Server \/ Finished \/ UNCHANGED vars)
  BY DEF Serving, InProgress, Server, ServerSend, ServerClose, Finished, vars, control
<1>2. ~FillBuffProc
  <2>1. FillKeeps => InProgress /\ phase' = phase
    BY DEF FillKeeps
  <2> QED BY <2>1, FillBuffProcKeeps DEF Serving
<1>3. ~ProcessHeader
  <2>1. FillKeeps => InProgress /\ phase' = phase
    BY DEF FillKeeps
  <2> QED BY <2>1, ProcessHeaderKeeps DEF Serving
<1>4. ~NestedRead
  BY NestedReadKeeps DEF Serving
<1>5. ~(GiveUp \/ ParamsPart \/ ParamsDone)
  BY DEF Serving, InProgress, GiveUp, ParamsPart, ParamsDone, InAccept, Reading
<1>6. ~App
  BY DEF Serving, InProgress, App, AcceptRequest, AppGet, AppFill, AppUnGet, AppStartFilterData, AppFClose,
         AppClearError, AppFinish, InAccept, Reading
<1> QED BY <1>1, <1>2, <1>3, <1>4, <1>5, <1>6 DEF Next, Library, Accept

LEMMA StepServing ==
    ASSUME Typed, Control, NoFilter, Tracked, Beginning, ServingInv, Premises, [Next]_vars
    PROVE  ServingInv'
<1> SUFFICES ASSUME Serving' PROVE Settled'
  BY DEF ServingInv
<1>1. CASE ~Serving
  <2>1. BeginDone
    BY <1>1, StartsServing
  <2> QED BY <2>1, BeginDoneServing
<1>2. CASE Serving
  <2>1. Ready
    BY <1>2 DEF Ready, ServingInv
  <2>2. ~GiveUp /\ ~AppFinish /\ ~AcceptRequest
    BY DEF Serving, InProgress, GiveUp, AppFinish, AcceptRequest
  <2>3. ~BeginDone
    BY <1>2 DEF Serving, BeginDone, InAccept
  <2>4. CASE Server \/ Finished \/ UNCHANGED vars
    BY <2>1, <2>4, QuietServing
  <2>5. CASE Library
    BY <2>1, <2>2, <2>3, <2>5, FillBuffProcServing, ProcessHeaderServing, NestedReadServing,
       ParamsPartServing, ParamsDoneServing DEF Library, Accept
  <2>6. CASE App
    BY <2>1, <2>2, <2>6, AppGetServing, AppFillServing, AppUnGetServing, AppStartFilterDataServing,
       AppFCloseServing, AppClearErrorServing DEF App
  <2> QED BY <2>4, <2>5, <2>6 DEF Next
<1> QED BY <1>1, <1>2

LEMMA ReaderInvInit ==
    ASSUME Init
    PROVE  ReaderInv
<1>1. Typed /\ Control
  BY InitTypes
<1>2. ~InProgress /\ nested = "none" /\ role = "UNKNOWN" /\ type = "NONE"
  BY DEF Init, InProgress
<1>3. NoFilter /\ Tracked /\ Beginning /\ ServingInv
  BY <1>2 DEF NoFilter, Tracked, Beginning, BeginBody, BeginKnown, Unserved, ServingInv, Serving
<1> QED BY <1>1, <1>3 DEF ReaderInv

LEMMA ReaderInvStep ==
    ASSUME Premises, ReaderInv, [Next]_vars
    PROVE  ReaderInv'
<1>1. Typed /\ Control /\ NoFilter /\ Tracked /\ Beginning /\ ServingInv
  BY DEF ReaderInv
<1>2. Typed' /\ Control'
  BY <1>1, StepTypes
<1>3. Tracked'
  <2>1. Serving => Delivered
    BY <1>1 DEF ServingInv, Settled
  <2> QED BY <1>1, <2>1, StepTracked
<1>4. Beginning'
  BY <1>1, StepBeginning
<1>5. NoFilter'
  BY <1>1, StepNoFilter DEF Beginning
<1>6. ServingInv'
  BY <1>1, StepServing
<1> QED BY <1>2, <1>3, <1>4, <1>5, <1>6 DEF ReaderInv

-----------------------------------------------------------------------------
(* What the reader promises.                                               *)

\* FillBuffProc (fcgiapp.c:1827) hands each consumer a beginning of the content
\* of the records of its request and its stream, each byte once and in the order
\* sent, however OS_Read splits them and whatever of Faults happens.
THEOREM ReaderFaithful ==
    ASSUME Premises
    PROVE  Spec => []StreamFidelity
<1>1. ReaderInv => StreamFidelity
  <2> SUFFICES ASSUME ReaderInv, InProgress, NEW t \in Streams
               PROVE  IsPrefix(got[t], Expected(t))
    BY DEF StreamFidelity
  <2>1. Typed /\ Control /\ Beginning /\ ServingInv /\ Places
    BY PlacesOK DEF ReaderInv
  <2>2. rdNext \in Nat /\ rdNext <= Len(wire)
    BY <2>1 DEF Places
  <2>3. IsPrefix(SeenOf(t), Expected(t)) /\ IsPrefix(<<>>, Expected(t))
    BY <2>1, <2>2, SeenIsPrefix DEF SeenOf
  <2>4. CASE phase = "begin"
    BY <2>1, <2>3, <2>4 DEF Beginning, Unserved
  <2>5. CASE phase # "begin"
    <3>1. Delivered /\ Future /\ Past /\ type \in {"PARAMS", "STDIN", "DATA"}
          /\ (phase = "params" => type = "PARAMS") /\ (phase = "app" => type # "PARAMS")
          /\ phase \in {"params", "app"}
      BY <2>1, <2>5 DEF ServingInv, Serving, Settled, Control, Typed, ControlOK
    <3>2. CASE t = type
      BY <2>3, <3>1, <3>2 DEF Delivered
    <3>3. CASE t # type
      BY <2>3, <3>1, <3>3 DEF Future, Past, Streams
    <3> QED BY <3>2, <3>3
  <2> QED BY <2>4, <2>5
<1> QED BY <1>1, ReaderInvInit, ReaderInvStep, PTL DEF Spec

\* An end of file without an error is the end of the stream, and an environment
\* cut short leaves an error on the input stream: SetError keeps the first error,
\* SetReaderType does not clear it.
THEOREM ReaderReports ==
    ASSUME Premises
    PROVE  Spec => []TruncationReported
<1>1. ReaderInv => TruncationReported
  <2> SUFFICES ASSUME ReaderInv, ~serverShut, ~cleared, InAccept("app")
               PROVE  /\ ~wasFCloseCalled /\ AtEOF => got[type] = Expected(type)
                      /\ got["PARAMS"] # Expected("PARAMS") => FCGI_errno # "none"
    BY DEF TruncationReported, EndIsComplete
  <2>1. Complete
    BY DEF ReaderInv, ServingInv, Serving, InProgress, InAccept, Reading, Settled
  <2>2. ~wasFCloseCalled /\ AtEOF => got[type] = Expected(type)
    BY <2>1 DEF Complete, AtEOF, Untroubled, Open, InAccept, Reading
  <2>3. got["PARAMS"] # Expected("PARAMS") => FCGI_errno # "none"
    BY <2>1 DEF Complete, Untroubled, InAccept
  <2> QED BY <2>2, <2>3
<1> QED BY <1>1, ReaderInvInit, ReaderInvStep, PTL DEF Spec

\* Only FCGX_StartFilterData moves the input stream on.
LEMMA NextStreamBy ==
    ASSUME Control, [Next]_vars, type # "DATA", type' = "DATA"
    PROVE  AppStartFilterData /\ isClosed /\ type = "STDIN"
<1>1. ~(Server \/ Finished \/ UNCHANGED vars)
  BY DEF Server, ServerSend, ServerClose, Finished, vars, status
<1>2. ~FillBuffProc
  <2>1. FillKeeps => type' = type
    BY DEF FillKeeps
  <2> QED BY <2>1, FillBuffProcKeeps
<1>3. ~ProcessHeader
  <2>1. FillKeeps => type' = type
    BY DEF FillKeeps
  <2> QED BY <2>1, ProcessHeaderKeeps
<1>4. ~NestedRead
  BY NestedReadKeeps
<1>5. ~Accept
  BY DEF Accept, BeginDone, GiveUp, ParamsPart, ParamsDone, SetReaderType, status
<1>6. ~(AcceptRequest \/ AppGet \/ AppFill \/ AppUnGet \/ AppFClose \/ AppClearError \/ AppFinish)
  BY DEF AcceptRequest, AppGet, AppFill, AppUnGet, AppFClose, AppClearError, AppFinish, status
<1>7. AppStartFilterData
  BY <1>1, <1>2, <1>3, <1>4, <1>5, <1>6 DEF Next, Library, App
<1>8. isClosed /\ type = "STDIN"
  BY <1>7 DEF AppStartFilterData
<1> QED BY <1>7, <1>8

\* A step while FCGI_DATA is read that leaves no trouble, and found none.
Smooth ==
    /\ KeepsRequest /\ InProgress /\ got'["STDIN"] = got["STDIN"]
    /\ FCGI_errno = "none" /\ ~serverShut /\ ~cleared /\ ~wasFCloseCalled

LEMMA StepSmooth ==
    ASSUME Typed, Control, [Next]_vars, type = "DATA", type' = "DATA", InProgress',
           FCGI_errno' = "none", ~serverShut', ~cleared', ~wasFCloseCalled'
    PROVE  Smooth
<1>0. phase = "app" /\ isBeginProcessed
  BY DEF Typed, ControlOK, Control
<1>1. CASE Server \/ Finished \/ UNCHANGED vars
  <2>1. UNCHANGED <<status, control, calls, request, got>> /\ SameConversation /\ ~serverShut
    BY <1>1 DEF Server, ServerSend, ServerClose, Finished, vars, server, SameConversation
  <2> QED BY <2>1 DEF status, control, calls, request, InProgress, Smooth, KeepsRequest
<1>2. CASE FillBuffProc
  <2>1. FCGI_errno = "none"
    BY <1>2 DEF FillBuffProc, OSRead, OSReadFails, DeliverContent, SkipContent, SkipPadding,
       DeliverEndOfRecord, GatherHeader, SetError, status
  <2> QED BY <1>2, <2>1, FillBuffProcKeeps DEF FillKeeps, Smooth, KeepsRequest
<1>3. CASE ProcessHeader
  <2>1. ~BeginRequest
    BY <1>0 DEF BeginRequest
  <2>2. FCGI_errno = "none"
    BY <1>3 DEF ProcessHeader, UnsupportedVersion, RefuseBegin, RefuseMultiplexing, BeginRequest,
       GetValues, UnknownManagement, ForeignRecord, UnexpectedType, StreamRecord, EndOfStream,
       ReturnError, ContinueFill, Recurse, SetError
  <2> QED BY <1>3, <2>1, <2>2, AtHeaderOf, ProcessHeaderKeeps DEF FillKeeps, Smooth, KeepsRequest
<1>4. CASE NestedRead
  <2>1. FCGI_errno = "none"
    BY <1>4 DEF NestedRead, BeginBodyPart, BeginBodyDone, BeginBodyCut, ValuesPart, ValuesDone,
       ValuesCut, NestedError, SetError, status
  <2> QED BY <1>4, <2>1, NestedReadKeeps DEF Smooth, KeepsRequest
<1>5. ~Accept
  BY <1>0 DEF Accept, BeginDone, GiveUp, ParamsPart, ParamsDone, InAccept, InProgress, SetReaderType
<1>6. CASE App
  BY <1>6 DEF App, AcceptRequest, AppGet, AppFill, AppUnGet, AppStartFilterData, AppFClose,
     AppClearError, AppFinish, Deliver, SetError, InAccept, Reading, InProgress, server, calls,
     request, status, control, Typed, CallsOK, Streams, Smooth, KeepsRequest, SameConversation
<1> QED BY <1>1, <1>2, <1>3, <1>4, <1>5, <1>6 DEF Next, Library

\* FCGX_StartFilterData (fcgiapp.c:2268) leaves FCGI_STDIN with all of it delivered or with
\* an error that stays, whatever of Faults happens.
THEOREM ReaderInSequence ==
    ASSUME Premises
    PROVE  Spec => []StreamsInSequence
<1>1. ReaderInv /\ StreamsInSequence /\ [Next]_vars => StreamsInSequence'
  <2> SUFFICES ASSUME ReaderInv, StreamsInSequence, [Next]_vars, InProgress', type' = "DATA",
                      FCGI_errno' = "none", ~serverShut', ~cleared', ~wasFCloseCalled'
               PROVE  got'["STDIN"] = Expected("STDIN")'
    BY DEF StreamsInSequence
  <2>1. Typed /\ Control /\ ServingInv
    BY DEF ReaderInv
  <2>2. CASE type = "DATA"
    <3>1. Smooth
      BY <2>1, <2>2, StepSmooth
    <3> QED BY <2>2, <3>1, SeenNext DEF Smooth, StreamsInSequence
  <2>3. CASE type # "DATA"
    <3>1. AppStartFilterData /\ isClosed /\ type = "STDIN"
      BY <2>1, <2>3, NextStreamBy
    <3>2. /\ KeepsRequest /\ got' = got /\ InAccept("app")
          /\ FCGI_errno = "none" /\ ~serverShut /\ ~cleared /\ ~wasFCloseCalled
      BY <3>1 DEF AppStartFilterData, SetReaderType, SetError, server, calls, request, KeepsRequest,
                  SameConversation
    <3>3. got["STDIN"] = Expected("STDIN")
      BY <2>1, <3>1, <3>2 DEF ServingInv, Serving, InProgress, InAccept, Reading, Settled, Complete,
                              Untroubled, Open
    <3> QED BY <3>2, <3>3, SeenNext
  <2> QED BY <2>2, <2>3
<1>2. Init => StreamsInSequence
  BY DEF Init, StreamsInSequence
<1> QED BY <1>1, <1>2, ReaderInvInit, ReaderInvStep, PTL DEF Spec

-----------------------------------------------------------------------------
(* Records behind a place, and their numbers.                              *)

LEMMA OrderlyMeans ==
    ASSUME Orderly
    PROVE  /\ Calm /\ Premises /\ Drains /\ ~Pipelined /\ "eof" \notin Faults
           /\ \A s \in Scripts : Numbered(s) /\ EndsWithInput(s)
BY DEF Orderly, Calm

\* Up to a place where the reader knows the record, the headers are those of the
\* records so far.
LEMMA HeadersBehind ==
    ASSUME NEW s \in Seq(Record), NEW w, Shape(s, w), NEW p \in 1..Len(w), w[p][2] >= HeaderLen,
           NEW i \in 1..w[p][1]
    PROVE  \E q \in 1..p : w[q] = <<i, HeaderLen>>
<1> DEFINE Missing == {d \in Nat : d < w[p][1] /\ ~\E q \in 1..p : w[q] = <<w[p][1] - d, HeaderLen>>}
<1>1. /\ Len(w) \in Nat /\ HeaderLen \in Nat /\ HeaderLen > 0
      /\ \A q \in 1..Len(w) : /\ w[q] \in Cell /\ w[q][1] \in 1..Len(s) /\ w[q][2] \in Nat /\ w[q][2] >= 1
                              /\ w[q][2] <= Size(s[w[q][1]]) /\ Size(s[w[q][1]]) \in Nat
                              /\ HeaderLen <= Size(s[w[q][1]])
  <2>1. HeaderLen \in Nat /\ HeaderLen > 0
    BY SizesAssumption
  <2>2. CellsOf(s, w)
    BY DEF Shape
  <2>3. w \in Seq(Cell) /\ Len(w) \in Nat
    BY <2>2 DEF CellsOf
  <2> SUFFICES ASSUME NEW q \in 1..Len(w)
               PROVE  /\ w[q] \in Cell /\ w[q][1] \in 1..Len(s) /\ w[q][2] \in Nat /\ w[q][2] >= 1
                      /\ w[q][2] <= Size(s[w[q][1]]) /\ Size(s[w[q][1]]) \in Nat
                      /\ HeaderLen <= Size(s[w[q][1]])
    BY <2>1, <2>3
  <2>4. w[q][1] \in 1..Len(s) /\ w[q][2] \in 1..Size(s[w[q][1]])
    BY <2>2 DEF CellsOf
  <2>5. s[w[q][1]] \in Record
    BY <2>4
  <2>6. Size(s[w[q][1]]) \in Nat /\ HeaderLen <= Size(s[w[q][1]])
    BY <2>5, SizePositive
  <2>7. w[q] \in Cell
    BY <2>3
  <2> QED BY ONLY <2>4, <2>6, <2>7
<1>2. \A q \in 1..Len(w) : \A m \in Int :
         (1 <= w[q][2] + m /\ w[q][2] + m <= Size(s[w[q][1]])) =>
            q + m \in 1..Len(w) /\ w[q + m] = <<w[q][1], w[q][2] + m>>
  BY DEF Shape, Runs
<1>3. /\ w[1] = <<1, 1>>
      /\ \A q \in 1..Len(w) : q < Len(w) /\ w[q][2] = Size(s[w[q][1]]) => w[q + 1] = <<w[q][1] + 1, 1>>
  BY <1>1 DEF Shape, Follows
<1> HIDE DEF Cell
<1>3a. w[p][1] \in Nat /\ w[p][2] \in Nat /\ p \in Nat /\ HeaderLen <= Size(s[w[p][1]])
  <2>1. w[p][1] \in 1..Len(s) /\ Len(s) \in Nat
    BY <1>1
  <2>2. w[p][2] \in Nat /\ HeaderLen <= Size(s[w[p][1]])
    BY <1>1
  <2> QED BY ONLY <2>1, <2>2, p \in 1..Len(w)
<1>4. Missing = {}
  <2> SUFFICES ASSUME Missing # {} PROVE FALSE
    OBVIOUS
  <2>1. PICK d \in Missing : \A k \in Missing : d <= k
    <3>1. Missing \subseteq Nat
      OBVIOUS
    <3> HIDE DEF Missing
    <3> QED BY <3>1, LeastNatural
  <2>2. d \in Nat /\ d < w[p][1] /\ w[p][1] \in Nat /\ ~\E q \in 1..p : w[q] = <<w[p][1] - d, HeaderLen>>
    BY <1>3a, <2>1
  <2>3. CASE d = 0
    <3>1. p + (HeaderLen - w[p][2]) \in 1..Len(w) /\ w[p + (HeaderLen - w[p][2])] = <<w[p][1], HeaderLen>>
      <4>1. HeaderLen - w[p][2] \in Int /\ w[p][2] + (HeaderLen - w[p][2]) = HeaderLen
        BY <1>1, <1>3a
      <4>2. 1 <= HeaderLen /\ HeaderLen <= Size(s[w[p][1]])
        BY <1>1, <1>3a
      <4> DEFINE m == HeaderLen - w[p][2]
      <4>3. m \in Int /\ w[p][2] + m = HeaderLen
        BY <4>1
      <4> HIDE DEF m
      <4>4. p + m \in 1..Len(w) /\ w[p + m] = <<w[p][1], w[p][2] + m>>
        BY ONLY <1>2, p \in 1..Len(w), <4>2, <4>3
      <4> QED BY ONLY <4>3, <4>4 DEF m
    <3>2. p + (HeaderLen - w[p][2]) \in 1..p
      BY <1>1, <1>3a, <3>1
    <3>3. w[p][1] - d = w[p][1]
      BY <2>2, <2>3
    <3> QED BY <2>2, <3>1, <3>2, <3>3
  <2>4. CASE d # 0
    <3> DEFINE j == w[p][1] - (d - 1)
    <3>1. d - 1 \in Nat /\ ~(d <= d - 1) /\ d - 1 < w[p][1] /\ j \in Nat /\ j > 1 /\ j - 1 = w[p][1] - d
      BY <2>2, <2>4
    <3>2. PICK q \in 1..p : w[q] = <<j, HeaderLen>>
      BY <2>1, <3>1
    <3> HIDE DEF j
    <3>3. q \in 1..Len(w) /\ w[q][1] = j /\ w[q][2] = HeaderLen
      BY <1>1, <3>2
    <3> DEFINE a == q + (1 - HeaderLen)
    <3>4. a \in 1..Len(w) /\ w[a] = <<j, 1>> /\ a <= q
      <4>1. 1 - HeaderLen \in Int /\ w[q][2] + (1 - HeaderLen) = 1 /\ 1 <= Size(s[w[q][1]])
        <5>1. HeaderLen \in Nat /\ HeaderLen > 0 /\ HeaderLen <= Size(s[w[q][1]]) /\ Size(s[w[q][1]]) \in Nat
          BY <1>1, <3>3
        <5> QED BY ONLY <3>3, <5>1
      <4> DEFINE m == 1 - HeaderLen
      <4>2. m \in Int /\ w[q][2] + m = 1 /\ m <= 0
        BY <1>1, <4>1
      <4> HIDE DEF m
      <4>3. q + m \in 1..Len(w) /\ w[q + m] = <<w[q][1], w[q][2] + m>>
        <5>1. 1 <= w[q][2] + m /\ w[q][2] + m <= Size(s[w[q][1]])
          BY ONLY <4>1, <4>2
        <5> QED BY ONLY <1>2, <3>3, <4>2, <5>1
      <4>4. q + m <= q
        BY <4>2
      <4> QED BY <3>3, <4>2, <4>3, <4>4 DEF m
    <3> HIDE DEF a
    <3>5. a # 1
      BY <1>3, <3>1, <3>4
    <3> DEFINE b == a - 1
    <3>6. b \in 1..Len(w) /\ b + 1 = a /\ b < Len(w) /\ b <= p
      <4>1. Len(w) \in Nat /\ p \in Nat
        BY <1>1
      <4> QED BY ONLY <3>2, <3>4, <3>5, <4>1
    <3> HIDE DEF b
    <3>7. w[b][2] = Size(s[w[b][1]])
      <4> SUFFICES ASSUME w[b][2] # Size(s[w[b][1]]) PROVE FALSE
        OBVIOUS
      <4>0. w[b][2] \in Nat /\ w[b][2] >= 1 /\ w[b][2] <= Size(s[w[b][1]]) /\ Size(s[w[b][1]]) \in Nat
        BY <1>1, <3>6
      <4>1. 1 <= w[b][2] + 1 /\ w[b][2] + 1 <= Size(s[w[b][1]]) /\ w[b][2] + 1 # 1
        BY <4>0
      <4>2. w[b + 1] = <<w[b][1], w[b][2] + 1>>
        BY <1>2, <3>6, <4>1
      <4> QED BY <3>4, <3>6, <4>1, <4>2
    <3>8. w[b][1] = j - 1
      <4>1. w[b + 1] = <<w[b][1] + 1, 1>>
        BY <1>3, <3>6, <3>7
      <4>2. w[b][1] + 1 = j
        BY ONLY <3>4, <3>6, <4>1
      <4>3. w[b][1] \in 1..Len(s) /\ Len(s) \in Nat
        BY <1>1, <3>6
      <4> QED BY ONLY <3>1, <4>2, <4>3
    <3> DEFINE m == HeaderLen - w[b][2]
    <3>9. m \in Int /\ m <= 0 /\ w[b][2] + m = HeaderLen /\ 1 <= HeaderLen /\ HeaderLen <= Size(s[w[b][1]])
      <4>1. HeaderLen \in Nat /\ HeaderLen > 0 /\ HeaderLen <= Size(s[w[b][1]]) /\ Size(s[w[b][1]]) \in Nat
        BY <1>1, <3>6
      <4> QED BY ONLY <3>7, <4>1
    <3> HIDE DEF m
    <3>10. b + m \in 1..Len(w) /\ w[b + m] = <<w[b][1], HeaderLen>>
      BY <1>2, <3>6, <3>9
    <3>11. b + m \in 1..p
      BY <3>6, <3>9, <3>10
    <3> QED BY <2>2, <3>1, <3>8, <3>10, <3>11
  <2> QED BY <2>3, <2>4
<1> DEFINE d == w[p][1] - i
<1>5. d \in Nat /\ d < w[p][1] /\ w[p][1] - d = i
  BY <1>1
<1>6. d \notin Missing
  BY <1>4
<1> QED BY <1>5, <1>6

-----------------------------------------------------------------------------
(* What the invariant says of framing and of answers.                      *)

\* A reader that knows its place says rightly what is left of its record.
LEMMA FramedShows ==
    ASSUME Typed, Control, Framed, InProgress
    PROVE  Framing
<1> SUFFICES ASSUME Position > 0
             PROVE  IF headerLen > 0 THEN wire[Position][2] = headerLen
                    ELSE contentLen + paddingLen = Size(script[wire[Position][1]]) - wire[Position][2]
  BY DEF Framing
<1>1. Places
  BY PlacesOK
<1>2. FramedIn(script, wire, Mark, contentLen, paddingLen) /\ Mark = Position - headerLen
  BY DEF Framed, Mark
<1>3. CASE headerLen = 0
  <2>0. Position \in Nat
    BY <1>1 DEF Places, Position
  <2>1. Mark = Position /\ Mark # 0 /\ Mark \in 1..Len(wire)
    BY <1>1, <1>2, <1>3, <2>0 DEF Places
  <2> DEFINE r == script[wire[Mark][1]]
             k == wire[Mark][2]
             z == Size(r)
             l == r.len
             g == r.pad
  <2>2. r \in Record /\ k \in Nat
    BY <1>1, <2>1 DEF Places
  <2>3. z = HeaderLen + l + g /\ l \in Nat /\ g \in Nat /\ HeaderLen \in Nat
    BY <1>1, <2>2 DEF Size, Record, Places
  <2>4. IF k <= HeaderLen + l THEN contentLen = HeaderLen + l - k /\ paddingLen = g
        ELSE contentLen = 0 /\ paddingLen = z - k
    BY <1>2, <2>1 DEF FramedIn
  <2> HIDE DEF k, z, l, g
  <2>5. contentLen + paddingLen = z - k
    BY ONLY <2>2, <2>3, <2>4
  <2> QED BY <1>3, <2>1, <2>5 DEF z, k
<1>4. CASE headerLen > 0
  <2>1. pc = "fill" /\ contentLen = 0 /\ paddingLen = 0
    BY <1>4 DEF Control
  <2>2. Position = rdNext /\ Mark = rdNext - headerLen /\ Mark \in Nat
    BY <1>1, <2>1 DEF Position, Places
  <2>3. headerLen \in 0..HeaderLen /\ Mark + headerLen = Position /\ Mark + headerLen <= Len(wire)
    BY <1>1, <2>2 DEF Places
  <2>4. FramedIn(script, wire, Mark, 0, 0) /\ script \in Seq(Record) /\ Shape(script, wire)
    BY <1>1, <1>2, <2>1 DEF Places
  <2> DEFINE p == Mark
             n == headerLen
             i == IF p = 0 THEN 1 ELSE wire[p][1] + 1
  <2>5. p \in Nat /\ n \in 0..HeaderLen /\ n > 0 /\ p + n <= Len(wire) /\ FramedIn(script, wire, p, 0, 0)
        /\ p + n = Position
    BY <1>4, <2>2, <2>3, <2>4
  <2> HIDE DEF p, n
  <2>6. wire[p + n] = <<i, n>>
    <3>1. HeaderAhead(script, wire, p, n, i)
      BY ONLY <2>4, <2>5, FramedHeader
    <3> QED BY <3>1 DEF HeaderAhead
  <2> QED BY <1>4, <2>5, <2>6 DEF n
<1> QED BY <1>1, <1>3, <1>4 DEF Places

\* What the reader has gone past are the headers of the records up to its own.
LEMMA HeadersSeen ==
    ASSUME Typed, Control, Beginning, ServingInv, OnTrack, InProgress, FCGI_errno = "none", nested = "none",
           NEW i \in DOMAIN script
    PROVE  HeaderSeen(i) <=> i <= Cur
<1>1. Places /\ Framed /\ Mark \in 0..Len(wire) /\ headerLen \in Nat /\ headerLen < HeaderLen
      /\ HeaderLen \in Nat /\ i \in Nat /\ rdNext \in Nat /\ rdNext <= Len(wire) /\ Len(wire) \in Nat
      /\ script \in Seq(Record) /\ Shape(script, wire)
  BY PlacesOK DEF Places, OnTrack
<1>2. FramedIn(script, wire, Mark, contentLen, paddingLen)
  BY <1>1 DEF Framed
<1>3. Mark > 0 => Cur = wire[Mark][1] /\ wire[Mark][2] >= HeaderLen /\ Mark \in 1..Len(wire)
  BY <1>1, <1>2 DEF Cur, FramedIn
<1>4. Mark = 0 => Cur = 0
  BY DEF Cur
<1>5. \/ rdNext = Mark + headerLen
      \/ /\ pc = "use" /\ ~isClosed /\ headerLen = 0 /\ Mark = stop /\ rdNext <= stop
         /\ \A q \in rdNext+1..stop : IsContent(wire[q])
  <2>1. CASE pc = "fill" \/ isClosed
    BY <1>1, <2>1 DEF Places, InProgress
  <2>2. CASE pc = "use" /\ ~isClosed
    <3>1. headerLen = 0 /\ Mark = stop /\ rdNext <= stop /\ stop \in Nat /\ stopUnget \in Nat /\ stopUnget <= rdNext
      BY <1>1, <2>2 DEF Places, Control
    <3>2. CASE phase = "begin"
      <4>1. isBeginProcessed
        BY <2>2, <3>2 DEF OnTrack, Waiting
      <4>2. rdNext = stop
        BY <3>2, <4>1 DEF Beginning, BeginKnown
      <4> QED BY <1>1, <3>1, <4>2
    <3>3. CASE phase # "begin"
      <4>1. Handed
        BY <3>3 DEF ServingInv, Serving, Settled
      <4>2. stop = rdNext \/ \A q \in stopUnget+1..stop : Wanted(wire[q], type)
        BY <2>2, <4>1 DEF Handed
      <4>3. CASE stop = rdNext
        BY <1>1, <3>1, <4>3
      <4>4. CASE \A q \in stopUnget+1..stop : Wanted(wire[q], type)
        <5>1. \A q \in rdNext+1..stop : q \in stopUnget+1..stop
          BY <1>1, <3>1
        <5>2. \A q \in rdNext+1..stop : IsContent(wire[q])
          BY <4>4, <5>1 DEF Wanted
        <5> QED BY <2>2, <3>1, <5>2
      <4> QED BY <4>2, <4>3, <4>4
    <3> QED BY <3>2, <3>3
  <2> QED BY <2>1, <2>2 DEF InProgress
<1>6. ASSUME i <= Cur PROVE HeaderSeen(i)
  <2>1. Mark > 0
    BY <1>1, <1>4, <1>6 DEF Places
  <2>2. i \in 1..wire[Mark][1]
    <3>1. i >= 1
      BY <1>1 DEF Places
    <3>2. Cur \in Nat
      BY <1>1, <1>3, <2>1 DEF Places
    <3> QED BY <1>1, <1>3, <1>6, <2>1, <3>1, <3>2
  <2> DEFINE p == Mark
  <2>3. p \in 1..Len(wire) /\ wire[p][2] >= HeaderLen /\ i \in 1..wire[p][1]
    BY <1>3, <2>1, <2>2
  <2> HIDE DEF p
  <2>4. PICK q \in 1..p : wire[q] = <<i, HeaderLen>>
    BY <1>1, <2>3, HeadersBehind
  <2>5. q \in 1..rdNext
    <3>1. CASE rdNext = Mark + headerLen
      BY <1>1, <2>3, <3>1 DEF p
    <3>2. CASE pc = "use" /\ ~isClosed /\ headerLen = 0 /\ Mark = stop /\ rdNext <= stop
               /\ \A n \in rdNext+1..stop : IsContent(wire[n])
      <4>1. ~IsContent(wire[q])
        BY <1>1, <2>4 DEF IsContent
      <4>2. q \in 1..stop /\ stop \in Nat
        BY <1>1, <3>2 DEF p, Places
      <4>3. q \notin rdNext+1..stop
        BY <3>2, <4>1
      <4> QED BY <1>1, <4>2, <4>3
    <3> QED BY <1>5, <3>1, <3>2
  <2> QED BY <2>4, <2>5 DEF HeaderSeen
<1>7. ASSUME HeaderSeen(i) PROVE i <= Cur
  <2>1. PICK q \in 1..rdNext : wire[q] = <<i, HeaderLen>>
    BY <1>7 DEF HeaderSeen
  <2>2. q \in 1..Len(wire) /\ q \in Nat /\ wire[q][1] = i /\ wire[q][2] = HeaderLen
    BY <1>1, <2>1
  <2>3. q <= Mark
    <3>1. CASE rdNext = Mark + headerLen
      <4> SUFFICES ASSUME q > Mark PROVE FALSE
        BY <1>1, <2>2
      <4>1. headerLen > 0 /\ q <= Mark + headerLen
        BY <1>1, <2>1, <3>1
      <4>2. contentLen = 0 /\ paddingLen = 0
        BY <4>1 DEF Control
      <4> DEFINE p == Mark
                 n == headerLen
                 j == IF p = 0 THEN 1 ELSE wire[p][1] + 1
      <4>3. p \in Nat /\ n \in 0..HeaderLen /\ n > 0 /\ p + n <= Len(wire) /\ FramedIn(script, wire, p, 0, 0)
            /\ q \in p+1..p+n /\ n < HeaderLen
        BY <1>1, <1>2, <2>2, <3>1, <4>1, <4>2
      <4> HIDE DEF p, n
      <4>4. wire[q] = <<j, q - p>>
        <5>0. /\ script \in Seq(Record) /\ Shape(script, wire) /\ p \in Nat /\ FramedIn(script, wire, p, 0, 0)
              /\ n \in 0..HeaderLen /\ p + n <= Len(wire) /\ n > 0
          BY ONLY <1>1, <4>3
        <5>1. \A m \in p+1..p+n : m \in 1..Len(wire) /\ wire[m] = <<j, m - p>>
          <6>1. HeaderAhead(script, wire, p, n, j)
            BY ONLY <5>0, FramedHeader
          <6> QED BY ONLY <6>1 DEF HeaderAhead
        <5> HIDE DEF j
        <5> QED BY ONLY <4>3, <5>1
      <4>5. q - p < HeaderLen
        BY <1>1, <4>3
      <4>6. q - p = HeaderLen
        BY <2>2, <4>4
      <4> QED BY <1>1, <4>3, <4>5, <4>6
    <3>2. CASE headerLen = 0 /\ Mark = stop /\ rdNext <= stop
      BY <1>1, <2>1, <3>2 DEF Places
    <3> QED BY <1>5, <3>1, <3>2
  <2> DEFINE p == Mark
  <2>4. p \in 1..Len(wire) /\ Cur = wire[p][1] /\ q <= p
    BY <1>1, <1>3, <2>2, <2>3
  <2> HIDE DEF p
  <2>5. wire[q][1] <= wire[p][1]
    BY <1>1, <2>2, <2>4, CellsInOrder
  <2> QED BY <2>2, <2>4, <2>5
<1> QED BY <1>6, <1>7

LEMMA AnsweringShows ==
    ASSUME Typed, Control, Beginning, ServingInv, OnTrack, InProgress, FCGI_errno = "none", nested = "none"
    PROVE  replies = Selected([i \in DOMAIN script |-> i],
                              {i \in DOMAIN script : CallsForAnswer(i) /\ HeaderSeen(i)})
<1> DEFINE U == {i \in DOMAIN script : CallsForAnswer(i) /\ HeaderSeen(i)}
           n == Len(script)
           c == Cur
<1>1. Places /\ n \in Nat /\ DOMAIN script = 1..n
  BY PlacesOK DEF Places
<1>2. c \in 0..n
  BY <1>1 DEF Places, Cur
<1>3. replies = Selected([i \in 1..c |-> i], Calls)
  BY DEF OnTrack, Answering, AnsweredUpTo
<1>4. \A i \in 1..n : HeaderSeen(i) <=> i <= c
  BY <1>1, HeadersSeen
<1>5. \A i \in 1..n : i \in U <=> i \in Calls /\ i <= c
  BY <1>1, <1>4 DEF Calls
<1> HIDE DEF U, n, c
<1>6. Selected([i \in 1..n |-> i], U) = Selected([i \in 1..c |-> i], Calls)
  BY <1>1, <1>2, <1>5, NumbersUpTo
<1> QED BY <1>1, <1>3, <1>6 DEF U

-----------------------------------------------------------------------------
(* What a step leaves as it was.                                           *)

\* Only the server sends, and only FCGX_Finish_r counts a request as served.
LEMMA OnlyServerSends ==
    ASSUME [Next]_vars, ~Server
    PROVE  /\ SameConversation /\ sent' = sent /\ serverShut' = serverShut
           /\ AppFinish \/ served' = served
<1>1. CASE Finished \/ UNCHANGED vars
  BY <1>1 DEF Finished, vars, server, SameConversation
<1>2. CASE FillBuffProc
  BY <1>2 DEF FillBuffProc, OSRead, OSReadFails, DeliverContent, SkipContent, SkipPadding,
     DeliverEndOfRecord, GatherHeader, server, SameConversation
<1>3. CASE ProcessHeader
  <2>1. AtHeader
    BY <1>3, AtHeaderOf
  <2> QED BY <2>1 DEF AtHeader, server, SameConversation
<1>4. CASE NestedRead
  BY <1>4 DEF NestedRead, BeginBodyPart, BeginBodyDone, BeginBodyCut, ValuesPart, ValuesDone, ValuesCut,
     NestedError, server, SameConversation
<1>5. CASE Accept
  BY <1>5 DEF Accept, BeginDone, GiveUp, ParamsPart, ParamsDone, server, SameConversation
<1>6. CASE App
  BY <1>6 DEF App, AcceptRequest, AppGet, AppFill, AppUnGet, AppStartFilterData, AppFClose,
     AppClearError, AppFinish, server, SameConversation
<1> QED BY <1>1, <1>2, <1>3, <1>4, <1>5, <1>6 DEF Next, Library

LEMMA KeepsItsRequest ==
    ASSUME Control, FillBuffProc
    PROVE  pc = "fill" /\ pc' \in {"fill", "use"} /\ replies' = replies /\ keepConnection' = keepConnection
           /\ (FCGI_errno' = FCGI_errno \/ OSReadFails)
BY DEF FillBuffProc, OSRead, OSReadFails, DeliverContent, SkipContent, SkipPadding, DeliverEndOfRecord,
   GatherHeader, MustRead, Filling, PastContent, request, control, status

\* The first error is kept: nothing in the library clears it.
LEMMA ErrorStays ==
    ASSUME Calm, Control, [Next]_vars, InProgress, FCGI_errno # "none"
    PROVE  FCGI_errno' # "none" /\ pc' # "idle"
<1>1. CASE Server \/ Finished \/ UNCHANGED vars
  BY <1>1 DEF Server, ServerSend, ServerClose, Finished, vars, status, control, InProgress
<1>2. CASE FillBuffProc
  BY <1>2 DEF FillBuffProc, OSRead, OSReadFails, DeliverContent, SkipContent, SkipPadding,
     DeliverEndOfRecord, GatherHeader, MustRead, Filling, PastContent, SetError, status, control, InProgress
<1>3. CASE ProcessHeader
  <2>1. FCGI_errno' = FCGI_errno
    BY <1>3 DEF ProcessHeader, UnsupportedVersion, RefuseBegin, RefuseMultiplexing, BeginRequest,
     GetValues, UnknownManagement, ForeignRecord, UnexpectedType, StreamRecord, EndOfStream,
     ReturnError, ContinueFill, Recurse, SetError
  <2>2. pc' # "idle"
    BY <1>3 DEF ProcessHeader, UnsupportedVersion, RefuseBegin, RefuseMultiplexing, BeginRequest,
     GetValues, UnknownManagement, ForeignRecord, UnexpectedType, StreamRecord, EndOfStream,
     ReturnError, ContinueFill, Recurse, SetError
  <2> QED BY <2>1, <2>2
<1>4. CASE NestedRead
  BY <1>4 DEF NestedRead, BeginBodyPart, BeginBodyDone, BeginBodyCut, ValuesPart, ValuesDone, ValuesCut,
     NestedError, SetError, status, InProgress
<1>5. CASE Accept
  BY <1>5 DEF Accept, BeginDone, GiveUp, ParamsPart, ParamsDone, SetReaderType, status, InProgress
<1>6. CASE App
  BY <1>6 DEF App, AcceptRequest, AppGet, AppFill, AppUnGet, AppStartFilterData, AppFClose,
     AppClearError, AppFinish, SetReaderType, SetError, status, control, InProgress, Calm
<1> QED BY <1>1, <1>2, <1>3, <1>4, <1>5, <1>6 DEF Next, Library

\* FCGX_Finish_r alone leaves the connection for the next request.
LEMMA IdleAfterFinish ==
    ASSUME Control, [Next]_vars, pc' = "idle"
    PROVE  \/ AppFinish /\ keepConnection /\ FCGI_errno = "none"
           \/ pc = "idle" /\ (Server \/ UNCHANGED vars)
<1>1. CASE Server \/ UNCHANGED vars
  BY <1>1 DEF Server, ServerSend, ServerClose, vars, control
<1>2. CASE Finished
  BY <1>2 DEF Finished, MustRead, vars, control
<1>3. ~FillBuffProc
  BY KeepsItsRequest
<1>4. ~ProcessHeader
  BY DEF ProcessHeader, UnsupportedVersion, RefuseBegin, RefuseMultiplexing, BeginRequest,
     GetValues, UnknownManagement, ForeignRecord, UnexpectedType, StreamRecord, EndOfStream,
     ReturnError, ContinueFill, Recurse
<1>5. ~NestedRead
  BY DEF NestedRead, BeginBodyPart, BeginBodyDone, BeginBodyCut, ValuesPart, ValuesDone, ValuesCut,
     NestedError, Reading
<1>6. ~Accept
  BY DEF Accept, BeginDone, GiveUp, ParamsPart, ParamsDone, InAccept, Reading
<1>7. CASE App
  BY <1>7 DEF App, AcceptRequest, AppGet, AppFill, AppUnGet, AppStartFilterData, AppFClose,
     AppClearError, AppFinish, InAccept, Reading, control
<1> QED BY <1>1, <1>2, <1>3, <1>4, <1>5, <1>6, <1>7 DEF Next, Library

-----------------------------------------------------------------------------
(* Steps of an orderly connection.                                         *)

Ordered == Orderly /\ Typed /\ Control /\ Tracked /\ Beginning /\ ServingInv
Reader  == Ordered /\ Sending /\ OnTrack /\ InProgress /\ FCGI_errno = "none"

LEMMA ServerSendSending ==
    ASSUME Orderly, Typed, Control, Sending, ServerSend
    PROVE  Sending'
<1>0. script \in Seq(Record) /\ Shape(script, wire) /\ sent \in Nat /\ Len(wire) \in Nat
  BY PlacesOK DEF Places
<1>1. ~serverShut' /\ sent < Len(wire) /\ script' = script /\ wire' = wire /\ served' = served
  BY DEF ServerSend, server
<1> DEFINE p == sent
           i == IF p = 0 THEN 1 ELSE wire[p][1] + 1
           z == Size(script[i])
<1>2. p \in Nat /\ p < Len(wire) /\ FramedIn(script, wire, p, 0, 0)
  BY <1>0, <1>1 DEF Sending, AtEnd
<1> HIDE DEF p
<1>3. /\ i \in 1..Len(script) /\ z \in Nat /\ p + z <= Len(wire)
      /\ \A q \in p+1..p+z : q \in 1..Len(wire) /\ wire[q] = <<i, q - p>>
  <2>1. RecordAhead(script, wire, p, i)
    BY ONLY <1>0, <1>2, NextRecord
  <2> QED BY <2>1 DEF RecordAhead
<1>4. z > 0
  BY <1>0, <1>3, SizePositive
<1> HIDE DEF i, z
<1>5. wire[p + 1] = <<i, 1>>
  BY ONLY <1>2, <1>3, <1>4
<1>6. script[i].req <= served + 1
  BY <1>5, OrderlyMeans DEF ServerSend, MaySend, p
<1>7. sent' = p + z
  <2>1. sent' = p + 1 + (z - 1)
    BY <1>5 DEF ServerSend, p, z
  <2> QED BY <1>2, <1>3, <2>1
<1>8. FramedIn(script, wire, p + z, 0, 0)
  <2>1. p + z \in p+1..p+z /\ (p + z) - p = z
    BY ONLY <1>2, <1>3, <1>4
  <2>2. wire[p + z] = <<i, z>>
    BY <1>3, <2>1
  <2>3. z = HeaderLen + script[i].len + script[i].pad /\ script[i].len \in Nat /\ script[i].pad \in Nat
        /\ HeaderLen \in Nat /\ HeaderLen > 0
    <3>1. script[i] \in Record
      BY <1>0, <1>3
    <3> QED BY <3>1, SizesAssumption DEF z, Size, Record
  <2>4. wire[p + z][1] = i /\ wire[p + z][2] = z /\ p + z # 0
    BY <1>2, <1>3, <1>4, <2>2
  <2> DEFINE a == p + z
             l == script[i].len
             g == script[i].pad
  <2>5. z >= HeaderLen /\ (IF z <= HeaderLen + l THEN 0 = HeaderLen + l - z /\ 0 = g ELSE 0 = 0 /\ 0 = z - z)
    BY <2>3
  <2>6. wire[a][1] = i /\ wire[a][2] = z /\ a # 0
    BY <2>4
  <2> HIDE DEF a
  <2> QED BY <2>5, <2>6 DEF FramedIn, z, a
<1>9. \A q \in 1..sent' : script[wire[q][1]].req <= served + 1
  <2> SUFFICES ASSUME NEW q \in 1..p+z PROVE script[wire[q][1]].req <= served + 1
    BY <1>7
  <2>1. CASE q <= p
    BY <1>2, <2>1 DEF Sending, p
  <2>2. CASE q > p
    <3>1. q \in p+1..p+z
      BY <1>2, <1>3, <2>2
    <3>2. wire[q][1] = i
      BY <1>3, <3>1
    <3> QED BY <1>6, <3>2
  <2> QED BY <1>2, <2>1, <2>2
<1> QED BY <1>1, <1>7, <1>8, <1>9 DEF Sending, AtEnd, FramedIn, Size

LEMMA StepSending ==
    ASSUME Orderly, Typed, Control, Sending, [Next]_vars
    PROVE  Sending'
<1>1. CASE ServerSend
  BY <1>1, ServerSendSending
<1>2. CASE ServerClose
  BY <1>2, OrderlyMeans DEF ServerClose
<1>3. CASE ~Server
  <2>1. SameConversation /\ sent' = sent /\ serverShut' = serverShut /\ (AppFinish \/ served' = served)
    BY <1>3, OnlyServerSends
  <2>2. served \in Nat /\ served' \in {served, served + 1}
    BY <2>1 DEF AppFinish, Typed, CallsOK
  <2>3. ~serverShut' /\ AtEnd(sent)'
    BY <2>1 DEF Sending, AtEnd, SameConversation, FramedIn, Size
  <2>4. ASSUME NEW p \in 1..sent' PROVE script'[wire'[p][1]].req <= served' + 1
    <3>1. p \in 1..sent /\ script'[wire'[p][1]].req = script[wire[p][1]].req
      BY <2>1 DEF SameConversation
    <3>2. script[wire[p][1]].req <= served + 1
      BY <3>1 DEF Sending
    <3>3. script[wire[p][1]] \in Record
      <4>1. Places
        BY PlacesOK
      <4>2. p \in 1..Len(wire)
        BY <3>1, <4>1 DEF Places
      <4> QED BY <4>1, <4>2 DEF Places
    <3>4. script[wire[p][1]].req \in Nat
      BY <3>3 DEF Record
    <3> QED BY <2>2, <3>1, <3>2, <3>4
  <2> QED BY <2>3, <2>4 DEF Sending
<1> QED BY <1>1, <1>2, <1>3 DEF Server

\* A step that keeps the request, its record and what was answered.
Steady ==
    /\ SameConversation /\ Cur' = Cur /\ Framed'
    /\ served' = served /\ requestId' = requestId /\ begun' = begun /\ replies' = replies
    /\ isBeginProcessed' = isBeginProcessed /\ role' = role /\ keepConnection' = keepConnection
    /\ nested' = nested /\ phase' = phase /\ type' = type
    /\ contentLen' > 0 => contentLen > 0 /\ skip' = skip
    /\ isClosed' => isClosed \/ nested # "none"
    /\ pc' = "use" => pc = "use" \/ nested # "none" \/ (contentLen > 0 /\ ~skip)

LEMMA SteadyOnTrack ==
    ASSUME OnTrack, InProgress, Typed, Control, Steady
    PROVE  OnTrack'
<1>0. Places
  BY PlacesOK
<1> DEFINE c == Cur
<1>1. DOMAIN script' = DOMAIN script /\ script' = script /\ Accepted' = Accepted /\ Calls' = Calls
  BY DEF Steady, SameConversation, Accepted, Calls, CallsForAnswer
<1>2. Turn'
  BY <1>1 DEF Steady, OnTrack, Turn, Known, Begins
<1>3. Waiting'
  BY DEF Steady, OnTrack, Waiting
<1>4. StreamEnded'
  BY <1>1 DEF Steady, OnTrack, StreamEnded, Serving, Open, InProgress
<1>5. Answering'
  BY <1>1 DEF Steady, OnTrack, Answering, AnsweredUpTo
<1>6. Framed'
  BY DEF Steady
<1> QED BY <1>2, <1>3, <1>4, <1>5, <1>6 DEF OnTrack

LEMMA FillBuffProcOnTrack ==
    ASSUME Reader, FillBuffProc, ~OSReadFails
    PROVE  OnTrack'
<1>1. /\ Typed /\ Control /\ Tracked /\ OnTrack /\ InProgress /\ Framed
  BY DEF Reader, Ordered, OnTrack
<1>2. FillKeeps /\ requestId' = requestId /\ begun' = begun /\ nested' = nested
  BY <1>1, FillBuffProcKeeps
<1>3. replies' = replies /\ keepConnection' = keepConnection
  BY <1>1, KeepsItsRequest
<1>4. ~Stray
  BY <1>1, OneOfThem
<1>5. CASE OSRead
  <2>1. /\ Mark' = Mark /\ contentLen' = contentLen /\ paddingLen' = paddingLen /\ skip' = skip /\ isClosed' = isClosed
        /\ pc' = pc
    BY <1>5 DEF OSRead, Mark, Position, ptrs, record, control, status
  <2>2. Framed' = Framed /\ Cur' = Cur
    BY <1>1, <1>2, <2>1, PlaceKept DEF FillKeeps
  <2>3. Steady
    BY <1>1, <1>2, <1>3, <2>1, <2>2 DEF Steady, FillKeeps
  <2> QED BY <1>1, <2>3, SteadyOnTrack
<1>6. CASE DeliverContent
  <2>1. Framed' /\ Cur' = Cur
    BY <1>1, <1>6, DeliverContentTracked
  <2>2. contentLen > 0 /\ ~skip /\ skip' = skip /\ isClosed' = isClosed
    BY <1>6 DEF DeliverContent, status
  <2>3. Steady
    BY <1>1, <1>2, <1>3, <2>1, <2>2 DEF Steady, FillKeeps
  <2> QED BY <1>1, <2>3, SteadyOnTrack
<1>7. CASE SkipContent
  <2>1. Framed' /\ Cur' = Cur
    BY <1>1, <1>7, SkipContentTracked
  <2>2. contentLen > 0 /\ skip' = skip /\ isClosed' = isClosed /\ pc' = pc /\ pc = "fill"
    <3>1. contentLen > ContentPart /\ ContentPart \in Nat
      BY <1>1, <1>7, Iteration DEF SkipContent, Within, Typed
    <3>2. contentLen \in Nat
      BY <1>1 DEF Typed, RecordOK
    <3>3. contentLen > 0
      BY <3>1, <3>2
    <3> QED BY <1>7, <3>3 DEF SkipContent, status, control, Filling
  <2>3. Steady
    BY <1>1, <1>2, <1>3, <2>1, <2>2 DEF Steady, FillKeeps
  <2> QED BY <1>1, <2>3, SteadyOnTrack
<1>8. CASE SkipPadding
  <2>1. Framed' /\ Cur' = Cur /\ contentLen' = 0
    BY <1>1, <1>8, SkipPaddingTracked
  <2>2. isClosed' = isClosed /\ pc' = pc /\ pc = "fill"
    BY <1>8 DEF SkipPadding, PastContent, status, control, Filling
  <2>3. Steady
    BY <1>1, <1>2, <1>3, <2>1, <2>2 DEF Steady, FillKeeps
  <2> QED BY <1>1, <2>3, SteadyOnTrack
<1>9. CASE DeliverEndOfRecord
  <2>1. Framed' /\ Cur' = Cur /\ contentLen' = 0 /\ nested # "none"
    BY <1>1, <1>9, DeliverEndOfRecordTracked
  <2>2. Steady
    BY <1>1, <1>2, <1>3, <2>1 DEF Steady, FillKeeps
  <2> QED BY <1>1, <2>2, SteadyOnTrack
<1>10. CASE GatherHeader
  <2>1. Framed' /\ Cur' = Cur /\ contentLen' = 0
    BY <1>1, <1>4, <1>10, GatherHeaderTracked
  <2>2. isClosed' = isClosed /\ pc' = pc /\ pc = "fill"
    BY <1>10 DEF GatherHeader, PastContent, status, control, Filling
  <2>3. Steady
    BY <1>1, <1>2, <1>3, <2>1, <2>2 DEF Steady, FillKeeps
  <2> QED BY <1>1, <2>3, SteadyOnTrack
<1> QED BY <1>5, <1>6, <1>7, <1>8, <1>9, <1>10 DEF FillBuffProc

\* The server sends, and nothing happens.
LEMMA QuietOnTrack ==
    ASSUME Reader, ServerSend \/ Finished \/ UNCHANGED vars
    PROVE  OnTrack'
<1>1. Typed /\ Control /\ OnTrack /\ InProgress /\ Framed
  BY DEF Reader, Ordered, OnTrack
<1>2. /\ SameConversation
      /\ served' = served /\ requestId' = requestId /\ begun' = begun /\ replies' = replies
      /\ isBeginProcessed' = isBeginProcessed /\ role' = role /\ keepConnection' = keepConnection
      /\ nested' = nested /\ phase' = phase /\ type' = type
      /\ contentLen' = contentLen /\ skip' = skip /\ isClosed' = isClosed /\ pc' = pc
  BY DEF ServerSend, Finished, vars, SameConversation, server, request, control, status, record
<1>3. rdNext' = rdNext /\ stop' = stop /\ headerLen' = headerLen /\ paddingLen' = paddingLen
  BY DEF ServerSend, Finished, vars, ptrs, record
<1>4. Mark' = Mark
  BY <1>2, <1>3 DEF Mark, Position
<1>5. Framed' = Framed /\ Cur' = Cur
  BY <1>1, <1>2, <1>3, <1>4, PlaceKept
<1>6. Steady
  BY <1>1, <1>2, <1>5 DEF Steady
<1> QED BY <1>1, <1>6, SteadyOnTrack

\* A consumer takes what was handed out.
LEMMA ReadsOnTrack ==
    ASSUME Reader, BeginBodyPart \/ ValuesPart \/ ParamsPart \/ AppGet \/ AppFill \/ AppUnGet
    PROVE  OnTrack'
<1>1. Typed /\ Control /\ Tracked /\ OnTrack /\ InProgress /\ Framed
  BY DEF Reader, Ordered, OnTrack
<1>2. /\ SameConversation
      /\ served' = served /\ requestId' = requestId /\ begun' = begun /\ replies' = replies
      /\ isBeginProcessed' = isBeginProcessed /\ role' = role /\ keepConnection' = keepConnection
      /\ nested' = nested /\ phase' = phase /\ type' = type
      /\ contentLen' = contentLen /\ skip' = skip /\ isClosed' = isClosed /\ pc = "use"
  <2>1. CASE BeginBodyPart \/ ValuesPart
    BY <2>1 DEF BeginBodyPart, ValuesPart, Reading, SameConversation, server, request, status, record
  <2>2. CASE ParamsPart \/ AppGet
    BY <2>2 DEF ParamsPart, AppGet, InAccept, Reading, SameConversation, server, request, status, record, control
  <2>3. CASE AppFill \/ AppUnGet
    BY <2>3 DEF AppFill, AppUnGet, InAccept, Reading, SameConversation, server, request, status, record, control
  <2> QED BY <2>1, <2>2, <2>3
<1>3. Framed' /\ Cur' = Cur
  <2>1. CASE BeginBodyPart \/ ValuesPart
    BY <1>1, <2>1, NestedReadTracked DEF NestedRead
  <2>2. CASE ParamsPart
    BY <1>1, <2>2, ParamsPartTracked
  <2>3. CASE AppGet \/ AppFill \/ AppUnGet
    <3>1. Serving => Delivered
      BY DEF Reader, Ordered, ServingInv, Settled
    <3>2. Framed' = Framed /\ Cur' = Cur
      BY <1>1, <2>3, <3>1, AppReadsTracked
    <3> QED BY <1>1, <3>2
  <2> QED BY <2>1, <2>2, <2>3
<1>4. Steady
  BY <1>1, <1>2, <1>3 DEF Steady
<1> QED BY <1>1, <1>4, SteadyOnTrack

\* Without a server that goes away every failed read leaves an error.
LEMMA FailuresLeaveErrors ==
    ASSUME Reader, OSReadFails \/ BeginBodyCut \/ ValuesCut
    PROVE  FCGI_errno' # "none"
<1>1. ~serverShut
  BY DEF Reader, Sending
<1> QED BY <1>1 DEF OSReadFails, BeginBodyCut, ValuesCut, NestedError, SetError

\* The BEGIN record was read: the role and the flag are those it states.
LEMMA BeginBodyDoneOnTrack ==
    ASSUME Reader, BeginBodyDone
    PROVE  OnTrack'
<1>1. Typed /\ Control /\ Tracked /\ OnTrack /\ InProgress /\ Framed /\ Premises /\ BeginBody
  BY OrderlyMeans DEF Reader, Ordered, OnTrack, Beginning
<1>2. /\ SameConversation /\ Cur' = Cur /\ Framed'
  BY <1>1, NestedReadTracked DEF NestedRead
<1>3. /\ nested = "begin" /\ nested' = "none" /\ phase = "begin" /\ phase' = phase /\ type = "NONE" /\ type' = type
      /\ served' = served /\ requestId' = requestId /\ begun' = begun /\ replies' = replies
      /\ isBeginProcessed' = TRUE /\ pc' = pc /\ pc = "use"
      /\ role' = HeaderAt(stop).role /\ keepConnection' = HeaderAt(stop).keep
  BY <1>1 DEF BeginBodyDone, Reading, status, Control
<1>4. BeginKnown' /\ HeaderAt(stop) = script[begun]
  BY <1>1, BeginBodyDoneKnown DEF HeaderAt
<1>5. Turn'
  <2>1. Accepted /\ Accepted' /\ script' = script
    BY <1>2, <1>3 DEF Accepted, SameConversation
  <2> QED BY <1>1, <1>2, <1>3, <1>4, <2>1 DEF OnTrack, Turn, Known, Begins
<1>6. Waiting'
  <2>1. contentLen' = 0
    BY <1>3, <1>4 DEF BeginKnown, InProgress
  <2> QED BY <1>3, <2>1 DEF Waiting
<1>7. StreamEnded'
  BY <1>3 DEF StreamEnded, Serving
<1>8. Answering'
  <2>1. Calls' = Calls
    BY <1>2 DEF SameConversation, Calls, CallsForAnswer
  <2> QED BY <1>1, <1>2, <1>3, <2>1 DEF OnTrack, Answering, AnsweredUpTo
<1> QED BY <1>2, <1>5, <1>6, <1>7, <1>8 DEF OnTrack

\* A GET_VALUES record is answered once its content was read.
LEMMA ValuesDoneOnTrack ==
    ASSUME Reader, ValuesDone
    PROVE  OnTrack'
<1>1. Typed /\ Control /\ Tracked /\ OnTrack /\ InProgress /\ Framed /\ Places
  BY PlacesOK DEF Reader, Ordered, OnTrack
<1>2. /\ SameConversation /\ Cur' = Cur /\ Framed'
  BY <1>1, NestedReadTracked DEF NestedRead
<1>3. /\ nested = "values" /\ nested' = "none" /\ phase' = phase /\ type' = type
      /\ served' = served /\ requestId' = requestId /\ begun' = begun
      /\ isBeginProcessed' = isBeginProcessed /\ role' = role /\ keepConnection' = keepConnection
      /\ pc' = "fill" /\ pc = "use" /\ isClosed /\ isClosed' = FALSE /\ contentLen' = 0
      /\ replies' = Append(replies, wire[rdNext][1])
  BY DEF ValuesDone, Reading, ValuesComplete, Answer, request
<1>4. Turn'
  <2>1. Accepted' = Accepted /\ script' = script
    BY <1>2, <1>3 DEF Accepted, SameConversation
  <2> QED BY <1>1, <1>2, <1>3, <2>1 DEF OnTrack, Turn, Known, Begins
<1>5. Waiting'
  BY <1>3 DEF Waiting
<1>6. StreamEnded'
  BY <1>3 DEF StreamEnded, Open
<1>7. Answering'
  <2>1. Calls' = Calls
    BY <1>2 DEF SameConversation, Calls, CallsForAnswer
  <2>2. Cur > 0 /\ script[Cur].id = 0 /\ AnsweredUpTo(Cur - 1)
    BY <1>1, <1>3 DEF OnTrack, Answering
  <2>3. Mark = rdNext /\ Mark # 0 /\ wire[rdNext][1] = Cur
    BY <1>1, <1>3, <2>2 DEF Places, Cur
  <2>4. Cur \in Nat
    BY <1>1, <2>3 DEF Places
  <2> DEFINE c == Cur - 1
  <2>5. c \in Nat /\ c + 1 = Cur
    BY <2>2, <2>4
  <2>6. c + 1 \in Calls
    BY <2>2, <2>4, <2>5 DEF Calls, CallsForAnswer
  <2>7. replies = Selected([i \in 1..c |-> i], Calls) /\ replies' = Append(replies, c + 1)
    BY <1>3, <2>2, <2>3, <2>5 DEF AnsweredUpTo
  <2> HIDE DEF c
  <2>8. replies' = Selected([i \in 1..c+1 |-> i], Calls)
    BY <2>5, <2>6, <2>7, OneMoreNumber
  <2>9. AnsweredUpTo(Cur)'
    BY <1>2, <2>1, <2>5, <2>8 DEF AnsweredUpTo
  <2> QED BY <1>3, <2>9 DEF Answering
<1> QED BY <1>2, <1>4, <1>5, <1>6, <1>7 DEF OnTrack

\* SetReaderType: the next stream of the request.
LEMMA NextStreamOnTrack ==
    ASSUME Reader, BeginDone \/ ParamsDone \/ AppStartFilterData
    PROVE  OnTrack'
<1>1. /\ Typed /\ Control /\ Tracked /\ Beginning /\ OnTrack /\ InProgress /\ Framed
      /\ FCGI_errno = "none" /\ ~serverShut /\ Calm /\ "seq" \notin Faults
  BY OrderlyMeans DEF Reader, Ordered, OnTrack, Sending, Calm
<1>2. CASE BeginDone
  <2>1. SameConversation /\ Cur' = Cur /\ Framed'
    BY <1>1, <1>2, BeginDoneTracked
  <2>2. /\ served' = served /\ requestId' = requestId /\ begun' = begun /\ replies' = replies
        /\ isBeginProcessed' = isBeginProcessed /\ role' = role /\ keepConnection' = keepConnection
        /\ nested = "none" /\ nested' = nested /\ phase' = "params" /\ type' = "PARAMS" /\ isClosed' = FALSE
        /\ isBeginProcessed
    BY <1>2 DEF BeginDone, SetReaderType, InAccept, Reading, request
  <2>3. Accepted' = Accepted /\ script' = script /\ Calls' = Calls
    BY <2>1, <2>2 DEF Accepted, SameConversation, Calls, CallsForAnswer
  <2>4. Turn'
    BY <1>1, <2>1, <2>2, <2>3 DEF OnTrack, Turn, Known, Begins
  <2>5. Waiting' /\ StreamEnded'
    BY <2>2 DEF Waiting, StreamEnded, Open
  <2>6. Answering'
    BY <1>1, <2>1, <2>2, <2>3 DEF OnTrack, Answering, AnsweredUpTo
  <2> QED BY <2>1, <2>4, <2>5, <2>6 DEF OnTrack
<1>3. CASE ParamsDone \/ AppStartFilterData
  <2>1. /\ SetReaderType("STDIN") \/ (SetReaderType("DATA") /\ role = "FILTER")
        /\ UNCHANGED server /\ pc = "use" /\ pc' = "use" /\ nested = "none" /\ nested' = "none" /\ isClosed
        /\ phase # "begin" /\ phase' = "app" /\ request' = request /\ replies' = replies /\ served' = served
    BY <1>1, <1>3 DEF ParamsDone, AppStartFilterData, AtEOF, InAccept, Reading, control
  <2>2. SameConversation /\ Cur' = Cur /\ Framed'
    BY <1>1, <2>1, NextStreamTracked
  <2>3. /\ requestId' = requestId /\ begun' = begun /\ isBeginProcessed' = isBeginProcessed /\ role' = role
        /\ keepConnection' = keepConnection /\ isClosed' = FALSE
        /\ type' = "STDIN" \/ (type' = "DATA" /\ role = "FILTER")
    BY <2>1 DEF SetReaderType, request
  <2>4. Accepted' = Accepted /\ script' = script /\ Calls' = Calls
    BY <2>1, <2>2, <2>3 DEF Accepted, SameConversation, Calls, CallsForAnswer
  <2>5. Turn'
    BY <1>1, <2>1, <2>2, <2>3, <2>4 DEF OnTrack, Turn, Known, Begins
  <2>6. Waiting' /\ StreamEnded'
    BY <2>1, <2>3 DEF Waiting, StreamEnded, Open
  <2>7. Answering'
    BY <1>1, <2>1, <2>2, <2>3, <2>4 DEF OnTrack, Answering, AnsweredUpTo
  <2> QED BY <2>2, <2>5, <2>6, <2>7 DEF OnTrack
<1> QED BY <1>2, <1>3

\* FCGX_Accept_r starts between two records.
LEMMA AcceptRequestOnTrack ==
    ASSUME Typed, Control, Between, AcceptRequest
    PROVE  OnTrack'
<1>1. /\ pc = "idle" /\ rdNext' = buffStop /\ headerLen' = 0 /\ contentLen' = 0 /\ paddingLen' = 0
      /\ isBeginProcessed' = FALSE /\ nested' = "none" /\ phase' = "begin" /\ pc' = "fill"
      /\ served' = served /\ replies' = replies /\ SameConversation
  BY DEF AcceptRequest, server, SameConversation
<1>2. type' = "NONE" /\ buffStop \in Nat
  BY PlacesOK DEF AcceptRequest, Places
<1>3. Mark' = buffStop
  BY <1>1, <1>2 DEF Mark, Position
<1>4. Cur' = RecordAt(buffStop)
  BY <1>1, <1>3, FramedNext DEF RecordAt
<1>5. /\ AtEnd(buffStop) /\ AnsweredUpTo(RecordAt(buffStop))
      /\ \A j \in DOMAIN script :
              IF j <= RecordAt(buffStop) THEN script[j].req <= served ELSE script[j].req > served
  BY <1>1 DEF Between
<1>6. Framed'
  BY <1>1, <1>3, <1>5, FramedNext DEF AtEnd
<1> DEFINE c == RecordAt(buffStop)
<1>7. c \in 0..Len(script) /\ DOMAIN script = 1..Len(script) /\ Len(script) \in Nat
  <2>1. Places
    BY PlacesOK
  <2>2. DOMAIN script = 1..Len(script) /\ Len(script) \in Nat
    BY <2>1 DEF Places
  <2>3. CASE buffStop = 0
    BY <2>2, <2>3 DEF RecordAt
  <2>4. CASE buffStop # 0
    <3>1. buffStop \in 1..Len(wire)
      BY <2>1, <2>4 DEF Places
    <3>2. wire[buffStop][1] \in 1..Len(script)
      BY <2>1, <3>1 DEF Places
    <3> QED BY <2>2, <2>4, <3>2 DEF RecordAt
  <2> QED BY <2>2, <2>3, <2>4
<1>8. script' = script /\ Calls' = Calls
  BY <1>1 DEF SameConversation, Calls, CallsForAnswer
<1> HIDE DEF c
<1>9. Turn'
  <2>1. \A j \in DOMAIN script : j > c => script[j].req > served
    BY <1>5, <1>7 DEF c
  <2>2. \A j \in 1..c : script[j].req <= served
    BY <1>5, <1>7 DEF c
  <2>3. Cur' = c
    BY <1>4 DEF c
  <2> QED BY <1>1, <1>2, <1>8, <2>1, <2>2, <2>3 DEF Turn, Accepted
<1>10. Waiting' /\ StreamEnded'
  BY <1>1 DEF Waiting, StreamEnded, Serving
<1>11. Answering'
  BY <1>1, <1>4, <1>5, <1>8 DEF Answering, AnsweredUpTo
<1> QED BY <1>6, <1>9, <1>10, <1>11 DEF OnTrack

\* FCGX_Finish_r leaves nothing in the buffer: the server has not sent more.
LEMMA AppFinishBetween ==
    ASSUME Reader, AppFinish, pc' = "idle"
    PROVE  Between'
<1>1. /\ Typed /\ Control /\ Tracked /\ OnTrack /\ InProgress /\ Framed /\ Places /\ Sending /\ ServingInv
      /\ FCGI_errno = "none" /\ ~serverShut /\ Calm /\ Drains
  BY PlacesOK, OrderlyMeans DEF Reader, Ordered, OnTrack, Sending
<1>2. /\ pc = "use" /\ nested = "none" /\ phase = "app" /\ isClosed /\ keepConnection
      /\ role = "FILTER" => type = "DATA"
  BY <1>1 DEF AppFinish, InAccept, Reading, AtEOF
<1>3. /\ served' = served + 1 /\ served \in Nat /\ SameConversation /\ replies' = replies
      /\ buffStop' = buffStop /\ FCGI_errno' = "none"
  BY <1>1 DEF AppFinish, server, ptrs, status, SameConversation, Typed, CallsOK
<1>4. contentLen = 0 /\ paddingLen = 0 /\ Mark = rdNext
  BY <1>1, <1>2 DEF Tracked, Open, Dead, Places
<1>5. Mark > 0 /\ begun <= Cur /\ Known
  BY <1>1, <1>2 DEF ServingInv, Serving, Settled, Identified
<1>6. /\ begun < Cur /\ script[Cur].type = type /\ script[Cur].id = requestId /\ script[Cur].len = 0
  BY <1>1, <1>2 DEF OnTrack, StreamEnded, Serving, Open
<1>7. /\ isBeginProcessed
      /\ \A j \in DOMAIN script : j > Cur => script[j].req > served
      /\ script[begun].req = served + 1
      /\ \A j \in 1..begun-1 : script[j].type = "BEGIN" => script[j].req <= served
      /\ role = script[begun].role /\ keepConnection = script[begun].keep
      /\ type = "DATA" => role = "FILTER"
  BY <1>1, <1>2 DEF OnTrack, Turn, Accepted
<1>8. type = LastStream(role)
  BY <1>1, <1>2, <1>7 DEF LastStream, Control
<1>9. /\ Cur \in DOMAIN script /\ begun \in DOMAIN script /\ DOMAIN script = 1..Len(script)
      /\ Cur = wire[rdNext][1] /\ rdNext \in 1..Len(wire) /\ \A j \in DOMAIN script : script[j].req \in Nat
  <2>1. rdNext \in 1..Len(wire) /\ Cur = wire[rdNext][1]
    BY <1>1, <1>4, <1>5 DEF Places, Cur
  <2>2. Cur \in DOMAIN script /\ DOMAIN script = 1..Len(script)
    BY <1>1, <2>1 DEF Places
  <2>3. begun \in DOMAIN script
    BY <1>1, <1>5 DEF Known, Typed, RequestOK
  <2>4. \A j \in DOMAIN script : script[j].req \in Nat
    BY <1>1 DEF Places, Record
  <2> QED BY <2>1, <2>2, <2>3, <2>4
<1>10. \A j \in DOMAIN script : j > Cur => script[j].req > served + 1
  <2>1. EndsWithInput(script)
    BY <1>1, OrderlyMeans DEF Places, Reader, Ordered
  <2>2. \A a \in 1..begun-1 : script[a].type = "BEGIN" => script[a].req # script[begun].req
    BY <1>3, <1>7
  <2>3. Begins(script, begun) /\ script[begun].keep /\ script[Cur].id = script[begun].id
        /\ script[Cur].type = LastStream(script[begun].role)
    BY <1>2, <1>5, <1>6, <1>7, <1>8 DEF Known
  <2>4. \A j \in DOMAIN script : Cur < j => script[j].req # script[begun].req
    BY <1>6, <1>9, <2>1, <2>2, <2>3 DEF EndsWithInput
  <2> SUFFICES ASSUME NEW j \in DOMAIN script, j > Cur PROVE script[j].req > served + 1
    OBVIOUS
  <2>5. script[j].req # served + 1 /\ script[j].req > served /\ script[j].req \in Nat
    BY <1>7, <1>9, <2>4
  <2> QED BY <1>3, <2>5
<1>11. FramedIn(script, wire, rdNext, 0, 0)
  BY <1>1, <1>4 DEF Framed
<1>12. rdNext = buffStop
  <2> SUFFICES ASSUME rdNext < sent PROVE FALSE
    BY <1>1 DEF Places
  <2> DEFINE p == rdNext
             i == IF p = 0 THEN 1 ELSE wire[p][1] + 1
             z == Size(script[i])
  <2>1. p \in Nat /\ p < Len(wire) /\ p # 0 /\ FramedIn(script, wire, p, 0, 0) /\ i = Cur + 1
        /\ script \in Seq(Record) /\ Shape(script, wire)
    BY <1>1, <1>9, <1>11 DEF Places
  <2>2. p + 1 \in 1..sent
    BY <1>1 DEF Places
  <2> HIDE DEF p
  <2>3. /\ i \in 1..Len(script) /\ z \in Nat
        /\ \A q \in p+1..p+z : q \in 1..Len(wire) /\ wire[q] = <<i, q - p>>
    <3>1. i = IF p = 0 THEN 1 ELSE wire[p][1] + 1
      OBVIOUS
    <3>2. RecordAhead(script, wire, p, i)
      BY ONLY <2>1, <3>1, NextRecord
    <3> QED BY <3>2 DEF RecordAhead
  <2>4. script[i] \in Record
    BY <1>1, <2>3 DEF Places
  <2>5. z > 0
    BY <2>4, SizePositive
  <2> HIDE DEF i, z
  <2>6. wire[p + 1][1] = i
    BY <2>1, <2>3, <2>5
  <2>7. script[i].req <= served + 1
    BY <1>1, <2>2, <2>6 DEF Sending
  <2>8. i \in DOMAIN script /\ i > Cur
    <3>1. Cur \in Nat
      BY <1>9
    <3> QED BY <1>9, <2>1, <2>3, <3>1
  <2>9. script[i].req > served + 1 /\ script[i].req \in Nat
    BY <1>9, <1>10, <2>8
  <2> QED BY <1>3, <2>7, <2>9
<1>13. \A j \in DOMAIN script : j <= Cur => script[j].req <= served + 1
  <2> SUFFICES ASSUME NEW j \in DOMAIN script, j <= Cur PROVE script[j].req <= served + 1
    OBVIOUS
  <2> DEFINE p == rdNext
  <2>1. p \in 1..Len(wire) /\ wire[p][2] >= HeaderLen /\ j \in 1..wire[p][1]
        /\ script \in Seq(Record) /\ Shape(script, wire)
    <3>1. wire[p][2] >= HeaderLen
      BY <1>9, <1>11 DEF FramedIn
    <3>2. j \in 1..wire[p][1]
      BY <1>9
    <3> QED BY <1>1, <1>9, <3>1, <3>2 DEF Places
  <2>2. p <= sent /\ sent \in Nat /\ p \in Nat
    BY <1>1 DEF Places
  <2> HIDE DEF p
  <2>3. PICK q \in 1..p : wire[q] = <<j, HeaderLen>>
    BY <2>1, HeadersBehind
  <2>4. q \in 1..sent /\ wire[q][1] = j
    BY <2>2, <2>3
  <2> QED BY <1>1, <2>4 DEF Sending
<1>14. RecordAt(buffStop) = Cur /\ AtEnd(buffStop)
  BY <1>9, <1>11, <1>12 DEF RecordAt, AtEnd
<1>15. AnsweredUpTo(Cur)
  BY <1>1, <1>2 DEF OnTrack, Answering
<1>16. /\ RecordAt(buffStop)' = Cur /\ AtEnd(buffStop)' /\ Calls' = Calls /\ script' = script
  BY <1>3, <1>14 DEF RecordAt, AtEnd, SameConversation, FramedIn, Size, Calls, CallsForAnswer
<1>17. AnsweredUpTo(RecordAt(buffStop))'
  BY <1>3, <1>15, <1>16 DEF AnsweredUpTo
<1>18. \A j \in DOMAIN script : IF j <= Cur THEN script[j].req <= served + 1 ELSE script[j].req > served + 1
  <2> SUFFICES ASSUME NEW j \in DOMAIN script
               PROVE  IF j <= Cur THEN script[j].req <= served + 1 ELSE script[j].req > served + 1
    OBVIOUS
  <2>1. j <= Cur \/ j > Cur
    BY <1>9
  <2> QED BY <1>10, <1>13, <2>1
<1> QED BY <1>3, <1>16, <1>17, <1>18 DEF Between

\* What a header tells a reader that goes on with the record.
Taken ==
    /\ RecordPlace /\ pc = "fill" /\ nested = "none" /\ ~isClosed
    /\ Cur \in Nat /\ Cur + 1 \in DOMAIN script /\ Cur' = Cur + 1 /\ Header = script[Cur + 1]
    /\ Header \in Record /\ script[Cur + 1].req = served + 1 /\ served \in Nat
    /\ script' = script /\ Calls' = Calls /\ served' = served /\ phase' = phase /\ type' = type
    /\ isBeginProcessed' = isBeginProcessed /\ role' = role /\ keepConnection' = keepConnection
    /\ contentLen' = Header.len /\ Framed'
    /\ phase = "begin" => ~isBeginProcessed /\ type = "NONE"

LEMMA HeaderTaken ==
    ASSUME Reader, ProcessHeader, ~UnsupportedVersion
    PROVE  Taken
<1>1. /\ Typed /\ Control /\ Tracked /\ OnTrack /\ InProgress /\ Framed /\ Premises /\ Places /\ Sending
      /\ FCGI_errno = "none"
  BY PlacesOK, OrderlyMeans DEF Reader, Ordered, OnTrack
<1>2. RecordPlace
  BY <1>1, ProcessHeaderTracked
<1>3. AtHeader /\ role' = role /\ isBeginProcessed' = isBeginProcessed
  BY AtHeaderOf
<1>4. Arrived
  BY <1>1, <1>3, HeaderArrives
<1>5. keepConnection' = keepConnection
  BY DEF ProcessHeader, UnsupportedVersion, RefuseBegin, RefuseMultiplexing, BeginRequest,
     GetValues, UnknownManagement, ForeignRecord, UnexpectedType, StreamRecord, EndOfStream, request
<1>6. Cur \in Nat /\ Cur + 1 \in DOMAIN script /\ Cur' = Cur + 1 /\ Header = script[Cur + 1] /\ Header \in Record
  <2>1. Cur \in Nat
    BY <1>1 DEF Cur, Places
  <2>2. Cur + 1 \in 1..Len(script) /\ Cur' = Cur + 1 /\ Header = script[Cur + 1]
    BY <1>2 DEF RecordPlace
  <2> QED BY <1>1, <2>1, <2>2 DEF Places
<1>7. served \in Nat /\ script[Cur + 1].req \in Nat
  BY <1>1, <1>6 DEF Typed, CallsOK, Record
<1>8. script[Cur + 1].req <= served + 1
  <2>1. AfterHeader \in 1..sent
    <3>1. AfterHeader \in Nat /\ AfterHeader > rdNext /\ AfterHeader <= buffStop
      BY <1>4 DEF Arrived
    <3> QED BY <1>1, <3>1 DEF Places
  <2>2. wire[AfterHeader][1] = Cur + 1
    BY <1>2, <1>6 DEF RecordPlace
  <2> QED BY <1>1, <2>1, <2>2 DEF Sending
<1>9. script[Cur + 1].req > served
  <2>1. Cur + 1 > Cur
    BY <1>6
  <2> QED BY <1>1, <1>6, <2>1 DEF OnTrack, Turn
<1>10. script[Cur + 1].req = served + 1
  BY <1>7, <1>8, <1>9
<1>11. script' = script /\ Calls' = Calls
  BY <1>4 DEF Arrived, Calls, CallsForAnswer
<1>12. phase = "begin" => ~isBeginProcessed /\ type = "NONE"
  BY <1>1, <1>4 DEF Control, Arrived
<1> QED BY <1>2, <1>3, <1>4, <1>5, <1>6, <1>7, <1>10, <1>11, <1>12 DEF Taken, Arrived, RecordPlace

\* What becomes of the record, unless it leaves an error.
Going == pc' = "fill" /\ isClosed' = isClosed
SameRequest == requestId' = requestId /\ begun' = begun

LEMMA KindsOfHeader ==
    ASSUME Reader, ProcessHeader, FCGI_errno' = "none"
    PROVE  /\ ~UnsupportedVersion
           /\ \/ /\ RefuseMultiplexing /\ Going /\ SameRequest /\ nested' = nested
                 /\ Header.type = "BEGIN" /\ isBeginProcessed /\ replies' = Append(replies, wire[AfterHeader][1])
              \/ /\ BeginRequest /\ Going /\ nested' = "begin" /\ replies' = replies /\ ~isBeginProcessed
                 /\ Header.type = "BEGIN" /\ Header.id # 0 /\ requestId' = Header.id
                 /\ begun' = wire[AfterHeader][1]
              \/ /\ GetValues /\ Going /\ SameRequest /\ nested' = "values" /\ replies' = replies
                 /\ Header.type # "BEGIN" /\ Header.id = 0
              \/ /\ UnknownManagement /\ Going /\ SameRequest /\ nested' = nested
                 /\ Header.type \notin {"BEGIN", "GET_VALUES"} /\ Header.id = 0
                 /\ replies' = Append(replies, wire[AfterHeader][1])
              \/ /\ ForeignRecord /\ Going /\ SameRequest /\ nested' = nested /\ replies' = replies
                 /\ Header.type # "BEGIN" /\ Header.id # 0 /\ skip'
              \/ /\ StreamRecord /\ Going /\ SameRequest /\ nested' = nested /\ replies' = replies
                 /\ Header.type = type /\ Header.id # 0
              \/ /\ EndOfStream /\ SameRequest /\ nested' = nested /\ replies' = replies
                 /\ Header.type = type /\ Header.id # 0 /\ Header.id = requestId /\ Header.len = 0
<1>1. FCGI_errno = "none"
  BY DEF Reader
<1>2. ~UnsupportedVersion /\ ~RefuseBegin /\ ~UnexpectedType
  BY <1>1 DEF UnsupportedVersion, RefuseBegin, UnexpectedType, ReturnError, SetError
<1>3. CASE RefuseMultiplexing
  BY <1>1, <1>2, <1>3 DEF RefuseMultiplexing, ReturnError, SetError, ContinueFill, Answer, Going, SameRequest, request
<1>4. CASE BeginRequest
  BY <1>2, <1>4 DEF BeginRequest, Recurse, Going
<1>5. CASE GetValues
  BY <1>2, <1>5 DEF GetValues, Recurse, Going, SameRequest, request
<1>6. CASE UnknownManagement
  BY <1>1, <1>2, <1>6 DEF UnknownManagement, ReturnError, SetError, ContinueFill, Answer, Going, SameRequest, request
<1>7. CASE ForeignRecord
  BY <1>2, <1>7 DEF ForeignRecord, ContinueFill, Going, SameRequest, request
<1>8. CASE StreamRecord
  BY <1>2, <1>8 DEF StreamRecord, ContinueFill, Going, SameRequest, request
<1>9. CASE EndOfStream
  BY <1>2, <1>9 DEF EndOfStream, SameRequest, request
<1> QED BY <1>2, <1>3, <1>4, <1>5, <1>6, <1>7, <1>8, <1>9 DEF ProcessHeader

LEMMA HeaderTurn ==
    ASSUME Reader, ProcessHeader, FCGI_errno' = "none"
    PROVE  Turn'
<1>1. Taken /\ Turn /\ Typed /\ Control
  BY HeaderTaken, KindsOfHeader DEF Reader, Ordered, OnTrack
<1>2. /\ \A j \in DOMAIN script : j > Cur => script[j].req > served
      /\ isBeginProcessed => /\ Known /\ begun <= Cur /\ script[begun].req = served + 1
                             /\ \A j \in 1..begun-1 : script[j].type = "BEGIN" => script[j].req <= served
      /\ ~isBeginProcessed => \A j \in 1..Cur : script[j].type = "BEGIN" => script[j].req <= served
      /\ isBeginProcessed => role = script[begun].role /\ keepConnection = script[begun].keep
      /\ phase # "begin" => isBeginProcessed
      /\ type = "DATA" => role = "FILTER"
  BY <1>1 DEF Turn, Accepted, Taken
<1>3. /\ script' = script /\ Cur' = Cur + 1 /\ Cur \in Nat /\ served' = served /\ phase' = phase /\ type' = type
      /\ isBeginProcessed' = isBeginProcessed /\ role' = role /\ keepConnection' = keepConnection
      /\ Header = script[Cur + 1] /\ Header.type \in RecordTypes /\ Cur + 1 \in DOMAIN script
      /\ script[Cur + 1].req = served + 1 /\ wire[AfterHeader][1] = Cur + 1
  BY <1>1 DEF Taken, RecordPlace, Record
<1>4. type \in StreamTypes
  BY <1>1 DEF Typed, StatusOK
<1>5. \A j \in DOMAIN script' : j > Cur' => script'[j].req > served'
  <2>1. DOMAIN script = 1..Len(script) /\ Len(script) \in Nat
    BY PlacesOK DEF Reader, Ordered, Places
  <2>2. \A j \in DOMAIN script : j > Cur + 1 => j > Cur
    BY <1>3, <2>1
  <2> QED BY <1>2, <1>3, <2>2
<1>6. CASE BeginRequest /\ nested' = "begin" /\ ~isBeginProcessed /\ Header.type = "BEGIN" /\ Header.id # 0
           /\ requestId' = Header.id /\ begun' = wire[AfterHeader][1]
  <2>1. begun' = Cur + 1 /\ begun' # 0 /\ begun' <= Cur' /\ (Cur + 1) - 1 = Cur
    BY <1>3, <1>6
  <2>2. Known'
    BY <1>3, <1>6, <2>1 DEF Known, Begins
  <2>3. script'[begun'].req = served' + 1
    BY <1>3, <2>1
  <2>4. \A j \in 1..begun'-1 : script'[j].type = "BEGIN" => script'[j].req <= served'
    BY <1>2, <1>3, <1>6, <2>1
  <2>5. Accepted' /\ ~isBeginProcessed'
    BY <1>3, <1>6 DEF Accepted
  <2> QED BY <1>2, <1>3, <1>5, <2>1, <2>2, <2>3, <2>4, <2>5 DEF Turn
<1>7. CASE SameRequest /\ nested' # "begin" /\ (isBeginProcessed \/ Header.type # "BEGIN")
  <2>1. Accepted' <=> isBeginProcessed
    BY <1>3, <1>7 DEF Accepted
  <2>2. isBeginProcessed => Known' /\ begun' <= Cur'
    <3>1. isBeginProcessed => begun \in Nat
      BY <1>1, PlacesOK DEF Typed, RequestOK, Places
    <3>2. isBeginProcessed => begun <= Cur + 1
      BY <1>2, <1>3, <3>1
    <3> QED BY <1>2, <1>3, <1>7, <3>2 DEF Known, Begins, SameRequest
  <2>3. isBeginProcessed => script'[begun'].req = served' + 1
                            /\ \A j \in 1..begun'-1 : script'[j].type = "BEGIN" => script'[j].req <= served'
    BY <1>2, <1>3, <1>7 DEF SameRequest
  <2>4. ~isBeginProcessed => \A j \in 1..Cur' : script'[j].type = "BEGIN" => script'[j].req <= served'
    <3> SUFFICES ASSUME ~isBeginProcessed, NEW j \in 1..Cur+1, script[j].type = "BEGIN"
                 PROVE  script[j].req <= served
      BY <1>3
    <3>1. j # Cur + 1
      BY <1>3, <1>7
    <3>2. j \in 1..Cur
      BY <1>3, <3>1
    <3> QED BY <1>2, <3>2
  <2>5. isBeginProcessed' => role' = script'[begun'].role /\ keepConnection' = script'[begun'].keep
    BY <1>2, <1>3, <1>7 DEF SameRequest
  <2>6. (phase' # "begin" => isBeginProcessed') /\ (type' = "DATA" => role' = "FILTER")
    BY <1>2, <1>3
  <2> QED BY <1>3, <1>5, <2>1, <2>2, <2>3, <2>4, <2>5, <2>6 DEF Turn
<1>8. "BEGIN" \notin StreamTypes
  BY DEF StreamTypes, Streams
<1>9. nested = "none"
  BY <1>1 DEF Taken
<1> QED BY <1>4, <1>6, <1>7, <1>8, <1>9, KindsOfHeader

LEMMA HeaderWaiting ==
    ASSUME Reader, ProcessHeader, FCGI_errno' = "none"
    PROVE  Waiting' /\ StreamEnded'
<1>1. Taken /\ Turn /\ Premises /\ Places
  BY HeaderTaken, KindsOfHeader, OrderlyMeans, PlacesOK DEF Reader, Ordered, OnTrack
<1>2. /\ script' = script /\ Cur' = Cur + 1 /\ Cur \in Nat /\ phase' = phase /\ type' = type /\ ~isClosed
      /\ Header = script[Cur + 1] /\ Header.type \in RecordTypes /\ Cur + 1 \in DOMAIN script
      /\ contentLen' = Header.len /\ (phase = "begin" => ~isBeginProcessed /\ type = "NONE")
      /\ nested = "none"
  BY <1>1 DEF Taken, RecordPlace, Record
<1>3. "NONE" \notin RecordTypes
  BY DEF RecordTypes, Streams
<1>4. Waiting'
  <2> SUFFICES ASSUME phase = "begin", nested' = "none"
               PROVE  (contentLen' > 0 => skip') /\ pc' = "fill"
    BY <1>2 DEF Waiting
  <2>1. CASE UnknownManagement /\ Going /\ Header.type \notin {"BEGIN", "GET_VALUES"} /\ Header.id = 0
    <3>1. PlainManagement(script)
      BY <1>1 DEF Premises, Places, Conforming
    <3>2. Header.len = 0
      BY <1>2, <2>1, <3>1 DEF PlainManagement
    <3> QED BY <1>2, <2>1, <3>2 DEF Going
  <2>2. CASE ForeignRecord /\ Going /\ skip'
    BY <2>2 DEF Going
  <2> QED BY <1>2, <1>3, <2>1, <2>2, KindsOfHeader
<1>5. StreamEnded'
  <2>1. CASE Going
    BY <1>2, <2>1 DEF Going, StreamEnded, Open
  <2>2. CASE EndOfStream /\ SameRequest /\ Header.type = type /\ Header.id = requestId /\ Header.len = 0
    <3> SUFFICES ASSUME phase # "begin"
                 PROVE  begun' < Cur' /\ script'[Cur'].type = type' /\ script'[Cur'].id = requestId'
                        /\ script'[Cur'].len = 0
      BY <1>2 DEF StreamEnded, Serving
    <3>1. begun <= Cur /\ begun \in Nat
      BY <1>1 DEF Turn, Accepted, Reader, Ordered, Typed, RequestOK, Places
    <3>2. begun < Cur + 1
      BY <1>2, <3>1
    <3> QED BY <1>2, <2>2, <3>2 DEF SameRequest
  <2> QED BY <2>1, <2>2, KindsOfHeader
<1> QED BY <1>4, <1>5

LEMMA HeaderAnswering ==
    ASSUME Reader, ProcessHeader, FCGI_errno' = "none"
    PROVE  Answering'
<1>1. Taken /\ Turn /\ Answering
  BY HeaderTaken, KindsOfHeader DEF Reader, Ordered, OnTrack
<1> DEFINE c == Cur
<1>2. /\ script' = script /\ Cur' = c + 1 /\ c \in Nat /\ Calls' = Calls /\ wire[AfterHeader][1] = c + 1
      /\ Header = script[c + 1] /\ c + 1 \in DOMAIN script /\ nested = "none" /\ type \in StreamTypes
      /\ script[c + 1].req = served + 1 /\ served \in Nat
  BY <1>1 DEF Taken, RecordPlace, Reader, Ordered, Typed, StatusOK
<1>3. replies = Selected([i \in 1..c |-> i], Calls)
  BY <1>1, <1>2 DEF Answering, AnsweredUpTo
<1>4. c + 1 \in Calls <=> CallsForAnswer(c + 1)
  BY <1>2 DEF Calls
<1>5. "BEGIN" \notin StreamTypes
  BY DEF StreamTypes, Streams
<1>6. CASE GetValues /\ nested' = "values" /\ replies' = replies /\ Header.id = 0
  <2>1. Cur' - 1 = c /\ Cur' > 0 /\ script'[Cur'].id = 0
    BY <1>2, <1>6
  <2> HIDE DEF c
  <2>2. AnsweredUpTo(Cur - 1)'
    BY <1>2, <1>3, <1>6, <2>1 DEF AnsweredUpTo
  <2> QED BY <1>6, <2>1, <2>2 DEF Answering
<1>7. CASE nested' # "values" /\ CallsForAnswer(c + 1) /\ replies' = Append(replies, c + 1)
  <2> HIDE DEF c
  <2>1. replies' = Selected([i \in 1..c+1 |-> i], Calls)
    BY <1>2, <1>3, <1>4, <1>7, OneMoreNumber
  <2>2. AnsweredUpTo(Cur)'
    BY <1>2, <2>1 DEF AnsweredUpTo
  <2> QED BY <1>7, <2>2 DEF Answering
<1>8. CASE nested' # "values" /\ ~CallsForAnswer(c + 1) /\ replies' = replies
  <2> HIDE DEF c
  <2>1. replies' = Selected([i \in 1..c+1 |-> i], Calls)
    BY <1>2, <1>3, <1>4, <1>8, OneMoreNumber
  <2>2. AnsweredUpTo(Cur)'
    BY <1>2, <2>1 DEF AnsweredUpTo
  <2> QED BY <1>8, <2>2 DEF Answering
<1>9. Header.type # "BEGIN" => (CallsForAnswer(c + 1) <=> Header.id = 0)
  BY <1>2 DEF CallsForAnswer
<1>10. isBeginProcessed /\ Header.type = "BEGIN" => CallsForAnswer(c + 1)
  <2> SUFFICES ASSUME isBeginProcessed, Header.type = "BEGIN" PROVE CallsForAnswer(c + 1)
    OBVIOUS
  <2>1. Known /\ begun <= c /\ script[begun].req = served + 1
    BY <1>1 DEF Turn, Accepted
  <2>2. begun \in 1..c /\ script[begun].type = "BEGIN"
    <3>1. begun \in Nat
      BY PlacesOK DEF Reader, Ordered, Typed, RequestOK, Places
    <3> QED BY <1>2, <2>1, <3>1 DEF Known, Begins
  <2>3. (c + 1) - 1 = c
    BY <1>2
  <2> QED BY <1>2, <2>1, <2>2, <2>3 DEF CallsForAnswer
<1>11. ~isBeginProcessed /\ Header.id # 0 => ~CallsForAnswer(c + 1)
  <2> SUFFICES ASSUME ~isBeginProcessed, Header.id # 0 PROVE ~CallsForAnswer(c + 1)
    OBVIOUS
  <2>1. \A j \in 1..c : script[j].type = "BEGIN" => script[j].req <= served
    BY <1>1, <1>2 DEF Turn, Accepted
  <2>2. \A j \in 1..c : script[j].type = "BEGIN" => script[j].req # script[c + 1].req
    <3>1. served \in Nat /\ ~(served + 1 <= served)
      BY <1>2
    <3> QED BY <1>2, <2>1, <3>1
  <2>3. (c + 1) - 1 = c
    BY <1>2
  <2> QED BY <1>2, <2>2, <2>3 DEF CallsForAnswer
<1> HIDE DEF c
<1> QED BY <1>2, <1>5, <1>6, <1>7, <1>8, <1>9, <1>10, <1>11, KindsOfHeader

-----------------------------------------------------------------------------
(* The inductive invariant of an orderly connection.                       *)

LEMMA StepOnTrack ==
    ASSUME Orderly, ReaderInv, OrderlyInv, [Next]_vars, InProgress', FCGI_errno' = "none"
    PROVE  OnTrack'
<1>1. Ordered /\ Sending /\ Between /\ Calm /\ "eof" \notin Faults /\ Control
  BY OrderlyMeans DEF ReaderInv, OrderlyInv, Ordered
<1>2. CASE AcceptRequest
  BY <1>1, <1>2, AcceptRequestOnTrack DEF Ordered
<1>3. CASE ~InProgress /\ ~AcceptRequest
  <2>1. pc \notin {"fill", "use"} /\ pc' \in {"fill", "use"}
    BY <1>3 DEF InProgress
  <2>2. ~(Server \/ Finished \/ UNCHANGED vars)
    BY <2>1 DEF Server, ServerSend, ServerClose, Finished, vars, control
  <2>3. ~FillBuffProc
    BY <1>1, <2>1, KeepsItsRequest
  <2>4. ~ProcessHeader
    <3>1. ProcessHeader => AtHeader
      BY AtHeaderOf
    <3> QED BY <2>1, <3>1 DEF AtHeader, Filling
  <2>5. ~NestedRead
    BY <1>3, NestedReadKeeps
  <2>6. ~Accept
    BY <2>1 DEF Accept, BeginDone, GiveUp, ParamsPart, ParamsDone, InAccept, Reading
  <2>7. ~App
    BY <1>3, <2>1 DEF App, AppGet, AppFill, AppUnGet, AppStartFilterData, AppFClose,
       AppClearError, AppFinish, InAccept, Reading
  <2> QED BY <2>2, <2>3, <2>4, <2>5, <2>6, <2>7 DEF Next, Library
<1>4. CASE InProgress /\ ~AcceptRequest
  <2>1. FCGI_errno = "none"
    BY <1>1, <1>4, ErrorStays
  <2>2. Reader
    BY <1>1, <1>4, <2>1 DEF OrderlyInv, Reader
  <2>3. CASE Server \/ Finished \/ UNCHANGED vars
    BY <1>1, <2>2, <2>3, QuietOnTrack DEF Server, ServerClose
  <2>4. CASE FillBuffProc
    BY <2>2, <2>4, FailuresLeaveErrors, FillBuffProcOnTrack
  <2>5. CASE ProcessHeader
    <3>1. Taken
      BY <2>2, <2>5, HeaderTaken, KindsOfHeader
    <3> QED BY <2>2, <2>5, <3>1, HeaderTurn, HeaderWaiting, HeaderAnswering DEF OnTrack, Taken
  <2>6. CASE NestedRead
    BY <2>2, <2>6, FailuresLeaveErrors, ReadsOnTrack, BeginBodyDoneOnTrack, ValuesDoneOnTrack DEF NestedRead
  <2>7. CASE Accept
    <3>1. ~GiveUp
      BY DEF GiveUp, InProgress
    <3> QED BY <2>2, <2>7, <3>1, NextStreamOnTrack, ReadsOnTrack DEF Accept
  <2>8. CASE App
    <3>1. ~AppFinish
      BY DEF AppFinish, InProgress
    <3>2. ~AppFClose /\ ~AppClearError
      BY <1>1 DEF AppFClose, AppClearError, Calm
    <3> QED BY <1>4, <2>2, <2>8, <3>1, <3>2, NextStreamOnTrack, ReadsOnTrack DEF App
  <2> QED BY <2>3, <2>4, <2>5, <2>6, <2>7, <2>8 DEF Next, Library
<1> QED BY <1>2, <1>3, <1>4

LEMMA StepBetween ==
    ASSUME Orderly, ReaderInv, OrderlyInv, [Next]_vars
    PROVE  Between'
<1>1. Ordered /\ Sending /\ Between /\ Control
  BY DEF ReaderInv, OrderlyInv, Ordered
<1>2. CASE pc' # "idle"
  BY <1>2 DEF Between
<1>3. CASE pc' = "idle" /\ AppFinish /\ FCGI_errno = "none"
  <2>1. InProgress
    BY <1>3 DEF AppFinish, InAccept, Reading, InProgress
  <2>2. Reader
    BY <1>1, <1>3, <2>1 DEF OrderlyInv, Reader
  <2> QED BY <1>3, <2>2, AppFinishBetween
<1>4. CASE pc = "idle" /\ (Server \/ UNCHANGED vars)
  <2>1. /\ SameConversation /\ FCGI_errno' = FCGI_errno /\ buffStop' = buffStop /\ served' = served /\ replies' = replies
    BY <1>4 DEF Server, ServerSend, ServerClose, vars, ptrs, status, server, SameConversation
  <2>2. /\ RecordAt(buffStop)' = RecordAt(buffStop) /\ AtEnd(buffStop)' = AtEnd(buffStop)
        /\ Calls' = Calls /\ script' = script
    BY <2>1 DEF RecordAt, AtEnd, SameConversation, FramedIn, Size, Calls, CallsForAnswer
  <2>3. /\ FCGI_errno = "none"
        /\ AtEnd(buffStop) /\ AnsweredUpTo(RecordAt(buffStop))
        /\ \A j \in DOMAIN script :
              IF j <= RecordAt(buffStop) THEN script[j].req <= served ELSE script[j].req > served
    BY <1>1, <1>4 DEF Between
  <2>4. AnsweredUpTo(RecordAt(buffStop))'
    BY <2>1, <2>2, <2>3 DEF AnsweredUpTo
  <2> QED BY <2>1, <2>2, <2>3, <2>4 DEF Between
<1> QED BY <1>1, <1>2, <1>3, <1>4, IdleAfterFinish

LEMMA OrderlyInvInit ==
    ASSUME Orderly, Init
    PROVE  OrderlyInv
<1>1. script \in Scripts /\ sent = 0 /\ ~serverShut /\ buffStop = 0 /\ pc = "idle" /\ FCGI_errno = "none"
      /\ served = 0 /\ replies = <<>>
  BY DEF Init
<1>2. AtEnd(0) /\ RecordAt(0) = 0
  BY DEF AtEnd, FramedIn, RecordAt
<1>3. Sending
  BY <1>1, <1>2 DEF Sending
<1>4. \A j \in DOMAIN script : j > 0 /\ script[j].req > 0
  <2>1. Numbered(script)
    BY <1>1, OrderlyMeans
  <2>2. script \in Seq(Record)
    BY <1>1, ScriptsAssumption
  <2>3. \A j \in DOMAIN script : j > 0
    BY <2>2
  <2> QED BY <2>1, <2>3 DEF Numbered
<1>5. AnsweredUpTo(0)
  <2>1. Selected(<<>>, Calls) = <<>>
    BY SelectedEmpty
  <2>2. [i \in 1..0 |-> i] = <<>>
    OBVIOUS
  <2> QED BY <1>1, <2>1, <2>2 DEF AnsweredUpTo
<1>6. \A j \in DOMAIN script : ~(j <= 0)
  <2>1. \A j \in DOMAIN script : j \in Nat
    <3>1. script \in Seq(Record)
      BY <1>1, ScriptsAssumption
    <3> QED BY <3>1
  <2> QED BY <1>4, <2>1
<1>7. Between
  BY <1>1, <1>2, <1>4, <1>5, <1>6 DEF Between
<1>8. ~InProgress
  BY <1>1 DEF InProgress
<1> QED BY <1>3, <1>7, <1>8 DEF OrderlyInv

LEMMA OrderlyInvStep ==
    ASSUME Orderly, ReaderInv, OrderlyInv, [Next]_vars
    PROVE  OrderlyInv'
<1>1. Sending'
  BY StepSending DEF ReaderInv, OrderlyInv
<1>2. Between'
  BY StepBetween
<1>3. InProgress' /\ FCGI_errno' = "none" => OnTrack'
  BY StepOnTrack
<1> QED BY <1>1, <1>2, <1>3 DEF OrderlyInv

LEMMA OrderlyInductive ==
    ASSUME Orderly
    PROVE  Spec => [](ReaderInv /\ OrderlyInv)
<1>1. Premises
  BY OrderlyMeans
<1>2. Init => ReaderInv /\ OrderlyInv
  BY ReaderInvInit, OrderlyInvInit
<1>3. ReaderInv /\ OrderlyInv /\ [Next]_vars => ReaderInv' /\ OrderlyInv'
  BY <1>1, ReaderInvStep, OrderlyInvStep
<1> QED BY <1>2, <1>3, PTL DEF Spec

\* On a connection that serves one request after another FillBuffProc
\* (fcgiapp.c:1827) never loses its place: contentLen, paddingLen and the header
\* bytes it has gathered say what is left of the record, from one request to the
\* next, whatever reads are interrupted or time out and however records are split.
THEOREM ReaderKeepsFraming ==
    ASSUME Orderly
    PROVE  Spec => []Framing
<1>1. ReaderInv /\ OrderlyInv => Framing
  <2> SUFFICES ASSUME ReaderInv, OrderlyInv PROVE Framing
    OBVIOUS
  <2>1. CASE InProgress /\ FCGI_errno = "none"
    BY <2>1, FramedShows DEF ReaderInv, OrderlyInv, OnTrack
  <2>2. CASE ~(InProgress /\ FCGI_errno = "none")
    BY <2>2 DEF Framing
  <2> QED BY <2>1, <2>2
<1> QED BY <1>1, OrderlyInductive, PTL

\* ProcessManagementRecord (fcgiapp.c:1454) and ProcessBeginRecord (fcgiapp.c:1527)
\* answer each record that calls for it once and in the order sent, over all the
\* requests of the connection.
THEOREM ReaderAnswers ==
    ASSUME Orderly
    PROVE  Spec => []Answered
<1>1. ReaderInv /\ OrderlyInv => Answered
  <2> SUFFICES ASSUME ReaderInv, OrderlyInv, InProgress, nested = "none", FCGI_errno = "none"
               PROVE  replies = Selected([i \in DOMAIN script |-> i],
                                         {i \in DOMAIN script : CallsForAnswer(i) /\ HeaderSeen(i)})
    BY DEF Answered
  <2>1. Typed /\ Control /\ Beginning /\ ServingInv /\ OnTrack
    BY DEF ReaderInv, OrderlyInv
  <2> QED BY <2>1, AnsweringShows
<1> QED BY <1>1, OrderlyInductive, PTL

=============================================================================
