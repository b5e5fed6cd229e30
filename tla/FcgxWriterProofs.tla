-------------------------- MODULE FcgxWriterProofs --------------------------
(***************************************************************************)
(* Proofs about FcgxWriter, for every buffer length NewWriter may be asked *)
(* for, every string the application writes and every order of its calls.  *)
(*                                                                         *)
(* Inv, about the buffers, gives that the padding of a record always fits  *)
(* and that the assertions of MakeHeader hold.  WriterInv adds what the    *)
(* bytes are: Strings, that each buffer holds bytes of its own stream only;*)
(* Closed, Finishing and Lone, who has closed what; and Clean, that        *)
(* without an error the connection, with the close records on their way to *)
(* it (Sent), is whole records with each end once and behind its content.  *)
(* From it follow WireFidelity, EndOnce, TornWireCloses, SilentAfterError  *)
(* and that the writers implement ResponseStream.                          *)
(***************************************************************************)
EXTENDS FcgxWriter, SequenceOpsProofs, FiniteSetTheorems

-----------------------------------------------------------------------------
(* Arithmetic of the buffers.                                              *)

\* AlignInt8 rounds up to a multiple of 8, and stays below any multiple of 8
\* that the number is below.
LEMMA AlignInt8Rounds ==
    ASSUME NEW n \in Nat
    PROVE  /\ AlignInt8(n) \in Nat
           /\ AlignInt8(n) % 8 = 0
           /\ n <= AlignInt8(n) /\ AlignInt8(n) < n + 8
BY DEF AlignInt8

LEMMA AlignInt8Fits ==
    ASSUME NEW n \in Nat, NEW m \in Nat, m % 8 = 0, n <= m
    PROVE  AlignInt8(n) <= m
BY DEF AlignInt8

\* NewStream makes a buffer of a multiple of 8 bytes, large enough for a header
\* and content, and small enough for a record.
LEMMA BufferLengthBounds ==
    ASSUME NEW n \in Nat, NEW a \in BOOLEAN
    PROVE  /\ BufferLength(n, a) \in Nat
           /\ 24 <= BufferLength(n, a) /\ BufferLength(n, a) <= MaxLength + 1
           /\ BufferLength(n, a) % 8 = 0
<1> DEFINE k == Smaller(Larger(n, 32), MaxLength + 1)
           A == AlignInt8(k)
<1>1. MaxLength + 1 = 65536
  BY DEF MaxLength
<1>2. k \in Nat /\ 32 <= k /\ k <= 65536
  BY <1>1 DEF Smaller, Larger
<1>3. BufferLength(n, a) = A \/ BufferLength(n, a) = A - 8
  BY DEF BufferLength
<1> HIDE DEF k
<1>4. A \in Nat /\ A % 8 = 0
  BY <1>2, AlignInt8Rounds
<1>5. 32 <= A
  <2>1. k <= A
    BY <1>2, AlignInt8Rounds
  <2> HIDE DEF A
  <2> QED
    BY <1>2, <1>4, <2>1
<1>6. A <= 65536
  <2>1. 65536 \in Nat /\ 65536 % 8 = 0
    OBVIOUS
  <2> QED
    BY <1>2, <2>1, AlignInt8Fits
<1> HIDE DEF A
<1>7. A - 8 \in Nat /\ (A - 8) % 8 = 0 /\ 24 <= A - 8 /\ A - 8 <= 65536
  BY <1>4, <1>5, <1>6
<1> QED
  BY <1>1, <1>3, <1>4, <1>5, <1>6, <1>7

-----------------------------------------------------------------------------
(* The sequences that are put into the buffers.                            *)

LEMMA ConcatIsBytes ==
    ASSUME NEW s \in Seq(Byte), NEW t \in Seq(Byte)
    PROVE  /\ s \o t \in Seq(Byte)
           /\ Len(s) \in Nat /\ Len(t) \in Nat
           /\ Len(s \o t) = Len(s) + Len(t)
BY ConcatProperties, LenProperties

LEMMA SubSeqIsBytes ==
    ASSUME NEW s \in Seq(Byte), NEW i \in Nat, NEW j \in Nat,
           1 <= i, i <= j + 1, j <= Len(s)
    PROVE  /\ SubSeq(s, i, j) \in Seq(Byte)
           /\ Len(SubSeq(s, i, j)) = j + 1 - i
<1>1. \A k \in i..j : s[k] \in Byte
  BY ElementOfSeq
<1> QED
  BY <1>1, SubSeqProperties

LEMMA MakeHeaderIsBytes ==
    ASSUME NEW t \in Writers \cup {"END", "ANSWER"}, NEW len \in Nat, NEW pad \in Nat
    PROVE  MakeHeader(t, len, pad) \in Seq(Byte) /\ Len(MakeHeader(t, len, pad)) = 8
<1>1. \A k \in 1..8 : HeadByte(t, len, pad, k) \in Byte
  BY DEF HeadByte, Byte, HeaderLen
<1> QED
  BY <1>1 DEF MakeHeader, HeaderLen

LEMMA EndRequestIsBytes == EndRequest \in Seq(Byte)
<1>1. MakeHeader("END", 8, 0) \in Seq(Byte)
  BY MakeHeaderIsBytes
<1>2. [k \in 1..8 |-> Body(k)] \in Seq(Byte)
  <2>1. \A k \in 1..8 : Body(k) \in Byte
    BY DEF Byte, EndBodyLen
  <2> QED
    BY <2>1
<1> QED
  BY <1>1, <1>2, ConcatProperties DEF EndRequest, EndBodyLen

LEMMA TimesIsBytes ==
    ASSUME NEW n \in Nat, NEW byte \in Byte
    PROVE  Times(n, byte) \in Seq(Byte) /\ Len(Times(n, byte)) = n
BY DEF Times

LEMMA RoomIsBytes == Times(8, Room) \in Seq(Byte) /\ Len(Times(8, Room)) = 8
<1>1. Room \in Byte
  BY DEF Room, Byte
<1> QED
  BY <1>1, TimesIsBytes

-----------------------------------------------------------------------------
(* The inductive invariant.                                                *)

\* A buffer is a multiple of 8 bytes long and holds a header and more; what is
\* used of it ends at stop or before; outside raw mode stop is the end of the
\* buffer and the space of the header is used.
Buffers == \A w \in Writers :
    /\ 24 <= bufLen[w] /\ bufLen[w] <= MaxLength + 1 /\ bufLen[w] % 8 = 0
    /\ Len(buf[w]) <= stop[w] /\ stop[w] <= bufLen[w]
    /\ ~rawWrite[w] => stop[w] = bufLen[w] /\ 8 <= Len(buf[w])

\* The close records of w are being put into its buffer.
Closing(w) == busy = w /\ stage # "put"

\* FCGX_FClose puts its stream into raw mode first, and closes it once.
Mode == \A w \in Writers : Closing(w) => rawWrite[w] /\ ~wasFCloseCalled[w]

\* The writers whose end has not been counted.
Counts(w) == ~wasFCloseCalled[w] /\ ~(busy = w /\ stage = "last")
Counted == nWriters = (IF Counts("out") THEN 1 ELSE 0) + (IF Counts("err") THEN 1 ELSE 0)

Inv == TypeOK /\ Buffers /\ Mode /\ Counted

-----------------------------------------------------------------------------
(* What the steps do to a buffer.                                          *)

\* The padding of a record fits: a buffer of a multiple of 8 bytes that holds b
\* holds b as a record.
LEMMA SealedFits ==
    ASSUME NEW w \in Writers, rawWrite[w] \in BOOLEAN,
           NEW b \in Seq(Byte), NEW m \in Nat, m % 8 = 0, Len(b) <= m,
           ~rawWrite[w] => 8 <= Len(b)
    PROVE  /\ Sealed(w, b) \in Seq(Byte)
           /\ Len(Sealed(w, b)) <= m
           /\ ~rawWrite[w] /\ Len(Sealed(w, b)) > 0 => 8 <= Len(Sealed(w, b))
<1>1. CASE rawWrite[w]
  BY <1>1 DEF Sealed
<1>2. CASE ~rawWrite[w] /\ ~(ContentLen(b) > 0)
  <2>1. Sealed(w, b) = <<>>
    BY <1>2 DEF Sealed
  <2> QED
    BY <2>1
<1>3. CASE ~rawWrite[w] /\ ContentLen(b) > 0
  <2> DEFINE c == Len(b) - 8
             head == MakeHeader(w, c, AlignInt8(c) - c)
             body == SubSeq(b, 9, Len(b))
             tail == Times(AlignInt8(c) - c, Pad)
  <2>1. c \in Nat /\ ContentLen(b) = c
    BY <1>3 DEF ContentLen, HeaderLen
  <2>2. AlignInt8(c) \in Nat /\ c <= AlignInt8(c)
    BY <2>1, AlignInt8Rounds
  <2>3. AlignInt8(c) <= m - 8
    <3>1. m - 8 \in Nat /\ (m - 8) % 8 = 0 /\ c <= m - 8
      BY <1>3, <2>1
    <3> QED
      BY <2>1, <3>1, AlignInt8Fits
  <2>4. Sealed(w, b) = (head \o body) \o tail
    <3>1. PadLen(b) = AlignInt8(c) - c /\ HeaderLen + 1 = 9
      BY <2>1 DEF PadLen, HeaderLen
    <3> QED
      BY <1>3, <2>1, <3>1 DEF Sealed
  <2>5. AlignInt8(c) - c \in Nat
    BY <2>1, <2>2
  <2>6. head \in Seq(Byte) /\ Len(head) = 8
    BY <2>1, <2>5, MakeHeaderIsBytes
  <2>7. body \in Seq(Byte) /\ Len(body) = c
    <3>1. Len(b) \in Nat /\ 9 <= Len(b) + 1 /\ Len(b) + 1 - 9 = c
      BY <2>1, LenProperties
    <3> QED
      BY <3>1, SubSeqIsBytes
  <2>8. tail \in Seq(Byte) /\ Len(tail) = AlignInt8(c) - c
    <3>1. Pad \in Byte
      BY DEF Byte
    <3> QED
      BY <2>5, <3>1, TimesIsBytes
  <2> HIDE DEF c, head, body, tail
  <2>9. head \o body \in Seq(Byte) /\ Len(head \o body) = 8 + c
    BY <2>6, <2>7, ConcatIsBytes
  <2>10. (head \o body) \o tail \in Seq(Byte)
         /\ Len((head \o body) \o tail) = AlignInt8(c) + 8
    BY <2>1, <2>2, <2>8, <2>9, ConcatIsBytes
  <2> QED
    BY <2>1, <2>2, <2>3, <2>4, <2>10
<1> QED
  BY <1>1, <1>2, <1>3

\* FCGX_PutStr fills the buffer up to stop at most, and completely when some of
\* the string is left.
LEMMA FilledFits ==
    ASSUME NEW w \in Writers, TypeOK, Buffers
    PROVE  /\ Filled(w) \in Seq(Byte)
           /\ Part(w) \in Nat /\ Part(w) <= Len(todo)
           /\ Len(buf[w]) <= Len(Filled(w)) /\ Len(Filled(w)) <= stop[w]
<1>1. /\ buf[w] \in Seq(Byte) /\ todo \in Seq(Byte) /\ stop[w] \in Nat
      /\ Len(buf[w]) \in Nat /\ Len(todo) \in Nat /\ Len(buf[w]) <= stop[w]
  BY LenProperties DEF TypeOK, Buffers
<1>2. Part(w) \in Nat /\ Part(w) <= Len(todo) /\ Len(buf[w]) + Part(w) <= stop[w]
  BY <1>1 DEF Part, Space, Smaller
<1>3. /\ SubSeq(todo, 1, Part(w)) \in Seq(Byte)
      /\ Len(SubSeq(todo, 1, Part(w))) = Part(w)
  <2>1. 1 \in Nat /\ 1 <= 1 /\ 1 <= Part(w) + 1 /\ Part(w) + 1 - 1 = Part(w)
    BY <1>2
  <2> QED
    BY <1>1, <1>2, <2>1, SubSeqIsBytes
<1>4. /\ Filled(w) \in Seq(Byte)
      /\ Len(Filled(w)) = Len(buf[w]) + Part(w)
  BY <1>1, <1>3, ConcatIsBytes DEF Filled
<1> QED
  BY <1>1, <1>2, <1>4

\* Whether the write succeeds or fails, what is left in the buffer fits, and
\* holds a header outside raw mode.
LEMMA WriteAllFits ==
    ASSUME NEW w \in Writers, TypeOK, Buffers, NEW b \in Seq(Byte),
           Len(b) <= stop[w], ~rawWrite[w] /\ Len(b) > 0 => 8 <= Len(b), WriteAll(w, b)
    PROVE  /\ buf' \in [Writers -> Seq(Byte)] /\ wire' \in Seq(Byte)
           /\ FCGI_errno' \in [Writers -> BOOLEAN]
           /\ \A v \in Writers \ {w} : buf'[v] = buf[v]
           /\ Len(buf'[w]) <= stop[w]
           /\ ~rawWrite[w] => 8 <= Len(buf'[w])
<1>1. /\ buf \in [Writers -> Seq(Byte)] /\ wire \in Seq(Byte)
      /\ FCGI_errno \in [Writers -> BOOLEAN] /\ rawWrite[w] \in BOOLEAN
      /\ stop[w] \in Nat /\ Len(b) \in Nat
      /\ ~rawWrite[w] => 8 <= stop[w]
  BY LenProperties DEF TypeOK, Buffers
<1>2. CASE /\ wire' = wire \o b
           /\ buf' = [buf EXCEPT ![w] = Fresh(w)]
           /\ UNCHANGED FCGI_errno
  <2>1. /\ Fresh(w) \in Seq(Byte)
        /\ Len(Fresh(w)) <= stop[w]
        /\ ~rawWrite[w] => 8 <= Len(Fresh(w))
    <3>1. CASE rawWrite[w]
      BY <1>1, <3>1 DEF Fresh
    <3>2. CASE ~rawWrite[w]
      <4>1. Fresh(w) = Times(8, Room)
        BY <3>2 DEF Fresh, HeaderLen
      <4>2. stop[w] \in Nat /\ 8 <= stop[w]
        BY <1>1, <3>2
      <4>3. Fresh(w) \in Seq(Byte) /\ Len(Fresh(w)) = 8
        BY <4>1, RoomIsBytes
      <4> QED
        BY <4>2, <4>3
    <3> QED
      BY <3>1, <3>2
  <2>2. wire' \in Seq(Byte)
    BY <1>1, <1>2, ConcatIsBytes
  <2> QED
    BY <1>1, <1>2, <2>1, <2>2
<1>3. CASE /\ \E k \in CutAt : k < Len(b) /\ wire' = wire \o SubSeq(b, 1, k)
           /\ buf' = [buf EXCEPT ![w] = b]
           /\ FCGI_errno' = [FCGI_errno EXCEPT ![w] = TRUE]
  <2>1. PICK k \in CutAt : k < Len(b) /\ wire' = wire \o SubSeq(b, 1, k)
    BY <1>3
  <2>2. k \in Nat /\ k <= Len(b) /\ 1 <= k + 1 /\ Len(b) > 0
    BY <1>1, <2>1, ModeAssumption
  <2>3. SubSeq(b, 1, k) \in Seq(Byte)
    BY <2>2, SubSeqIsBytes
  <2>4. wire' \in Seq(Byte)
    BY <1>1, <2>1, <2>3, ConcatIsBytes
  <2> QED
    BY <1>1, <1>3, <2>2, <2>4
<1> QED
  BY <1>2, <1>3 DEF WriteAll

\* EmptyBuffProc keeps types and bounds.
LEMMA EmptyBuffFits ==
    ASSUME NEW w \in Writers, TypeOK, Buffers, NEW b \in Seq(Byte),
           Len(buf[w]) <= Len(b), Len(b) <= stop[w], EmptyBuff(w, b)
    PROVE  /\ buf' \in [Writers -> Seq(Byte)] /\ wire' \in Seq(Byte)
           /\ FCGI_errno' \in [Writers -> BOOLEAN]
           /\ isClosed' \in [Writers -> BOOLEAN]
           /\ isAnythingWritten' \in [Writers -> BOOLEAN]
           /\ Buffers'
<1>1. /\ rawWrite[w] \in BOOLEAN /\ stop[w] \in Nat /\ Len(b) \in Nat
      /\ bufLen[w] \in Nat /\ bufLen[w] % 8 = 0 /\ stop[w] <= bufLen[w]
      /\ ~rawWrite[w] => stop[w] = bufLen[w] /\ 8 <= Len(buf[w])
      /\ Len(buf[w]) \in Nat
  BY LenProperties DEF TypeOK, Buffers
<1>2. /\ Sealed(w, b) \in Seq(Byte) /\ Len(Sealed(w, b)) <= stop[w]
      /\ ~rawWrite[w] /\ Len(Sealed(w, b)) > 0 => 8 <= Len(Sealed(w, b))
  <2>1. CASE rawWrite[w]
    BY <1>1, <2>1 DEF Sealed
  <2>2. CASE ~rawWrite[w]
    <3>1. stop[w] % 8 = 0 /\ 8 <= Len(b)
      BY <1>1, <2>2
    <3> QED
      BY <1>1, <2>2, <3>1, SealedFits
  <2> QED
    BY <2>1, <2>2
<1>3. WriteAll(w, Sealed(w, b))
  BY DEF EmptyBuff
<1>4. /\ buf' \in [Writers -> Seq(Byte)] /\ wire' \in Seq(Byte)
      /\ FCGI_errno' \in [Writers -> BOOLEAN]
      /\ \A v \in Writers \ {w} : buf'[v] = buf[v]
      /\ Len(buf'[w]) <= stop[w]
      /\ ~rawWrite[w] => 8 <= Len(buf'[w])
  BY <1>2, <1>3, WriteAllFits
<1>5. isClosed' \in [Writers -> BOOLEAN] /\ isAnythingWritten' \in [Writers -> BOOLEAN]
  BY DEF EmptyBuff, TypeOK
<1>6. Buffers'
  BY <1>4 DEF EmptyBuff, Buffers
<1> QED
  BY <1>4, <1>5, <1>6

-----------------------------------------------------------------------------
(* What the steps do to the call and to the count of writers.              *)

\* The string of the application is a sequence of bytes.
LEMMA NextDataIsBytes ==
    ASSUME NEW w \in Writers, TypeOK, NEW n \in Nat
    PROVE  NextData(w, n) \in Seq(Byte)
<1>1. \A k \in 1..n : Data(w, given[w] + k) \in Byte
  BY DEF TypeOK, Data, Byte
<1> QED
  BY <1>1 DEF NextData

LEMMA CountIsNat ==
    ASSUME NEW w \in Writers, TypeOK, NEW n \in Nat, Count(w, n)
    PROVE  given' \in [Writers -> Nat]
BY DEF TypeOK, Count

\* A call of FCGX_PutStr ends, or the next part of the close records begins.
LEMMA AfterPutInv ==
    ASSUME NEW w \in Writers, Inv, busy = w, stage \in {"put", "eof", "end"},
           AfterPut(w), UNCHANGED <<wasFCloseCalled, rawWrite>>
    PROVE  /\ busy' \in Writers \cup {"none"}
           /\ stage' \in {"put", "eof", "end", "last"}
           /\ todo' \in Seq(Byte) /\ nWriters' \in 0..2
           /\ Mode' /\ Counted'
<1>1. CASE stage = "put"
  <2>1. busy' = "none" /\ stage' = stage /\ nWriters' = nWriters /\ todo' = <<>>
    BY <1>1 DEF AfterPut
  <2>2. Mode' /\ Counted'
    BY <1>1, <2>1 DEF Inv, Mode, Counted, Counts, Closing, Writers
  <2> QED
    BY <1>1, <2>1, <2>2 DEF Inv, TypeOK
<1>2. CASE stage = "eof"
  <2>1. /\ busy' = busy /\ stage' = "end" /\ nWriters' = nWriters
        /\ todo' = IF nWriters = 1 THEN EndRequest ELSE <<>>
    BY <1>2 DEF AfterPut
  <2>2. Mode' /\ Counted'
    BY <1>2, <2>1 DEF Inv, Mode, Counted, Counts, Closing, Writers
  <2>3. todo' \in Seq(Byte)
    BY <2>1, EndRequestIsBytes
  <2> QED
    BY <1>2, <2>1, <2>2, <2>3 DEF Inv, TypeOK
<1>3. CASE stage = "end"
  <2>1. busy' = busy /\ stage' = "last" /\ nWriters' = nWriters - 1 /\ todo' = <<>>
    BY <1>3 DEF AfterPut
  <2>2. Mode' /\ Counted'
    <3>1. ~wasFCloseCalled[w] /\ rawWrite[w]
      BY <1>3 DEF Inv, Mode, Closing
    <3>2. Mode'
      BY <1>3, <2>1, <3>1 DEF Inv, Mode, Closing
    <3>3. Counts(w) /\ ~Counts(w)'
      BY <1>3, <2>1, <3>1 DEF Counts
    <3>4. \A v \in Writers \ {w} : Counts(v)' = Counts(v)
      BY <1>3, <2>1 DEF Counts
    <3>5. Counted'
      BY <2>1, <3>3, <3>4 DEF Inv, Counted, Writers
    <3> QED
      BY <3>2, <3>5
  <2>3. nWriters' \in 0..2
    BY <2>2 DEF Counted
  <2> QED
    BY <2>1, <2>2, <2>3 DEF Inv, TypeOK
<1> QED
  BY <1>1, <1>2, <1>3

-----------------------------------------------------------------------------
(* The initial states, and one lemma per action that changes a buffer.     *)

LEMMA InitInv == Init => Inv
<1> SUFFICES ASSUME Init PROVE Inv
  OBVIOUS
<1>1. \A w \in Writers : /\ bufLen[w] \in Nat /\ 24 <= bufLen[w]
                         /\ bufLen[w] <= MaxLength + 1 /\ bufLen[w] % 8 = 0
  <2> TAKE w \in Writers
  <2>1. PICK n \in Asked, a \in BOOLEAN : bufLen[w] = BufferLength(n, a)
    BY DEF Init
  <2>2. n \in Nat
    BY AskedAssumption
  <2> QED
    BY <2>1, <2>2, BufferLengthBounds
<1>2. bufLen \in [Writers -> Nat] /\ stop = bufLen
  BY <1>1 DEF Init
<1>3. /\ buf = [w \in Writers |-> Times(8, Room)]
      /\ 0 \in 0..MaxPuts /\ 0 \in 0..MaxAnswers /\ 2 \in 0..2
  BY PutAssumption DEF Init, HeaderLen
<1>4. buf \in [Writers -> Seq(Byte)] /\ \A w \in Writers : Len(buf[w]) = 8
  <2> DEFINE room == Times(8, Room)
  <2>1. room \in Seq(Byte) /\ Len(room) = 8
    BY RoomIsBytes
  <2>2. buf = [w \in Writers |-> room]
    BY <1>3
  <2> HIDE DEF room
  <2> QED
    BY <2>1, <2>2
<1>5. TypeOK
  <2>1. /\ isClosed \in [Writers -> BOOLEAN] /\ wasFCloseCalled \in [Writers -> BOOLEAN]
        /\ FCGI_errno \in [Writers -> BOOLEAN] /\ rawWrite \in [Writers -> BOOLEAN]
        /\ isAnythingWritten \in [Writers -> BOOLEAN]
        /\ given \in [Writers -> Nat]
    BY DEF Init
  <2>2. todo \in Seq(Byte) /\ wire \in Seq(Byte)
    BY DEF Init
  <2>3. /\ nWriters \in 0..2 /\ puts \in 0..MaxPuts /\ answers \in 0..MaxAnswers
        /\ busy \in Writers \cup {"none"} /\ stage \in {"put", "eof", "end", "last"}
        /\ close \in BOOLEAN /\ cleared \in SUBSET Writers
    BY <1>3 DEF Init
  <2>4. finish \in {"no", "err", "out", "done", "never"}
    <3>1. finish = "no" \/ finish = "never"
      BY DEF Init
    <3> QED
      BY <3>1
  <2> QED
    BY <1>2, <1>4, <2>1, <2>2, <2>3, <2>4 DEF TypeOK
<1>6. Buffers
  <2> SUFFICES ASSUME NEW w \in Writers
               PROVE  /\ 24 <= bufLen[w] /\ bufLen[w] <= MaxLength + 1 /\ bufLen[w] % 8 = 0
                      /\ Len(buf[w]) <= stop[w] /\ stop[w] <= bufLen[w]
                      /\ stop[w] = bufLen[w] /\ 8 <= Len(buf[w])
    BY Zenon DEF Buffers
  <2>1. bufLen[w] \in Nat /\ 24 <= bufLen[w]
    BY <1>1
  <2>2. Len(buf[w]) = 8 /\ stop[w] = bufLen[w]
    BY <1>2, <1>4
  <2>3. Len(buf[w]) <= stop[w] /\ stop[w] <= bufLen[w] /\ 8 <= Len(buf[w])
    BY <2>1, <2>2
  <2> QED
    BY <1>1, <2>2, <2>3
<1>7. Mode /\ Counted
  BY DEF Init, Mode, Counted, Counts, Closing, Writers
<1> QED
  BY <1>5, <1>6, <1>7 DEF Inv

\* The last bytes of a string: PutLast and PutFails.
LEMMA PutEndsInv ==
    ASSUME NEW w \in Writers, Inv, PutLast(w) \/ PutFails(w)
    PROVE  Inv'
<1>1. TypeOK /\ Buffers
  BY DEF Inv
<1>2. /\ busy = w /\ stage \in {"put", "eof", "end"}
      /\ buf' = [buf EXCEPT ![w] = Filled(w)]
      /\ Count(w, Part(w)) /\ AfterPut(w)
      /\ UNCHANGED <<bufLen, stop, isClosed, wasFCloseCalled, FCGI_errno,
                     isAnythingWritten, rawWrite, puts, answers, finish, close, cleared, wire>>
  BY DEF PutLast, PutFails
<1>3. /\ Filled(w) \in Seq(Byte) /\ Part(w) \in Nat
      /\ Len(buf[w]) <= Len(Filled(w)) /\ Len(Filled(w)) <= stop[w]
  BY <1>1, FilledFits
<1>4. /\ busy' \in Writers \cup {"none"}
      /\ stage' \in {"put", "eof", "end", "last"}
      /\ todo' \in Seq(Byte) /\ nWriters' \in 0..2
      /\ Mode' /\ Counted'
  BY <1>2, AfterPutInv
<1>5. given' \in [Writers -> Nat]
  BY <1>1, <1>2, <1>3, CountIsNat
<1>6. buf' \in [Writers -> Seq(Byte)]
  BY <1>1, <1>2, <1>3 DEF TypeOK
<1>7. TypeOK'
  BY <1>1, <1>2, <1>4, <1>5, <1>6 DEF TypeOK
<1>8. Buffers'
  <2> SUFFICES ASSUME NEW v \in Writers
               PROVE  /\ Len(buf'[v]) <= stop[v]
                      /\ ~rawWrite[v] => 8 <= Len(buf'[v])
    BY <1>1, <1>2 DEF Buffers
  <2>1. CASE v = w
    <3>1. buf'[v] = Filled(w)
      BY <1>1, <1>2, <2>1 DEF TypeOK
    <3>2. ~rawWrite[v] => 8 <= Len(buf[v])
      BY <1>1 DEF Buffers
    <3>3. Len(buf[w]) \in Nat /\ Len(Filled(w)) \in Nat
      BY <1>1, <1>3, LenProperties DEF TypeOK
    <3> QED
      BY <1>3, <2>1, <3>1, <3>2, <3>3
  <2>2. CASE v # w
    BY <1>1, <1>2, <2>2 DEF Buffers, TypeOK
  <2> QED
    BY <2>1, <2>2
<1> QED
  BY <1>4, <1>7, <1>8 DEF Inv

\* A string goes on after the full buffer was emptied.
LEMMA PutMoreInv ==
    ASSUME NEW w \in Writers, Inv, PutMore(w)
    PROVE  Inv'
<1>1. TypeOK /\ Buffers
  BY DEF Inv
<1>2. /\ busy = w /\ Part(w) < Len(todo)
      /\ EmptyBuff(w, Filled(w)) /\ Count(w, Part(w))
      /\ todo' = SubSeq(todo, Part(w) + 1, Len(todo))
      /\ UNCHANGED <<bufLen, stop, wasFCloseCalled, rawWrite, nWriters, puts,
                     answers, busy, stage, finish, close, cleared>>
  BY DEF PutMore, EmptyBuff
<1>3. /\ Filled(w) \in Seq(Byte) /\ Part(w) \in Nat
      /\ Len(buf[w]) <= Len(Filled(w)) /\ Len(Filled(w)) <= stop[w]
  BY <1>1, FilledFits
<1>4. /\ buf' \in [Writers -> Seq(Byte)] /\ wire' \in Seq(Byte)
      /\ FCGI_errno' \in [Writers -> BOOLEAN]
      /\ isClosed' \in [Writers -> BOOLEAN]
      /\ isAnythingWritten' \in [Writers -> BOOLEAN]
      /\ Buffers'
  BY <1>1, <1>2, <1>3, EmptyBuffFits
<1>5. given' \in [Writers -> Nat]
  BY <1>1, <1>2, <1>3, CountIsNat
<1>6. todo' \in Seq(Byte)
  <2>1. todo \in Seq(Byte) /\ Len(todo) \in Nat
    BY <1>1, LenProperties DEF TypeOK
  <2>2. Part(w) + 1 \in Nat /\ 1 <= Part(w) + 1 /\ Part(w) + 1 <= Len(todo) + 1
    BY <1>2, <1>3, <2>1
  <2> QED
    BY <1>2, <2>1, <2>2, SubSeqIsBytes
<1>7. TypeOK'
  BY <1>1, <1>2, <1>4, <1>5, <1>6 DEF TypeOK
<1>8. Mode' /\ Counted'
  BY <1>2 DEF Inv, Mode, Closing, Counted, Counts
<1> QED
  BY <1>4, <1>7, <1>8 DEF Inv

\* FCGX_FFlush.
LEMMA AppFlushInv ==
    ASSUME NEW w \in Writers, Inv, AppFlush(w)
    PROVE  Inv'
<1>1. TypeOK /\ Buffers
  BY DEF Inv
<1>2. /\ EmptyBuff(w, buf[w])
      /\ UNCHANGED <<bufLen, stop, wasFCloseCalled, rawWrite, nWriters, given,
                     puts, answers, call, finish, close, cleared>>
  BY DEF AppFlush, EmptyBuff
<1>3. buf[w] \in Seq(Byte) /\ Len(buf[w]) <= Len(buf[w]) /\ Len(buf[w]) <= stop[w]
  BY <1>1, LenProperties DEF TypeOK, Buffers
<1>4. /\ buf' \in [Writers -> Seq(Byte)] /\ wire' \in Seq(Byte)
      /\ FCGI_errno' \in [Writers -> BOOLEAN]
      /\ isClosed' \in [Writers -> BOOLEAN]
      /\ isAnythingWritten' \in [Writers -> BOOLEAN]
      /\ Buffers'
  BY <1>1, <1>2, <1>3, EmptyBuffFits
<1>5. TypeOK'
  BY <1>1, <1>2, <1>4 DEF TypeOK, call
<1>6. Mode' /\ Counted'
  BY <1>2 DEF Inv, Mode, Closing, Counted, Counts, call
<1> QED
  BY <1>4, <1>5, <1>6 DEF Inv

\* FCGX_FClose begins: what is in the buffer becomes a record, in place.
LEMMA BeginCloseInv ==
    ASSUME NEW w \in Writers, Inv, busy = "none", ~wasFCloseCalled[w],
           BeginClose(w), UNCHANGED <<finish, close>>
    PROVE  Inv'
<1>1. TypeOK /\ Buffers
  BY DEF Inv
<1>2. /\ buf' = [buf EXCEPT ![w] = Sealed(w, buf[w])]
      /\ rawWrite' = [rawWrite EXCEPT ![w] = TRUE]
      /\ busy' = w /\ stage' = "eof"
      /\ UNCHANGED <<bufLen, stop, isClosed, wasFCloseCalled, FCGI_errno,
                     isAnythingWritten, nWriters, given, puts, answers, cleared, wire>>
  BY DEF BeginClose
<1>3. todo' \in Seq(Byte)
  <2>1. MakeHeader(w, 0, 0) \in Seq(Byte)
    BY MakeHeaderIsBytes
  <2>2. todo' = <<>> \/ todo' = MakeHeader(w, 0, 0)
    BY DEF BeginClose
  <2>3. <<>> \in Seq(Byte)
    OBVIOUS
  <2> QED
    BY <2>1, <2>2, <2>3, Zenon
<1>4. Sealed(w, buf[w]) \in Seq(Byte) /\ Len(Sealed(w, buf[w])) <= stop[w]
  <2>1. /\ rawWrite[w] \in BOOLEAN /\ stop[w] \in Nat /\ buf[w] \in Seq(Byte)
        /\ Len(buf[w]) <= stop[w] /\ bufLen[w] % 8 = 0
        /\ ~rawWrite[w] => stop[w] = bufLen[w] /\ 8 <= Len(buf[w])
    BY <1>1 DEF TypeOK, Buffers
  <2>2. CASE rawWrite[w]
    BY <2>1, <2>2 DEF Sealed
  <2>3. CASE ~rawWrite[w]
    <3>1. stop[w] % 8 = 0 /\ 8 <= Len(buf[w])
      BY <2>1, <2>3
    <3> QED
      BY <2>1, <2>3, <3>1, SealedFits
  <2> QED
    BY <2>2, <2>3
<1>5. buf' \in [Writers -> Seq(Byte)] /\ rawWrite' \in [Writers -> BOOLEAN]
  BY <1>1, <1>2, <1>4 DEF TypeOK
<1>6. TypeOK'
  BY <1>1, <1>2, <1>3, <1>5 DEF TypeOK
<1>7. Buffers'
  BY <1>1, <1>2, <1>4 DEF TypeOK, Buffers
<1>8. Mode'
  BY <1>1, <1>2 DEF TypeOK, Mode, Closing
<1>9. Counted'
  BY <1>2 DEF Inv, Counted, Counts
<1> QED
  BY <1>6, <1>7, <1>8, <1>9 DEF Inv

\* FCGX_FClose ends: the buffer is written and stop set to its end.
LEMMA EndCloseInv ==
    ASSUME NEW w \in Writers, Inv, EndClose(w)
    PROVE  Inv'
<1>1. TypeOK /\ Buffers /\ rawWrite[w] /\ ~wasFCloseCalled[w]
  BY DEF Inv, Mode, Closing, EndClose
<1>2. /\ busy = w /\ stage = "last" /\ WriteAll(w, buf[w])
      /\ wasFCloseCalled' = [wasFCloseCalled EXCEPT ![w] = TRUE]
      /\ isClosed' = [isClosed EXCEPT ![w] = TRUE]
      /\ stop' = [stop EXCEPT ![w] = Len(buf'[w])]
      /\ busy' = "none"
      /\ UNCHANGED <<bufLen, rawWrite, nWriters, given, puts, answers, stage, todo,
                     finish, close, cleared>>
  BY DEF EndClose
<1>3. /\ buf' \in [Writers -> Seq(Byte)] /\ wire' \in Seq(Byte)
      /\ FCGI_errno' \in [Writers -> BOOLEAN]
      /\ \A v \in Writers \ {w} : buf'[v] = buf[v]
      /\ Len(buf'[w]) <= stop[w]
  <2>1. buf[w] \in Seq(Byte) /\ Len(buf[w]) <= stop[w]
    BY <1>1 DEF TypeOK, Buffers
  <2> QED
    BY <1>1, <1>2, <2>1, WriteAllFits
<1>4. Len(buf'[w]) \in Nat /\ stop[w] \in Nat /\ bufLen[w] \in Nat
  BY <1>1, <1>3, LenProperties DEF TypeOK
<1>5. isAnythingWritten' \in [Writers -> BOOLEAN]
  BY DEF EndClose, Inv, TypeOK
<1>6. stop' \in [Writers -> Nat]
  BY <1>1, <1>2, <1>4 DEF TypeOK
<1>7. TypeOK'
  BY <1>1, <1>2, <1>3, <1>5, <1>6 DEF TypeOK
<1>8. Buffers'
  <2> SUFFICES ASSUME NEW v \in Writers
               PROVE  /\ Len(buf'[v]) <= stop'[v] /\ stop'[v] <= bufLen[v]
                      /\ ~rawWrite[v] => stop'[v] = bufLen[v] /\ 8 <= Len(buf'[v])
    BY <1>1, <1>2 DEF Buffers
  <2>1. CASE v = w
    <3>1. stop'[v] = Len(buf'[v])
      BY <1>1, <1>2, <2>1 DEF TypeOK
    <3>2. stop[v] <= bufLen[v]
      BY <1>1 DEF Buffers
    <3> QED
      BY <1>1, <1>3, <1>4, <2>1, <3>1, <3>2
  <2>2. CASE v # w
    BY <1>1, <1>2, <1>3, <2>2 DEF Buffers, TypeOK
  <2> QED
    BY <2>1, <2>2
<1>9. Mode'
  BY <1>2 DEF Mode, Closing, Writers
<1>10. Counted'
  BY <1>1, <1>2 DEF Inv, Counted, Counts, TypeOK, Writers
<1> QED
  BY <1>7, <1>8, <1>9, <1>10 DEF Inv

\* The steps that do not touch a buffer.
LEMMA OtherStepsInv ==
    ASSUME NEW w \in Writers, Inv,
           \/ AppPut(w) \/ AppClear(w) \/ FinishNext(w) \/ ReaderAnswer \/ StartFinish \/ Finished
           \/ UNCHANGED vars
    PROVE  Inv'
<1>1. TypeOK /\ Buffers /\ Mode /\ Counted
  BY DEF Inv
<1>2. CASE AppPut(w)
  <2>1. PICK n \in PutSizes : todo' = NextData(w, n)
    BY <1>2 DEF AppPut
  <2>2. todo' \in Seq(Byte)
    BY <1>1, <2>1, PutAssumption, NextDataIsBytes
  <2>3. /\ busy = "none" /\ busy' = w /\ stage' = "put"
        /\ puts < MaxPuts /\ puts' = puts + 1
        /\ UNCHANGED <<streams, nWriters, given, answers, finish, close, cleared, wire>>
    BY <1>2 DEF AppPut, Idle
  <2>4. puts' \in 0..MaxPuts
    BY <1>1, <2>3, PutAssumption DEF TypeOK
  <2>5. TypeOK'
    BY <1>1, <2>2, <2>3, <2>4 DEF TypeOK, streams
  <2>6. Buffers' /\ Mode' /\ Counted'
    BY <1>1, <2>3 DEF Buffers, Mode, Closing, Counted, Counts, streams
  <2> QED
    BY <2>5, <2>6 DEF Inv
<1>3. CASE FinishNext(w)
  <2>1. /\ finish' \in {"out", "done"}
        /\ UNCHANGED <<streams, nWriters, given, puts, answers, call, cleared, wire>>
    BY <1>3 DEF FinishNext
  <2>2. close' \in BOOLEAN
    BY <1>1, <1>3 DEF FinishNext, TypeOK
  <2> QED
    BY <1>1, <2>1, <2>2
    DEF Inv, TypeOK, Buffers, Mode, Closing, Counted, Counts, streams, call
<1>4. CASE ReaderAnswer
  <2>1. /\ answers < MaxAnswers /\ answers' = answers + 1
        /\ wire' = wire \o MakeHeader("ANSWER", 8, 0) \o Times(8, <<"answer">>)
        /\ UNCHANGED <<streams, nWriters, given, puts, call, finish, close, cleared>>
    BY <1>4 DEF ReaderAnswer
  <2>2. <<"answer">> \in Byte
    BY DEF Byte
  <2>3. MakeHeader("ANSWER", 8, 0) \in Seq(Byte) /\ Times(8, <<"answer">>) \in Seq(Byte)
    BY <2>2, MakeHeaderIsBytes, TimesIsBytes
  <2>4. wire' \in Seq(Byte)
    BY <1>1, <2>1, <2>3, ConcatIsBytes DEF TypeOK
  <2>5. answers' \in 0..MaxAnswers
    BY <1>1, <2>1, PutAssumption DEF TypeOK
  <2>6. TypeOK'
    BY <1>1, <2>1, <2>4, <2>5 DEF TypeOK, streams, call
  <2>7. Buffers' /\ Mode' /\ Counted'
    BY <1>1, <2>1 DEF Buffers, Mode, Closing, Counted, Counts, streams, call
  <2> QED
    BY <2>6, <2>7 DEF Inv
<1>5. CASE StartFinish
  <2>1. /\ finish' = "err" /\ close' \in BOOLEAN
        /\ UNCHANGED <<streams, nWriters, given, puts, answers, call, cleared, wire>>
    BY <1>5 DEF StartFinish
  <2> QED
    BY <1>1, <2>1
    DEF Inv, TypeOK, Buffers, Mode, Closing, Counted, Counts, streams, call
<1>6. CASE AppClear(w)
  <2>1. /\ FCGI_errno' = [FCGI_errno EXCEPT ![w] = FALSE]
        /\ cleared' = cleared \cup {w}
        /\ UNCHANGED <<bufLen, buf, stop, isClosed, wasFCloseCalled, isAnythingWritten,
                       rawWrite, nWriters, given, puts, answers, call, finish, close, wire>>
    BY <1>6 DEF AppClear
  <2> QED
    BY <1>1, <2>1
    DEF Inv, TypeOK, Buffers, Mode, Closing, Counted, Counts, call
<1>7. CASE Finished \/ UNCHANGED vars
  BY <1>1, <1>7
  DEF Inv, TypeOK, Buffers, Mode, Closing, Counted, Counts, Finished, vars, streams, call
<1> QED
  BY <1>2, <1>3, <1>4, <1>5, <1>6, <1>7

-----------------------------------------------------------------------------
(* The theorems.                                                           *)

LEMMA NextInv == Inv /\ [Next]_vars => Inv'
<1> SUFFICES ASSUME Inv, [Next]_vars PROVE Inv'
  OBVIOUS
<1>1. ASSUME NEW w \in Writers, Library(w) PROVE Inv'
  <2>1. CASE PutLast(w) \/ PutFails(w)
    BY <2>1, PutEndsInv
  <2>2. CASE PutMore(w)
    BY <2>2, PutMoreInv
  <2>3. CASE EndClose(w)
    BY <2>3, EndCloseInv
  <2>4. CASE FinishClose(w)
    BY <2>4, BeginCloseInv DEF FinishClose
  <2>5. CASE FinishNext(w)
    BY <2>5, OtherStepsInv
  <2> QED
    BY <1>1, <2>1, <2>2, <2>3, <2>4, <2>5 DEF Library
<1>2. ASSUME NEW w \in Writers, App(w) PROVE Inv'
  <2>1. CASE AppPut(w)
    BY <2>1, OtherStepsInv
  <2>2. CASE AppFlush(w)
    BY <2>2, AppFlushInv
  <2>3. CASE AppClose(w)
    BY <2>3, BeginCloseInv DEF AppClose, Idle
  <2>4. CASE AppClear(w)
    BY <2>4, OtherStepsInv
  <2> QED
    BY <1>2, <2>1, <2>2, <2>3, <2>4 DEF App
<1>3. CASE ReaderAnswer \/ StartFinish \/ Finished \/ UNCHANGED vars
  BY <1>3, OtherStepsInv DEF Writers
<1> QED
  BY <1>1, <1>2, <1>3 DEF Next

LEMMA SpecInv == Spec => []Inv
BY InitInv, NextInv, PTL DEF Spec

\* Every variable of the writers has its type, whatever the buffer lengths and
\* the sizes of the strings.
THEOREM WriterTypes == Spec => []TypeOK
<1>1. Inv => TypeOK
  BY DEF Inv
<1> QED
  BY <1>1, SpecInv, PTL

\* "Padding cannot overflow the buffer" and the assertions of MakeHeader hold,
\* for every buffer length NewWriter is asked for and whether or not Malloc
\* returns an aligned pointer.
THEOREM PaddingAlwaysFits == Spec => []PaddingFits
<1>1. Inv => PaddingFits
  <2> SUFFICES ASSUME Inv, NEW w \in Writers
               PROVE  /\ Len(buf[w]) <= stop[w] /\ stop[w] <= bufLen[w]
                      /\ ~rawWrite[w] => /\ Len(buf[w]) + PadLen(buf[w]) <= bufLen[w]
                                         /\ ContentLen(buf[w]) \in 0..MaxLength
                                         /\ PadLen(buf[w]) \in 0..255
    BY DEF PaddingFits
  <2>1. /\ Len(buf[w]) <= stop[w] /\ stop[w] <= bufLen[w]
        /\ bufLen[w] \in Nat /\ bufLen[w] <= MaxLength + 1 /\ bufLen[w] % 8 = 0
        /\ ~rawWrite[w] => stop[w] = bufLen[w] /\ 8 <= Len(buf[w])
        /\ Len(buf[w]) \in Nat
    BY LenProperties DEF Inv, TypeOK, Buffers
  <2>2. CASE ~rawWrite[w]
    <3> DEFINE c == Len(buf[w]) - 8
    <3>1. c \in Nat /\ ContentLen(buf[w]) = c
      BY <2>1, <2>2 DEF ContentLen, HeaderLen
    <3>2. bufLen[w] - 8 \in Nat /\ (bufLen[w] - 8) % 8 = 0 /\ c <= bufLen[w] - 8
      BY <2>1, <2>2, <3>1
    <3>3. AlignInt8(c) <= bufLen[w] - 8
      BY <3>1, <3>2, AlignInt8Fits
    <3>4. AlignInt8(c) \in Nat /\ c <= AlignInt8(c) /\ AlignInt8(c) < c + 8
      BY <3>1, AlignInt8Rounds
    <3>5. PadLen(buf[w]) = AlignInt8(c) - c
      BY <3>1 DEF PadLen
    <3>6. MaxLength \in Nat
      BY DEF MaxLength
    <3> HIDE DEF c
    <3>7. PadLen(buf[w]) \in 0..255
      BY <3>1, <3>4, <3>5
    <3>8. c \in 0..MaxLength
      <4>1. c <= bufLen[w] - 8 /\ bufLen[w] \in Nat /\ bufLen[w] <= MaxLength + 1
        BY <2>1, <3>2
      <4>2. c <= MaxLength
        BY <3>1, <3>6, <4>1
      <4> QED
        BY <3>1, <3>6, <4>2
    <3>9. Len(buf[w]) + PadLen(buf[w]) <= bufLen[w]
      <4>1. Len(buf[w]) = c + 8
        BY <2>1 DEF c
      <4>2. Len(buf[w]) + PadLen(buf[w]) = AlignInt8(c) + 8
        BY <3>1, <3>4, <3>5, <4>1
      <4>3. bufLen[w] \in Nat
        BY <2>1
      <4> QED
        BY <3>3, <3>4, <4>2, <4>3
    <3> QED
      BY <2>1, <3>1, <3>7, <3>8, <3>9, Zenon
  <2> QED
    BY <2>1, <2>2
<1> QED
  BY <1>1, SpecInv, PTL

-----------------------------------------------------------------------------
(* The inductive invariant of what is written.                             *)

\* Where s has a byte of T, and whether it has one.
Places(s, T) == {p \in DOMAIN s : s[p] \in T}
Has(s, T) == Places(s, T) # {}
AtMostOne(s, T) == \A p, q \in Places(s, T) : p = q

\* The last byte of the record that ends the stream of w, and that of the one
\* that ends the request.
EofBytes(w) == {"head"} \X {w} \X {0} \X Nat \X {HeaderLen}
EndBytes == {Body(EndBodyLen)}

\* What can be in the buffer of w, or on its way into it.
BytesOf(w) == DataBytes(w) \cup {Pad, Room} \cup {Body(k) : k \in 1..EndBodyLen}
              \cup ({"head"} \X {w, "END"} \X Nat \X Nat \X (1..HeaderLen))

Pure(s, w) == \A p \in DOMAIN s : s[p] \in BytesOf(w)

\* The string being put: what the application gives w next, or close records.
Strings == \A w \in Writers :
    /\ Pure(buf[w], w)
    /\ busy = w => /\ Pure(todo, w)
                   /\ stage = "put" => todo = NextData(w, Len(todo))
                   /\ stage # "put" => ~Has(todo, DataBytes(w))
                   /\ stage = "last" => todo = <<>>

\* A stream that failed is closed and stays so; only FCGX_FClose puts a stream
\* into raw mode.
Closed == \A w \in Writers :
    /\ Failed(w) => isClosed[w]
    /\ isClosed[w] => Failed(w) \/ wasFCloseCalled[w]
    /\ rawWrite[w] => wasFCloseCalled[w] \/ Closing(w)
    /\ wasFCloseCalled[w] => rawWrite[w] /\ isClosed[w] /\ ~Closing(w) /\ stop[w] = Len(buf[w])

\* FCGX_Finish_r has closed what it says, and seen its errors.
Finishing ==
    /\ finish \in {"out", "done"} => wasFCloseCalled["err"]
    /\ finish = "done" => wasFCloseCalled["out"] /\ busy = "none"
    /\ FCGI_errno["err"] /\ finish \in {"out", "done"} => close
    /\ FCGI_errno["out"] /\ finish = "done" => close

\* The lone writer of FCGX_CreateWriter is not the last of two.
Lone == Created =>
    /\ busy # "err" /\ ~wasFCloseCalled["err"]
    /\ ~Has(wire, EndBytes) /\ ~Has(buf["out"], EndBytes) /\ ~Has(todo, EndBytes)

\* What is on the connection, and the close records on their way there.
Pending == busy \in Writers /\ stage # "put"
Sent == IF Pending THEN wire \o (buf[busy] \o todo) ELSE wire

\* Whole records; every end once, and no content behind it.
Orderly(s) ==
    /\ WellFormed(s)
    /\ AtMostOne(s, EndBytes)
    /\ \A w \in Writers :
          /\ AtMostOne(s, EofBytes(w))
          /\ \A p \in Places(s, EofBytes(w)), q \in Places(s, DataBytes(w)) : q < p

\* Who has ended what.
Ends ==
    /\ Has(Sent, EndBytes) <=> (nWriters = 0 \/ (Pending /\ stage = "end" /\ nWriters = 1))
    /\ Pending /\ Has(Sent, EndBytes) => Sent[Len(Sent)] = Body(EndBodyLen)
    /\ \A w \in Writers : Has(Sent, EofBytes(w)) => rawWrite[w]
    /\ \A w \in Writers : rawWrite[w] =>
          Has(Sent, EofBytes(w)) \/ (w = "err" /\ ~Has(Sent, DataBytes(w)))

\* Without an error: the buffer of w is the content of one record, or close
\* records, and nothing the application gave is lost.
Content == \A w \in Writers :
    /\ ~rawWrite[w] => \A p \in DOMAIN buf[w] :
                          buf[w][p] \in (IF p <= HeaderLen THEN {Room} ELSE DataBytes(w))
    /\ rawWrite[w] /\ ~Closing(w) => buf[w] = <<>>
    /\ ~isAnythingWritten[w] => ~Has(wire, DataBytes(w))
    /\ DataOf(wire, w) \o DataOf(buf[w], w) = [k \in 1..given[w] |-> Data(w, k)]

Cleanly == Orderly(Sent) /\ Ends /\ Content
Clean == NoError => Cleanly

WriterInv == Inv /\ Strings /\ Closed /\ Finishing /\ Lone /\ Clean

-----------------------------------------------------------------------------
(* Sequences one behind the other.                                         *)

\* The elements of s \o t, and those of a beginning of s.
LEMMA Behind ==
    ASSUME NEW S, NEW s \in Seq(S), NEW t \in Seq(S)
    PROVE  /\ s \o t \in Seq(S) /\ Len(s) \in Nat /\ Len(t) \in Nat
           /\ Len(s \o t) = Len(s) + Len(t)
           /\ DOMAIN s = 1..Len(s) /\ DOMAIN t = 1..Len(t)
           /\ DOMAIN (s \o t) = 1..Len(s) + Len(t)
           /\ \A i \in 1..Len(s) : (s \o t)[i] = s[i]
           /\ \A i \in 1..Len(t) : (s \o t)[Len(s) + i] = t[i]
<1>1. s \o t \in Seq(S) /\ Len(s \o t) = Len(s) + Len(t) /\ Len(s) \in Nat /\ Len(t) \in Nat
  BY ConcatProperties, LenProperties
<1>2. DOMAIN s = 1..Len(s) /\ DOMAIN t = 1..Len(t)
  BY LenProperties
<1>3. DOMAIN (s \o t) = 1..Len(s) + Len(t)
  <2> DEFINE u == s \o t
  <2>1. u \in Seq(S) /\ Len(u) = Len(s) + Len(t)
    BY <1>1
  <2> HIDE DEF u
  <2>2. DOMAIN u = 1..Len(u)
    BY <2>1, LenProperties
  <2> QED BY <2>1, <2>2 DEF u
<1>4. \A i \in 1..Len(s) : (s \o t)[i] = s[i]
  BY <1>1
<1>5. \A i \in 1..Len(t) : (s \o t)[Len(s) + i] = t[i]
  BY <1>1
<1> QED BY <1>1, <1>2, <1>3, <1>4, <1>5

\* The places of T in s \o t are those in s and, moved, those in t.
LEMMA PlacesBehind ==
    ASSUME NEW S, NEW s \in Seq(S), NEW t \in Seq(S), NEW T
    PROVE  /\ \A p \in Places(s, T) : p \in Places(s \o t, T) /\ p \in 1..Len(s)
           /\ \A p \in Places(t, T) : Len(s) + p \in Places(s \o t, T) /\ p \in 1..Len(t)
           /\ \A p \in Places(s \o t, T) :
                  p \in Places(s, T) \/ (p - Len(s) \in Places(t, T) /\ p > Len(s))
<1> DEFINE u == s \o t
<1>1. /\ Len(s) \in Nat /\ Len(t) \in Nat
      /\ DOMAIN s = 1..Len(s) /\ DOMAIN t = 1..Len(t) /\ DOMAIN u = 1..Len(s) + Len(t)
      /\ \A i \in 1..Len(s) : u[i] = s[i]
      /\ \A i \in 1..Len(t) : u[Len(s) + i] = t[i]
  BY Behind
<1> HIDE DEF u
<1>2. ASSUME NEW p \in Places(s, T) PROVE p \in Places(u, T) /\ p \in 1..Len(s)
  BY <1>1, <1>2 DEF Places
<1>3. ASSUME NEW p \in Places(t, T) PROVE Len(s) + p \in Places(u, T) /\ p \in 1..Len(t)
  BY <1>1, <1>3 DEF Places
<1>4. ASSUME NEW p \in Places(u, T)
      PROVE  p \in Places(s, T) \/ (p - Len(s) \in Places(t, T) /\ p > Len(s))
  <2>1. p \in 1..Len(s) + Len(t) /\ u[p] \in T
    BY <1>1 DEF Places
  <2>2. CASE p \in 1..Len(s)
    BY <2>1, <2>2, <1>1 DEF Places
  <2>3. CASE p \notin 1..Len(s)
    <3>1. p - Len(s) \in 1..Len(t) /\ p > Len(s) /\ Len(s) + (p - Len(s)) = p
      BY <2>1, <2>3, <1>1
    <3>2. u[Len(s) + (p - Len(s))] = t[p - Len(s)]
      BY <3>1, <1>1
    <3> QED BY <2>1, <3>1, <3>2, <1>1 DEF Places
  <2> QED BY <2>2, <2>3
<1> QED BY <1>2, <1>3, <1>4 DEF u

LEMMA HasBehind ==
    ASSUME NEW S, NEW s \in Seq(S), NEW t \in Seq(S), NEW T
    PROVE  Has(s \o t, T) <=> Has(s, T) \/ Has(t, T)
BY PlacesBehind DEF Has

\* No byte of T in a sequence: none is selected.
LEMMA HasNone ==
    ASSUME NEW S, NEW s \in Seq(S), NEW T, ~Has(s, T)
    PROVE  Selected(s, T) = <<>>
BY SelectedNone DEF Has, Places

\* A part of a sequence has what the sequence has.
LEMMA PartOf ==
    ASSUME NEW S, NEW s \in Seq(S), NEW i \in Nat, NEW j \in Nat,
           1 <= i, i <= j + 1, j <= Len(s)
    PROVE  /\ SubSeq(s, i, j) \in Seq(S) /\ Len(SubSeq(s, i, j)) = j + 1 - i
           /\ DOMAIN SubSeq(s, i, j) = 1..(j + 1 - i)
           /\ \A k \in 1..(j + 1 - i) : SubSeq(s, i, j)[k] = s[i + k - 1] /\ i + k - 1 \in DOMAIN s
<1>1. \A k \in i..j : s[k] \in S
  BY ElementOfSeq
<1>2. SubSeq(s, i, j) \in Seq(S) /\ Len(SubSeq(s, i, j)) = j + 1 - i
  BY <1>1, SubSeqProperties
<1>3. \A k \in 1..(j + 1 - i) : SubSeq(s, i, j)[k] = s[i + k - 1] /\ i + k - 1 \in DOMAIN s
  BY <1>1, SubSeqProperties
<1>4. DOMAIN SubSeq(s, i, j) = 1..(j + 1 - i)
  BY <1>2, LenProperties
<1> QED BY <1>2, <1>3, <1>4

LEMMA PartHas ==
    ASSUME NEW S, NEW s \in Seq(S), NEW i \in Nat, NEW j \in Nat, NEW T,
           1 <= i, i <= j + 1, j <= Len(s), ~Has(s, T)
    PROVE  ~Has(SubSeq(s, i, j), T)
BY PartOf DEF Has, Places

-----------------------------------------------------------------------------
(* Records.                                                                *)

LEMMA HeadCell ==
    ASSUME NEW cell \in Byte, IsHead(cell)
    PROVE  /\ cell[2] \in Writers \cup {"END", "ANSWER"} /\ cell[3] \in Nat /\ cell[4] \in Nat
           /\ cell[5] \in 1..8
           /\ cell = HeadByte(cell[2], cell[3], cell[4], cell[5])
<1>1. /\ Pad[1] = "pad" /\ Room[1] = "room" /\ <<"answer">>[1] = "answer"
      /\ \A k \in 1..8 : Body(k)[1] = "body"
  BY DEF Pad, Room, Body
<1>2. \A d \in {"data"} \X Writers \X Nat : d[1] = "data"
  OBVIOUS
<1>3. cell \in {"head"} \X (Writers \cup {"END", "ANSWER"}) \X Nat \X Nat \X (1..8)
  <2>1. cell[1] = "head"
    BY DEF IsHead
  <2>2. cell \notin {"data"} \X Writers \X Nat
    BY <2>1, <1>2
  <2>3. cell # Pad /\ cell # Room /\ cell # <<"answer">>
    BY <2>1, <1>1
  <2>4. cell \notin {Body(k) : k \in 1..8}
    BY <2>1, <1>1
  <2> QED BY <2>2, <2>3, <2>4 DEF Byte, EndBodyLen, HeaderLen
<1> QED BY <1>3 DEF HeadByte

\* The places where records begin, in s and behind s.
BeginByte == {cell \in Byte : IsHead(cell) /\ cell[5] = 1}

LEMMA StartsArePlaces ==
    ASSUME NEW s \in Seq(Byte)
    PROVE  Starts(s) = Places(s, BeginByte)
<1>1. \A p \in DOMAIN s : s[p] \in Byte
  OBVIOUS
<1> QED BY <1>1 DEF Starts, Places, BeginByte

\* A record stays one where the sequence is put behind another or another behind it.
LEMMA RecordMoves ==
    ASSUME NEW s \in Seq(Byte), NEW u \in Seq(Byte), NEW d \in Nat, d + Len(s) <= Len(u),
           \A i \in 1..Len(s) : u[d + i] = s[i],
           NEW p \in Starts(s), RecordAt(s, p),
           d + (p + Length(s, p)) \in Starts(u) \cup {Len(u) + 1}
    PROVE  RecordAt(u, d + p)
<1> DEFINE t == s[p][2]
           len == s[p][3]
           pad == s[p][4]
           q == d + p
<1>1. /\ p \in 1..Len(s) /\ Len(s) \in Nat /\ Len(u) \in Nat
      /\ t \in Writers \cup {"END", "ANSWER"} /\ len \in Nat /\ pad \in Nat
  <2>1. p \in 1..Len(s) /\ s[p] \in Byte /\ IsHead(s[p])
    BY DEF Starts
  <2> QED BY <2>1, HeadCell, LenProperties
<1>2. /\ u[q] = s[p] /\ q \in Nat /\ q >= 1
  BY <1>1
<1>3. /\ p + Length(s, p) - 1 <= Len(s) /\ Length(s, p) = 8 + len + pad
      /\ SubSeq(s, p, p + 7) = MakeHeader(t, len, pad)
      /\ \A k \in 0..len-1 : HoldsContent(s[p + 8 + k], t)
      /\ \A k \in 0..pad-1 : s[p + 8 + len + k] = Pad
  <2>1. /\ p + Length(s, p) - 1 <= Len(s) /\ Length(s, p) = 8 + len + pad
        /\ SubSeq(s, p, p + 8 - 1) = MakeHeader(t, len, pad)
        /\ \A k \in 0..len-1 : HoldsContent(s[p + 8 + k], t)
        /\ \A k \in 0..pad-1 : s[p + 8 + len + k] = Pad
    BY DEF RecordAt, Length, HeaderLen
  <2>2. p + 8 - 1 = p + 7
    BY <1>1
  <2> QED BY <2>1, <2>2
<1>4. Length(u, q) = Length(s, p)
  BY <1>2 DEF Length
<1>11. u[q][2] = t /\ u[q][3] = len /\ u[q][4] = pad
  BY <1>2
<1>a. q = d + p
  OBVIOUS
<1> DEFINE L == Length(s, p)
<1>b. L = Length(s, p) /\ L = 8 + len + pad /\ p + L - 1 <= Len(s) /\ Length(u, q) = L
  BY <1>3, <1>4
<1> HIDE DEF q, t, len, pad, L
<1>5. q + Length(u, q) = d + (p + Length(s, p))
  BY <1>1, <1>a, <1>b
<1>6. q + Length(u, q) - 1 <= Len(u)
  BY <1>1, <1>a, <1>b
<1>7. SubSeq(u, q, q + 7) = SubSeq(s, p, p + 7)
  <2>1. p + 7 <= Len(s) /\ q + 7 <= Len(u) /\ p \in Nat /\ p + 7 \in Nat /\ q + 7 \in Nat
        /\ p <= (p + 7) + 1 /\ q <= (q + 7) + 1 /\ (p + 7) + 1 - p = 8 /\ (q + 7) + 1 - q = 8
    BY <1>1, <1>2, <1>a, <1>b
  <2>2. /\ SubSeq(s, p, p + 7) \in Seq(Byte) /\ Len(SubSeq(s, p, p + 7)) = 8
        /\ \A k \in 1..8 : SubSeq(s, p, p + 7)[k] = s[p + k - 1]
    BY <1>1, <2>1, PartOf
  <2>3. /\ SubSeq(u, q, q + 7) \in Seq(Byte) /\ Len(SubSeq(u, q, q + 7)) = 8
        /\ \A k \in 1..8 : SubSeq(u, q, q + 7)[k] = u[q + k - 1]
    BY <1>2, <2>1, PartOf
  <2>4. \A k \in 1..8 : u[q + k - 1] = s[p + k - 1]
    <3> SUFFICES ASSUME NEW k \in 1..8 PROVE u[q + k - 1] = s[p + k - 1]
      OBVIOUS
    <3>1. p + k - 1 \in 1..Len(s) /\ q + k - 1 = d + (p + k - 1)
      BY <1>1, <1>a, <2>1
    <3> QED BY <3>1
  <2> DEFINE x == SubSeq(u, q, q + 7)
             y == SubSeq(s, p, p + 7)
  <2>5. /\ x \in Seq(Byte) /\ Len(x) = 8 /\ \A k \in 1..8 : x[k] = u[q + k - 1]
        /\ y \in Seq(Byte) /\ Len(y) = 8 /\ \A k \in 1..8 : y[k] = s[p + k - 1]
    BY <2>2, <2>3, Zenon
  <2> HIDE DEF x, y
  <2>6. x = y
    <3>1. \A k \in 1..8 : x[k] = y[k]
      BY ONLY <2>4, <2>5
    <3>2. x \in Seq(Byte) /\ y \in Seq(Byte) /\ Len(x) = Len(y) /\ \A k \in 1..Len(x) : x[k] = y[k]
      BY ONLY <2>5, <3>1
    <3> QED BY ONLY <3>2, SeqEqual
  <2> QED BY <2>6 DEF x, y
<1>8. \A k \in 0..len-1 : u[q + 8 + k] = s[p + 8 + k]
  <2> SUFFICES ASSUME NEW k \in 0..len-1 PROVE u[q + 8 + k] = s[p + 8 + k]
    OBVIOUS
  <2>1. p + 8 + k \in 1..Len(s) /\ q + 8 + k = d + (p + 8 + k)
    BY <1>1, <1>a, <1>b
  <2> QED BY <2>1
<1>9. \A k \in 0..pad-1 : u[q + 8 + len + k] = s[p + 8 + len + k]
  <2> SUFFICES ASSUME NEW k \in 0..pad-1 PROVE u[q + 8 + len + k] = s[p + 8 + len + k]
    OBVIOUS
  <2>1. p + 8 + len + k \in 1..Len(s) /\ q + 8 + len + k = d + (p + 8 + len + k)
    BY <1>1, <1>a, <1>b
  <2> QED BY <2>1
<1>10. q + 8 - 1 = q + 7
  BY <1>2
<1>12. SubSeq(u, q, q + HeaderLen - 1) = MakeHeader(t, len, pad)
  BY <1>3, <1>7, <1>10 DEF HeaderLen
<1>13. q + Length(u, q) \in Starts(u) \cup {Len(u) + 1}
  BY <1>5
<1>14. \A k \in 0..len-1 : HoldsContent(u[q + HeaderLen + k], t)
  BY <1>3, <1>8 DEF HeaderLen
<1>15. \A k \in 0..pad-1 : u[q + HeaderLen + len + k] = Pad
  BY <1>3, <1>9 DEF HeaderLen
<1>16. RecordAt(u, q)
  BY <1>6, <1>11, <1>12, <1>13, <1>14, <1>15, Zenon DEF RecordAt
<1> QED BY <1>16 DEF q

\* Whole records behind whole records are whole records.
LEMMA WellFormedBehind ==
    ASSUME NEW s \in Seq(Byte), NEW t \in Seq(Byte), WellFormed(s), WellFormed(t)
    PROVE  WellFormed(s \o t)
<1> DEFINE u == s \o t
           d == Len(s)
<1>1. /\ u \in Seq(Byte) /\ d \in Nat /\ Len(t) \in Nat /\ Len(u) = d + Len(t)
      /\ \A i \in 1..d : u[i] = s[i]
      /\ \A i \in 1..Len(t) : u[d + i] = t[i]
  BY Behind
<1>2. /\ Starts(s) = Places(s, BeginByte) /\ Starts(t) = Places(t, BeginByte)
      /\ Starts(u) = Places(u, BeginByte)
  BY <1>1, StartsArePlaces
<1>3. /\ \A p \in Starts(s) : p \in Starts(u) /\ p \in 1..d
      /\ \A p \in Starts(t) : d + p \in Starts(u) /\ p \in 1..Len(t)
      /\ \A p \in Starts(u) : p \in Starts(s) \/ (p - d \in Starts(t) /\ p > d)
  <2>1. /\ \A p \in Places(s, BeginByte) : p \in Places(s \o t, BeginByte) /\ p \in 1..Len(s)
        /\ \A p \in Places(t, BeginByte) : Len(s) + p \in Places(s \o t, BeginByte) /\ p \in 1..Len(t)
        /\ \A p \in Places(s \o t, BeginByte) :
              p \in Places(s, BeginByte) \/ (p - Len(s) \in Places(t, BeginByte) /\ p > Len(s))
    BY PlacesBehind
  <2> QED BY <1>2, <2>1
<1>4. Len(t) > 0 => d + 1 \in Starts(u)
  <2>1. Len(t) > 0 => 1 \in Starts(t)
    BY DEF WellFormed
  <2> QED BY <2>1, <1>3
<1>5. u # <<>> => 1 \in Starts(u)
  <2>1. u # <<>> => Len(u) > 0
    BY <1>1
  <2>2. CASE d > 0
    <3>1. 1 \in Starts(s)
      BY <2>2 DEF WellFormed
    <3> QED BY <3>1, <1>3
  <2>3. CASE d = 0
    BY <2>1, <2>3, <1>1, <1>4
  <2> QED BY <2>2, <2>3, <1>1
<1>6. \A p \in Starts(s) : RecordAt(s, p) /\ p + Length(s, p) \in Starts(s) \cup {Len(s) + 1}
  BY DEF WellFormed, RecordAt
<1>7. \A p \in Starts(t) : RecordAt(t, p) /\ p + Length(t, p) \in Starts(t) \cup {Len(t) + 1}
  BY DEF WellFormed, RecordAt
<1> HIDE DEF u, d
<1>8. ASSUME NEW p \in Starts(s) PROVE RecordAt(u, p)
  <2> DEFINE e == p + Length(s, p)
  <2>1. e \in Starts(s) \cup {d + 1} /\ RecordAt(s, p) /\ p \in Nat
    BY <1>3, <1>6 DEF d
  <2> HIDE DEF e
  <2>2. e \in Starts(u) \cup {Len(u) + 1} /\ e \in Nat
    <3>1. CASE e \in Starts(s)
      BY <3>1, <1>3
    <3>2. CASE e = d + 1
      <4>1. CASE Len(t) > 0
        BY <3>2, <4>1, <1>4, <1>1
      <4>2. CASE Len(t) = 0
        BY <3>2, <4>2, <1>1
      <4> QED BY <4>1, <4>2, <1>1
    <3> QED BY <2>1, <3>1, <3>2
  <2>3. 0 + e \in Starts(u) \cup {Len(u) + 1}
    BY <2>2
  <2>4. 0 + Len(s) <= Len(u) /\ \A i \in 1..Len(s) : u[0 + i] = s[i]
    BY <1>1 DEF d
  <2>5. RecordAt(u, 0 + p)
    BY <2>1, <2>3, <2>4, <1>1, RecordMoves DEF e
  <2> QED BY <2>1, <2>5
<1>9. ASSUME NEW p \in Starts(t) PROVE RecordAt(u, d + p)
  <2> DEFINE e == p + Length(t, p)
  <2>1. e \in Starts(t) \cup {Len(t) + 1} /\ RecordAt(t, p)
    BY <1>7
  <2> HIDE DEF e
  <2>2. d + e \in Starts(u) \cup {Len(u) + 1}
    <3>1. CASE e \in Starts(t)
      BY <3>1, <1>3
    <3>2. CASE e = Len(t) + 1
      BY <3>2, <1>1
    <3> QED BY <2>1, <3>1, <3>2
  <2>3. d + Len(t) <= Len(u)
    BY <1>1
  <2> QED BY <2>1, <2>2, <2>3, <1>1, RecordMoves DEF e
<1>10. \A p \in Starts(u) : RecordAt(u, p)
  <2> SUFFICES ASSUME NEW p \in Starts(u) PROVE RecordAt(u, p)
    OBVIOUS
  <2>1. CASE p \in Starts(s)
    BY <2>1, <1>8
  <2>2. CASE p - d \in Starts(t) /\ p > d
    <3>1. RecordAt(u, d + (p - d))
      BY <2>2, <1>9
    <3>2. d + (p - d) = p
      BY <2>2, <1>1 DEF Starts
    <3> QED BY <3>1, <3>2
  <2> QED BY <2>1, <2>2, <1>3
<1> QED BY <1>5, <1>10 DEF WellFormed, u

LEMMA BehindBytes ==
    \A s, t \in Seq(Byte) :
        /\ s \o t \in Seq(Byte) /\ Len(s \o t) = Len(s) + Len(t)
        /\ \A i \in 1..Len(s) : (s \o t)[i] = s[i]
        /\ \A i \in 1..Len(t) : (s \o t)[Len(s) + i] = t[i]
<1> SUFFICES ASSUME NEW s \in Seq(Byte), NEW t \in Seq(Byte)
             PROVE  /\ s \o t \in Seq(Byte) /\ Len(s \o t) = Len(s) + Len(t)
                    /\ \A i \in 1..Len(s) : (s \o t)[i] = s[i]
                    /\ \A i \in 1..Len(t) : (s \o t)[Len(s) + i] = t[i]
  OBVIOUS
<1> QED BY Behind

\* A record of the content c.
Rec(t, len, pad, c) == (MakeHeader(t, len, pad) \o c) \o Times(pad, Pad)

IsRecord(r, t, len, pad, c) ==
    /\ r \in Seq(Byte) /\ Len(r) = 8 + len + pad
    /\ \A p \in 1..8 : r[p] = HeadByte(t, len, pad, p)
    /\ \A k \in 1..len : r[8 + k] = c[k]
    /\ \A k \in 1..pad : r[8 + len + k] = Pad

LEMMA RecordBytes ==
    ASSUME NEW t \in Writers \cup {"END", "ANSWER"}, NEW len \in Nat, NEW pad \in Nat,
           NEW c \in Seq(Byte), Len(c) = len
    PROVE  IsRecord(Rec(t, len, pad, c), t, len, pad, c)
<1> DEFINE h == MakeHeader(t, len, pad)
           tail == Times(pad, Pad)
           a == h \o c
           r == a \o tail
<1>1. h \in Seq(Byte) /\ Len(h) = 8 /\ \A p \in 1..8 : h[p] = HeadByte(t, len, pad, p)
  <2>1. h \in Seq(Byte) /\ Len(h) = 8
    BY MakeHeaderIsBytes
  <2>2. \A p \in 1..8 : h[p] = HeadByte(t, len, pad, p)
    BY DEF MakeHeader, HeaderLen
  <2> QED BY <2>1, <2>2
<1>2. tail \in Seq(Byte) /\ Len(tail) = pad /\ \A k \in 1..pad : tail[k] = Pad
  <2>1. Pad \in Byte
    BY DEF Byte
  <2>2. \A k \in 1..pad : tail[k] = Pad
    BY DEF Times
  <2> QED BY <2>1, <2>2, TimesIsBytes
<1> HIDE DEF h, tail
<1>3. /\ a \in Seq(Byte) /\ Len(a) = 8 + len
      /\ \A p \in 1..8 : a[p] = h[p]
      /\ \A k \in 1..len : a[8 + k] = c[k]
  <2>1. /\ a \in Seq(Byte) /\ Len(a) = Len(h) + Len(c)
        /\ \A i \in 1..Len(h) : a[i] = h[i]
        /\ \A i \in 1..Len(c) : a[Len(h) + i] = c[i]
    BY <1>1, BehindBytes, Zenon
  <2> HIDE DEF a
  <2> QED BY <1>1, <2>1
<1> HIDE DEF a
<1>4. /\ r \in Seq(Byte) /\ Len(r) = 8 + len + pad
      /\ \A i \in 1..8 + len : r[i] = a[i]
      /\ \A k \in 1..pad : r[8 + len + k] = Pad
  <2>1. /\ r \in Seq(Byte) /\ Len(r) = Len(a) + Len(tail)
        /\ \A i \in 1..Len(a) : r[i] = a[i]
        /\ \A i \in 1..Len(tail) : r[Len(a) + i] = tail[i]
    BY <1>2, <1>3, BehindBytes, Zenon
  <2> HIDE DEF r
  <2> QED BY <1>2, <1>3, <2>1
<1>5. r = Rec(t, len, pad, c)
  BY DEF Rec, r, a, h, tail
<1> HIDE DEF r
<1>6. /\ \A p \in 1..8 : r[p] = HeadByte(t, len, pad, p)
      /\ \A k \in 1..len : r[8 + k] = c[k]
  <2>1. \A p \in 1..8 : p \in 1..8 + len
    OBVIOUS
  <2>2. \A k \in 1..len : 8 + k \in 1..8 + len
    OBVIOUS
  <2> QED BY <1>1, <1>3, <1>4, <2>1, <2>2
<1>7. IsRecord(r, t, len, pad, c)
  BY ONLY <1>4, <1>6 DEF IsRecord
<1> QED BY ONLY <1>5, <1>7

\* Where a record has bytes of T: in its header or in its content.
LEMMA RecordPlaces ==
    ASSUME NEW t \in Writers \cup {"END", "ANSWER"}, NEW len \in Nat, NEW pad \in Nat,
           NEW c \in Seq(Byte), Len(c) = len, NEW T, Pad \notin T,
           NEW p \in Places(Rec(t, len, pad, c), T)
    PROVE  \/ p \in 1..8 /\ HeadByte(t, len, pad, p) \in T
           \/ p - 8 \in 1..len /\ c[p - 8] \in T
<1> DEFINE r == Rec(t, len, pad, c)
<1>1. /\ r \in Seq(Byte) /\ Len(r) = 8 + len + pad
      /\ \A q \in 1..8 : r[q] = HeadByte(t, len, pad, q)
      /\ \A k \in 1..len : r[8 + k] = c[k]
      /\ \A k \in 1..pad : r[8 + len + k] = Pad
  <2>1. t \in Writers \cup {"END", "ANSWER"} /\ len \in Nat /\ pad \in Nat /\ c \in Seq(Byte) /\ Len(c) = len
    OBVIOUS
  <2>2. IsRecord(r, t, len, pad, c)
    BY ONLY <2>1, RecordBytes
  <2> QED BY ONLY <2>2 DEF IsRecord
<1>2. p \in DOMAIN r /\ r[p] \in T
  BY DEF Places
<1> HIDE DEF r
<1>3. p \in 1..8 + len + pad
  BY <1>1, <1>2
<1>4. CASE p \in 1..8
  BY <1>4, <1>1, <1>2
<1>5. CASE p > 8 /\ p <= 8 + len
  <2>1. p - 8 \in 1..len /\ 8 + (p - 8) = p
    BY <1>3, <1>5
  <2> QED BY <2>1, <1>1, <1>2
<1>6. CASE p > 8 + len
  <2>1. p - (8 + len) \in 1..pad /\ 8 + len + (p - (8 + len)) = p
    BY <1>3, <1>6
  <2>2. r[p] = Pad
    BY <2>1, <1>1
  <2> QED BY <2>2, <1>2
<1> QED BY <1>3, <1>4, <1>5, <1>6

\* A record is one.
LEMMA RecordWellFormed ==
    ASSUME NEW t \in Writers \cup {"END", "ANSWER"}, NEW len \in Nat, NEW pad \in Nat,
           NEW c \in Seq(Byte), Len(c) = len,
           \A k \in 1..len : HoldsContent(c[k], t) /\ ~IsHead(c[k])
    PROVE  WellFormed(Rec(t, len, pad, c))
<1> DEFINE r == Rec(t, len, pad, c)
<1>1. /\ r \in Seq(Byte) /\ Len(r) = 8 + len + pad
      /\ \A p \in 1..8 : r[p] = HeadByte(t, len, pad, p)
      /\ \A k \in 1..len : r[8 + k] = c[k]
      /\ \A k \in 1..pad : r[8 + len + k] = Pad
  <2>1. IsRecord(r, t, len, pad, c)
    BY RecordBytes
  <2> QED BY ONLY <2>1 DEF IsRecord
<1>2. ASSUME NEW p \in Starts(r) PROVE p = 1
  <2>1. p \in Places(r, BeginByte)
    BY <1>1, StartsArePlaces
  <2>2. Pad \notin BeginByte
    BY DEF Pad, BeginByte, IsHead
  <2>3. \/ p \in 1..8 /\ HeadByte(t, len, pad, p) \in BeginByte
        \/ p - 8 \in 1..len /\ c[p - 8] \in BeginByte
    BY <2>1, <2>2, RecordPlaces
  <2>4. ~(p - 8 \in 1..len /\ c[p - 8] \in BeginByte)
    BY DEF BeginByte
  <2> QED BY <2>3, <2>4 DEF BeginByte, HeadByte
<1> HIDE DEF r
<1>3. r[1] = HeadByte(t, len, pad, 1) /\ 1 \in DOMAIN r
  BY <1>1
<1>4. /\ IsHead(r[1]) /\ r[1][2] = t /\ r[1][3] = len /\ r[1][4] = pad /\ r[1][5] = 1
  BY <1>3 DEF HeadByte, IsHead
<1>5. 1 \in Starts(r)
  BY <1>3, <1>4 DEF Starts
<1>6. Length(r, 1) = 8 + len + pad /\ 1 + Length(r, 1) = Len(r) + 1
      /\ 1 + Length(r, 1) - 1 <= Len(r)
  BY <1>1, <1>4 DEF Length, HeaderLen
<1>7. SubSeq(r, 1, 1 + HeaderLen - 1) = MakeHeader(t, len, pad)
  <2>1. 1 + HeaderLen - 1 = 8 /\ 8 <= Len(r) /\ 8 + 1 - 1 = 8
    BY <1>1 DEF HeaderLen
  <2> DEFINE x == SubSeq(r, 1, 8)
             y == MakeHeader(t, len, pad)
  <2>2. x \in Seq(Byte) /\ Len(x) = 8 /\ \A k \in 1..8 : x[k] = r[k]
    <3>1. /\ x \in Seq(Byte) /\ Len(x) = 8 + 1 - 1
          /\ \A k \in 1..(8 + 1 - 1) : x[k] = r[1 + k - 1]
      BY <1>1, <2>1, PartOf
    <3> HIDE DEF x
    <3> QED BY <3>1
  <2>3. y \in Seq(Byte) /\ Len(y) = 8
    BY MakeHeaderIsBytes
  <2>4. \A k \in 1..8 : y[k] = HeadByte(t, len, pad, k)
    BY DEF MakeHeader, HeaderLen
  <2> HIDE DEF x, y
  <2>5. x = y
    <3>1. \A k \in 1..Len(x) : x[k] = y[k]
      BY <1>1, <2>2, <2>4
    <3> QED BY <2>2, <2>3, <3>1, SeqEqual
  <2> QED BY <2>1, <2>5 DEF x, y
<1>8. \A k \in 0..len-1 : HoldsContent(r[1 + HeaderLen + k], t)
  <2> SUFFICES ASSUME NEW k \in 0..len-1 PROVE HoldsContent(r[1 + HeaderLen + k], t)
    OBVIOUS
  <2>1. k + 1 \in 1..len /\ 1 + HeaderLen + k = 8 + (k + 1)
    BY DEF HeaderLen
  <2>2. r[8 + (k + 1)] = c[k + 1]
    BY <1>1, <2>1
  <2> QED BY <2>1, <2>2
<1>9. \A k \in 0..pad-1 : r[1 + HeaderLen + len + k] = Pad
  <2> SUFFICES ASSUME NEW k \in 0..pad-1 PROVE r[1 + HeaderLen + len + k] = Pad
    OBVIOUS
  <2>1. k + 1 \in 1..pad /\ 1 + HeaderLen + len + k = 8 + len + (k + 1)
    BY DEF HeaderLen
  <2>2. r[8 + len + (k + 1)] = Pad
    BY <1>1, <2>1
  <2> QED BY <2>1, <2>2
<1>10. RecordAt(r, 1)
  BY <1>4, <1>6, <1>7, <1>8, <1>9, Zenon DEF RecordAt
<1> QED BY <1>2, <1>5, <1>10 DEF WellFormed, r

-----------------------------------------------------------------------------
(* What the kinds of bytes are not.                                        *)

LEMMA OtherBytes ==
    /\ \A w : Pad \notin EofBytes(w) \cup EndBytes \cup DataBytes(w)
    /\ \A w : Room \notin EofBytes(w) \cup EndBytes \cup DataBytes(w)
    /\ \A w : <<"answer">> \notin EofBytes(w) \cup EndBytes \cup DataBytes(w)
    /\ \A w, k : Body(k) \notin EofBytes(w) \cup DataBytes(w)
    /\ \A k : Body(k) \in EndBytes => k = 8
    /\ Body(8) \in EndBytes
    /\ \A w, v : \A cell \in DataBytes(w) :
          cell \notin EofBytes(v) /\ cell \notin EndBytes /\ (cell \in DataBytes(v) => v = w)
    /\ \A t, len, pad, k : HeadByte(t, len, pad, k) \notin EndBytes
    /\ \A w, t, len, pad, k : HeadByte(t, len, pad, k) \notin DataBytes(w)
    /\ \A w, t, len, pad, k : HeadByte(t, len, pad, k) \in EofBytes(w) => t = w /\ len = 0 /\ k = 8
    /\ \A w : HeadByte(w, 0, 0, 8) \in EofBytes(w)
<1>1. /\ \A w : Pad \notin EofBytes(w) \cup EndBytes \cup DataBytes(w)
      /\ \A w : Room \notin EofBytes(w) \cup EndBytes \cup DataBytes(w)
      /\ \A w : <<"answer">> \notin EofBytes(w) \cup EndBytes \cup DataBytes(w)
  BY DEF Pad, Room, EofBytes, EndBytes, DataBytes, Body, EndBodyLen
<1>2. /\ \A w, k : Body(k) \notin EofBytes(w) \cup DataBytes(w)
      /\ \A k : Body(k) \in EndBytes => k = 8
      /\ Body(8) \in EndBytes
  BY DEF EofBytes, EndBytes, DataBytes, Body, EndBodyLen
<1>3. \A w, v : \A cell \in DataBytes(w) :
          cell \notin EofBytes(v) /\ cell \notin EndBytes /\ (cell \in DataBytes(v) => v = w)
  BY DEF EofBytes, EndBytes, DataBytes, Body, EndBodyLen
<1>4. /\ \A t, len, pad, k : HeadByte(t, len, pad, k) \notin EndBytes
      /\ \A w, t, len, pad, k : HeadByte(t, len, pad, k) \notin DataBytes(w)
  BY DEF HeadByte, EndBytes, DataBytes, Body, EndBodyLen
<1>5. \A w, t, len, pad, k : HeadByte(t, len, pad, k) \in EofBytes(w) => t = w /\ len = 0 /\ k = 8
  BY DEF HeadByte, EofBytes, HeaderLen
<1>6. \A w : HeadByte(w, 0, 0, 8) \in EofBytes(w)
  BY DEF HeadByte, EofBytes, HeaderLen
<1> QED BY <1>1, <1>2, <1>3, <1>4, <1>5, <1>6

-----------------------------------------------------------------------------
(* The records that the writers send.                                      *)

\* Two orderly sequences, one behind the other, where nothing ends twice or goes
\* on after its end.
LEMMA OrderlyBehind ==
    ASSUME NEW s \in Seq(Byte), NEW t \in Seq(Byte), Orderly(s), Orderly(t),
           ~(Has(s, EndBytes) /\ Has(t, EndBytes)),
           \A w \in Writers : ~(Has(s, EofBytes(w)) /\ Has(t, EofBytes(w))),
           \A w \in Writers : ~(Has(s, EofBytes(w)) /\ Has(t, DataBytes(w)))
    PROVE  Orderly(s \o t)
<1> DEFINE u == s \o t
<1>1. WellFormed(u)
  BY WellFormedBehind DEF Orderly
<1>2. ASSUME NEW T, AtMostOne(s, T), AtMostOne(t, T), ~(Has(s, T) /\ Has(t, T))
      PROVE  AtMostOne(u, T)
  <2> SUFFICES ASSUME NEW p \in Places(u, T), NEW q \in Places(u, T) PROVE p = q
    BY DEF AtMostOne
  <2>0. /\ p \in Places(s, T) \/ (p - Len(s) \in Places(t, T) /\ p > Len(s))
        /\ q \in Places(s, T) \/ (q - Len(s) \in Places(t, T) /\ q > Len(s))
        /\ p \in DOMAIN u /\ q \in DOMAIN u
    BY PlacesBehind DEF Places
  <2>a. p \in Nat /\ q \in Nat /\ Len(s) \in Nat
    <3>1. u \in Seq(Byte) /\ DOMAIN u = 1..Len(u) /\ Len(s) \in Nat
      BY ConcatProperties, LenProperties
    <3> HIDE DEF u
    <3> QED BY <2>0, <3>1
  <2> HIDE DEF u
  <2>1. CASE p \in Places(s, T) /\ q \in Places(s, T)
    BY <1>2, <2>1 DEF AtMostOne
  <2>2. CASE p - Len(s) \in Places(t, T) /\ q - Len(s) \in Places(t, T)
    <3>1. p - Len(s) = q - Len(s)
      BY <1>2, <2>2 DEF AtMostOne
    <3> QED BY <3>1, <2>a
  <2> QED BY <1>2, <2>0, <2>1, <2>2 DEF Has
<1>3. AtMostOne(u, EndBytes)
  BY <1>2 DEF Orderly
<1>4. ASSUME NEW w \in Writers
      PROVE  /\ AtMostOne(u, EofBytes(w))
             /\ \A p \in Places(u, EofBytes(w)), q \in Places(u, DataBytes(w)) : q < p
  <2>1. AtMostOne(u, EofBytes(w))
    BY <1>2 DEF Orderly
  <2> SUFFICES ASSUME NEW p \in Places(u, EofBytes(w)), NEW q \in Places(u, DataBytes(w))
               PROVE  q < p
    BY <2>1
  <2>2. /\ p \in Places(s, EofBytes(w)) \/ (p - Len(s) \in Places(t, EofBytes(w)) /\ p > Len(s))
        /\ q \in Places(s, DataBytes(w)) \/ (q - Len(s) \in Places(t, DataBytes(w)) /\ q > Len(s))
        /\ p \in DOMAIN u /\ q \in DOMAIN u
    BY PlacesBehind DEF Places
  <2>3. /\ p \in Nat /\ q \in Nat /\ Len(s) \in Nat
        /\ q \in Places(s, DataBytes(w)) => q <= Len(s)
    <3>1. u \in Seq(Byte) /\ DOMAIN u = 1..Len(u) /\ Len(s) \in Nat /\ DOMAIN s = 1..Len(s)
      BY ConcatProperties, LenProperties
    <3> HIDE DEF u
    <3> QED BY <2>2, <3>1 DEF Places
  <2> HIDE DEF u
  <2>4. CASE p \in Places(s, EofBytes(w)) /\ q \in Places(s, DataBytes(w))
    BY <2>4 DEF Orderly
  <2>5. CASE p - Len(s) \in Places(t, EofBytes(w)) /\ q - Len(s) \in Places(t, DataBytes(w))
    <3>1. q - Len(s) < p - Len(s)
      BY <2>5 DEF Orderly
    <3> QED BY <3>1, <2>3
  <2>6. CASE p \in Places(s, EofBytes(w)) /\ q - Len(s) \in Places(t, DataBytes(w))
    BY <2>6 DEF Has
  <2>7. CASE p > Len(s) /\ q \in Places(s, DataBytes(w))
    BY <2>7, <2>3
  <2> QED BY <2>2, <2>4, <2>5, <2>6, <2>7
<1> QED BY <1>1, <1>3, <1>4 DEF Orderly

\* Whole records without an end of any kind.
LEMMA OrderlyContent ==
    ASSUME NEW s \in Seq(Byte), WellFormed(s), ~Has(s, EndBytes),
           \A w \in Writers : ~Has(s, EofBytes(w))
    PROVE  Orderly(s)
BY DEF Orderly, Has, AtMostOne

\* What the writers have of the data of w, in sequences of bytes.
LEMMA DataBehind ==
    \A s, t \in Seq(Byte), w \in Writers :
        DataOf(s \o t, w) = DataOf(s, w) \o DataOf(t, w) /\ DataOf(s, w) \in Seq(Byte)
<1> SUFFICES ASSUME NEW s \in Seq(Byte), NEW t \in Seq(Byte), NEW w \in Writers
             PROVE  DataOf(s \o t, w) = DataOf(s, w) \o DataOf(t, w) /\ DataOf(s, w) \in Seq(Byte)
  OBVIOUS
<1> QED BY SelectedConcat, SelectedIsSeq DEF DataOf

\* A record of content of w.
LEMMA DataRecord ==
    ASSUME NEW w \in Writers, NEW len \in Nat, len > 0, NEW pad \in Nat, NEW c \in Seq(Byte),
           Len(c) = len, \A k \in 1..len : c[k] \in DataBytes(w)
    PROVE  /\ Rec(w, len, pad, c) \in Seq(Byte) /\ Orderly(Rec(w, len, pad, c))
           /\ Rec(w, len, pad, c) # <<>>
           /\ ~Has(Rec(w, len, pad, c), EndBytes)
           /\ \A v \in Writers : ~Has(Rec(w, len, pad, c), EofBytes(v))
           /\ \A v \in Writers \ {w} : ~Has(Rec(w, len, pad, c), DataBytes(v))
           /\ DataOf(Rec(w, len, pad, c), w) = c
<1> DEFINE r == Rec(w, len, pad, c)
           h == MakeHeader(w, len, pad)
           tail == Times(pad, Pad)
<1>0. w \in Writers \cup {"END", "ANSWER"}
  OBVIOUS
<1>1. r \in Seq(Byte) /\ Len(r) = 8 + len + pad
  <2>1. IsRecord(r, w, len, pad, c)
    BY <1>0, RecordBytes
  <2> QED BY ONLY <2>1 DEF IsRecord
<1>2. \A k \in 1..len : HoldsContent(c[k], w) /\ ~IsHead(c[k])
  BY DEF HoldsContent, IsHead, DataBytes, Writers
<1>3. WellFormed(r)
  BY <1>0, <1>2, RecordWellFormed
<1>4. ASSUME NEW T, Pad \notin T, \A p \in 1..8 : HeadByte(w, len, pad, p) \notin T,
             \A k \in 1..len : c[k] \notin T
      PROVE  ~Has(r, T)
  BY <1>0, <1>4, RecordPlaces DEF Has
<1>5. ~Has(r, EndBytes)
  BY <1>4, OtherBytes
<1>6. \A v \in Writers : ~Has(r, EofBytes(v))
  <2> SUFFICES ASSUME NEW v \in Writers PROVE ~Has(r, EofBytes(v))
    OBVIOUS
  <2>1. \A p \in 1..8 : HeadByte(w, len, pad, p) \notin EofBytes(v)
    BY OtherBytes
  <2>2. \A k \in 1..len : c[k] \notin EofBytes(v)
    BY OtherBytes
  <2>3. Pad \notin EofBytes(v)
    BY OtherBytes
  <2> QED BY <1>4, <2>1, <2>2, <2>3
<1>7. \A v \in Writers \ {w} : ~Has(r, DataBytes(v))
  <2> SUFFICES ASSUME NEW v \in Writers \ {w} PROVE ~Has(r, DataBytes(v))
    OBVIOUS
  <2>1. \A p \in 1..8 : HeadByte(w, len, pad, p) \notin DataBytes(v)
    BY OtherBytes
  <2>2. \A k \in 1..len : c[k] \notin DataBytes(v)
    BY OtherBytes
  <2>3. Pad \notin DataBytes(v)
    BY OtherBytes
  <2> QED BY <1>4, <2>1, <2>2, <2>3
<1>8. DataOf(r, w) = c
  <2>1. h \in Seq(Byte) /\ Len(h) = 8 /\ \A p \in 1..8 : h[p] = HeadByte(w, len, pad, p)
    BY <1>0, MakeHeaderIsBytes DEF MakeHeader, HeaderLen
  <2>2. tail \in Seq(Byte) /\ \A k \in DOMAIN tail : tail[k] = Pad
    <3>1. Pad \in Byte
      BY DEF Byte
    <3> QED BY <3>1, TimesIsBytes DEF Times
  <2> HIDE DEF h, tail
  <2>3. Selected(h, DataBytes(w)) = <<>>
    <3>1. \A i \in DOMAIN h : h[i] \notin DataBytes(w)
      <4>1. DOMAIN h = 1..8
        BY <2>1
      <4> QED BY <4>1, <2>1, OtherBytes
    <3> QED BY <2>1, <3>1, SelectedNone
  <2>4. Selected(tail, DataBytes(w)) = <<>>
    <3>1. \A i \in DOMAIN tail : tail[i] \notin DataBytes(w)
      BY <2>2, OtherBytes
    <3> QED BY <2>2, <3>1, SelectedNone
  <2>5. Selected(c, DataBytes(w)) = c
    <3>1. DOMAIN c = 1..len
      OBVIOUS
    <3> QED BY <3>1, SelectedAll
  <2>6. h \o c \in Seq(Byte)
    BY <2>1, ConcatIsBytes
  <2>7. DataOf((h \o c) \o tail, w) = (<<>> \o c) \o <<>>
    <3>1. DataOf(h \o c, w) = DataOf(h, w) \o DataOf(c, w)
      BY <2>1, DataBehind, Zenon
    <3>2. DataOf((h \o c) \o tail, w) = DataOf(h \o c, w) \o DataOf(tail, w)
      BY <2>2, <2>6, DataBehind, Zenon
    <3> QED BY <3>1, <3>2, <2>3, <2>4, <2>5 DEF DataOf
  <2>8. (<<>> \o c) \o <<>> = c
    OBVIOUS
  <2> QED BY <2>7, <2>8 DEF Rec, h, tail
<1>9. Orderly(r)
  BY <1>1, <1>3, <1>5, <1>6, OrderlyContent
<1>10. r # <<>>
  <2> HIDE DEF r
  <2> QED BY <1>1
<1> QED BY <1>1, <1>5, <1>6, <1>7, <1>8, <1>9, <1>10

\* A header without content: the end of the stream of w.
LEMMA EofHeader ==
    ASSUME NEW w \in Writers
    PROVE  /\ MakeHeader(w, 0, 0) \in Seq(Byte) /\ Orderly(MakeHeader(w, 0, 0))
           /\ ~Has(MakeHeader(w, 0, 0), EndBytes)
           /\ \A v \in Writers : Has(MakeHeader(w, 0, 0), EofBytes(v)) <=> v = w
           /\ \A v \in Writers : ~Has(MakeHeader(w, 0, 0), DataBytes(v))
<1> DEFINE h == MakeHeader(w, 0, 0)
<1>0. w \in Writers \cup {"END", "ANSWER"}
  OBVIOUS
<1>1. h \in Seq(Byte) /\ Len(h) = 8 /\ \A p \in 1..8 : h[p] = HeadByte(w, 0, 0, p)
  BY <1>0, MakeHeaderIsBytes DEF MakeHeader, HeaderLen
<1>2. h = Rec(w, 0, 0, <<>>)
  <2>1. Times(0, Pad) = <<>>
    BY DEF Times
  <2> HIDE DEF h
  <2>2. (h \o <<>>) \o <<>> = h
    BY <1>1
  <2> QED BY <2>1, <2>2 DEF Rec, h
<1>3. WellFormed(h)
  <2>1. <<>> \in Seq(Byte) /\ Len(<<>>) = 0
    OBVIOUS
  <2>2. WellFormed(Rec(w, 0, 0, <<>>))
    <3>1. \A k \in 1..0 : HoldsContent(<<>>[k], w) /\ ~IsHead(<<>>[k])
      OBVIOUS
    <3> QED BY <1>0, <2>1, <3>1, RecordWellFormed
  <2> QED BY <1>2, <2>2
<1> HIDE DEF h
<1>4. DOMAIN h = 1..8
  BY <1>1
<1>5. ~Has(h, EndBytes) /\ \A v \in Writers : ~Has(h, DataBytes(v))
  BY <1>1, <1>4, OtherBytes DEF Has, Places
<1>6. \A v \in Writers : \A p \in Places(h, EofBytes(v)) : v = w /\ p = 8
  <2> SUFFICES ASSUME NEW v \in Writers, NEW p \in Places(h, EofBytes(v)) PROVE v = w /\ p = 8
    OBVIOUS
  <2>1. p \in 1..8 /\ HeadByte(w, 0, 0, p) \in EofBytes(v)
    BY <1>1, <1>4 DEF Places
  <2> QED BY <2>1, OtherBytes
<1>7. Has(h, EofBytes(w))
  <2>1. 8 \in DOMAIN h /\ h[8] \in EofBytes(w)
    BY <1>1, <1>4, OtherBytes
  <2> QED BY <2>1 DEF Has, Places
<1>8. Orderly(h)
  BY <1>3, <1>5, <1>6 DEF Orderly, Has, AtMostOne
<1>9. \A v \in Writers : Has(h, EofBytes(v)) <=> v = w
  BY <1>6, <1>7 DEF Has
<1> QED BY <1>1, <1>5, <1>8, <1>9 DEF h

\* FCGI_END_REQUEST.
LEMMA EndRecord ==
    /\ EndRequest \in Seq(Byte) /\ Orderly(EndRequest) /\ Has(EndRequest, EndBytes)
    /\ Len(EndRequest) = 16 /\ EndRequest[16] = Body(EndBodyLen)
    /\ \A v \in Writers : ~Has(EndRequest, EofBytes(v)) /\ ~Has(EndRequest, DataBytes(v))
<1> DEFINE h == MakeHeader("END", 8, 0)
           c == [k \in 1..8 |-> Body(k)]
           r == Rec("END", 8, 0, c)
<1>0. "END" \in Writers \cup {"END", "ANSWER"}
  OBVIOUS
<1>1. c \in Seq(Byte) /\ Len(c) = 8 /\ \A k \in 1..8 : c[k] = Body(k)
  <2>1. \A k \in 1..8 : Body(k) \in Byte
    BY DEF Byte, EndBodyLen
  <2> QED BY <2>1
<1>2. r = EndRequest
  <2>1. Times(0, Pad) = <<>>
    BY DEF Times
  <2>2. h \in Seq(Byte)
    BY <1>0, MakeHeaderIsBytes
  <2>3. EndRequest = h \o c
    BY DEF EndRequest, EndBodyLen
  <2> HIDE DEF h, c
  <2>4. h \o c \in Seq(Byte)
    BY <1>1, <2>2, ConcatIsBytes
  <2>5. (h \o c) \o <<>> = h \o c
    BY <2>4
  <2> QED BY <2>1, <2>3, <2>5 DEF Rec, h
<1>3. /\ r \in Seq(Byte) /\ Len(r) = 8 + 8 + 0
      /\ \A k \in 1..8 : r[8 + k] = c[k]
  <2>1. c \in Seq(Byte) /\ Len(c) = 8 /\ 8 \in Nat /\ 0 \in Nat
    BY <1>1
  <2> HIDE DEF c
  <2>2. IsRecord(r, "END", 8, 0, c)
    BY ONLY <1>0, <2>1, RecordBytes
  <2> QED BY ONLY <2>2 DEF IsRecord
<1>4. \A k \in 1..8 : HoldsContent(c[k], "END") /\ ~IsHead(c[k])
  <2>1. "END" \notin Writers
    BY DEF Writers
  <2> QED BY <1>1, <2>1 DEF HoldsContent, IsHead, Body
<1>5. WellFormed(r)
  BY <1>0, <1>1, <1>4, RecordWellFormed
<1>6. ASSUME NEW T, Pad \notin T, \A p \in 1..8 : HeadByte("END", 8, 0, p) \notin T,
             NEW p \in Places(r, T)
      PROVE  p - 8 \in 1..8 /\ Body(p - 8) \in T
  <2>1. \/ p \in 1..8 /\ HeadByte("END", 8, 0, p) \in T
        \/ p - 8 \in 1..8 /\ c[p - 8] \in T
    BY <1>0, <1>1, <1>6, RecordPlaces
  <2> HIDE DEF c
  <2> QED BY <1>1, <1>6, <2>1
<1> HIDE DEF r, c
<1>7. \A v \in Writers : ~Has(r, EofBytes(v)) /\ ~Has(r, DataBytes(v))
  <2> SUFFICES ASSUME NEW v \in Writers PROVE ~Has(r, EofBytes(v)) /\ ~Has(r, DataBytes(v))
    OBVIOUS
  <2>1. \A p \in 1..8 : HeadByte("END", 8, 0, p) \notin EofBytes(v) /\ HeadByte("END", 8, 0, p) \notin DataBytes(v)
    BY OtherBytes DEF Writers
  <2>2. Pad \notin EofBytes(v) /\ Pad \notin DataBytes(v)
    BY OtherBytes
  <2>3. \A k : Body(k) \notin EofBytes(v) /\ Body(k) \notin DataBytes(v)
    BY OtherBytes
  <2> QED BY <1>6, <2>1, <2>2, <2>3 DEF Has
<1>8. \A p \in Places(r, EndBytes) : p = 16
  <2> SUFFICES ASSUME NEW p \in Places(r, EndBytes) PROVE p = 16
    OBVIOUS
  <2>1. p - 8 \in 1..8 /\ Body(p - 8) \in EndBytes
    BY <1>6, OtherBytes
  <2>2. p - 8 = 8
    BY <2>1, OtherBytes
  <2>3. p \in 1..16
    BY <1>3 DEF Places
  <2> QED BY <2>2, <2>3
<1>9. r[16] = Body(8) /\ 16 \in DOMAIN r /\ Len(r) = 16
  <2>1. r[8 + 8] = c[8]
    BY <1>3
  <2> QED BY <1>1, <1>3, <2>1
<1>10. Has(r, EndBytes)
  BY <1>9, OtherBytes DEF Has, Places
<1>11. Orderly(r)
  <2>1. AtMostOne(r, EndBytes)
    BY <1>8 DEF AtMostOne
  <2>2. \A w \in Writers : Places(r, EofBytes(w)) = {}
    BY <1>7 DEF Has
  <2> QED BY <1>5, <2>1, <2>2 DEF Orderly, AtMostOne
<1> QED BY <1>2, <1>3, <1>7, <1>9, <1>10, <1>11 DEF EndBodyLen

\* The answer of the reader.
LEMMA AnswerRecord ==
    ASSUME NEW s \in Seq(Byte)
    PROVE  \E r \in Seq(Byte) :
              /\ s \o MakeHeader("ANSWER", 8, 0) \o Times(8, <<"answer">>) = s \o r
              /\ Orderly(r) /\ ~Has(r, EndBytes)
              /\ \A v \in Writers : ~Has(r, EofBytes(v)) /\ ~Has(r, DataBytes(v))
<1> DEFINE h == MakeHeader("ANSWER", 8, 0)
           c == Times(8, <<"answer">>)
           r == Rec("ANSWER", 8, 0, c)
<1>0. "ANSWER" \in Writers \cup {"END", "ANSWER"}
  OBVIOUS
<1>1. c \in Seq(Byte) /\ Len(c) = 8 /\ \A k \in 1..8 : c[k] = <<"answer">>
  <2>1. <<"answer">> \in Byte
    BY DEF Byte
  <2>2. \A k \in 1..8 : c[k] = <<"answer">>
    BY DEF Times
  <2> QED BY <2>1, <2>2, TimesIsBytes
<1>2. h \in Seq(Byte)
  BY <1>0, MakeHeaderIsBytes
<1> HIDE DEF c
<1>3. r \in Seq(Byte)
  <2>1. Len(c) = 8 /\ 8 \in Nat /\ 0 \in Nat
    BY <1>1
  <2>2. IsRecord(r, "ANSWER", 8, 0, c)
    BY ONLY <1>0, <1>1, <2>1, RecordBytes
  <2> QED BY ONLY <2>2 DEF IsRecord
<1>4. \A k \in 1..8 : HoldsContent(c[k], "ANSWER") /\ ~IsHead(c[k])
  <2>1. "ANSWER" \notin Writers /\ "ANSWER" # "END"
    BY DEF Writers
  <2> QED BY <1>1, <2>1 DEF HoldsContent, IsHead
<1>5. WellFormed(r)
  BY <1>0, <1>1, <1>4, RecordWellFormed
<1>6. ASSUME NEW T, Pad \notin T, <<"answer">> \notin T,
             \A p \in 1..8 : HeadByte("ANSWER", 8, 0, p) \notin T
      PROVE  ~Has(r, T)
  <2> SUFFICES ASSUME NEW p \in Places(r, T) PROVE FALSE
    BY DEF Has
  <2>1. \/ p \in 1..8 /\ HeadByte("ANSWER", 8, 0, p) \in T
        \/ p - 8 \in 1..8 /\ c[p - 8] \in T
    BY <1>0, <1>1, <1>6, RecordPlaces
  <2>2. \A k \in 1..8 : c[k] \notin T
    BY <1>1, <1>6
  <2> QED BY <1>6, <2>1, <2>2
<1>7. ~Has(r, EndBytes)
  BY <1>6, OtherBytes
<1>8. \A v \in Writers : ~Has(r, EofBytes(v)) /\ ~Has(r, DataBytes(v))
  <2> SUFFICES ASSUME NEW v \in Writers PROVE ~Has(r, EofBytes(v)) /\ ~Has(r, DataBytes(v))
    OBVIOUS
  <2>1. \A p \in 1..8 : HeadByte("ANSWER", 8, 0, p) \notin EofBytes(v) /\ HeadByte("ANSWER", 8, 0, p) \notin DataBytes(v)
    BY OtherBytes DEF Writers
  <2>2. /\ Pad \notin EofBytes(v) /\ Pad \notin DataBytes(v)
        /\ <<"answer">> \notin EofBytes(v) /\ <<"answer">> \notin DataBytes(v)
    BY OtherBytes
  <2> QED BY <1>6, <2>1, <2>2
<1>9. (s \o h) \o c = s \o r
  <2>1. Times(0, Pad) = <<>>
    BY DEF Times
  <2> HIDE DEF h
  <2>2. \A x, y, z \in Seq(Byte) : (x \o y) \o z = x \o ((y \o z) \o <<>>)
    OBVIOUS
  <2>3. (s \o h) \o c = s \o ((h \o c) \o <<>>)
    BY <1>1, <1>2, <2>2
  <2> QED BY <2>1, <2>3 DEF Rec, h
<1>10. Orderly(r)
  BY <1>3, <1>5, <1>7, <1>8, OrderlyContent
<1> QED BY <1>3, <1>7, <1>8, <1>9, <1>10 DEF c

-----------------------------------------------------------------------------
(* Only bytes of w come into the buffer of w.                              *)

LEMMA PureBehind ==
    \A s, t \in Seq(Byte), w \in Writers : Pure(s, w) /\ Pure(t, w) => Pure(s \o t, w)
<1> SUFFICES ASSUME NEW s \in Seq(Byte), NEW t \in Seq(Byte), NEW w \in Writers,
                    Pure(s, w), Pure(t, w), NEW p \in DOMAIN (s \o t)
             PROVE  (s \o t)[p] \in BytesOf(w)
  BY DEF Pure
<1> DEFINE u == s \o t
<1>1. /\ Len(s) \in Nat /\ Len(t) \in Nat
      /\ DOMAIN s = 1..Len(s) /\ DOMAIN t = 1..Len(t) /\ DOMAIN u = 1..Len(s) + Len(t)
      /\ \A i \in 1..Len(s) : u[i] = s[i]
      /\ \A i \in 1..Len(t) : u[Len(s) + i] = t[i]
  BY Behind
<1> HIDE DEF u
<1>2. CASE p <= Len(s)
  BY <1>1, <1>2 DEF Pure, u
<1>3. CASE p > Len(s)
  <2>1. p - Len(s) \in 1..Len(t) /\ Len(s) + (p - Len(s)) = p
    BY <1>1, <1>3 DEF u
  <2>2. u[Len(s) + (p - Len(s))] = t[p - Len(s)]
    BY <2>1, <1>1
  <2> QED BY <1>1, <2>1, <2>2 DEF Pure, u
<1>4. p \in Nat
  BY <1>1 DEF u
<1> QED BY <1>1, <1>2, <1>3, <1>4

LEMMA PurePart ==
    ASSUME NEW s \in Seq(Byte), NEW w \in Writers, Pure(s, w),
           NEW i \in Nat, NEW j \in Nat, 1 <= i, i <= j + 1, j <= Len(s)
    PROVE  Pure(SubSeq(s, i, j), w)
BY PartOf DEF Pure

LEMMA PureRecords ==
    ASSUME NEW w \in Writers
    PROVE  /\ \A len, pad \in Nat : Pure(MakeHeader(w, len, pad), w)
           /\ Pure(EndRequest, w) /\ Pure(<<>>, w)
           /\ \A n \in Nat : Pure(Times(n, Pad), w) /\ Pure(Times(n, Room), w)
<1>1. ASSUME NEW t \in {w, "END"}, NEW len \in Nat, NEW pad \in Nat
      PROVE  Pure(MakeHeader(t, len, pad), w)
  <2>1. \A k \in 1..8 : HeadByte(t, len, pad, k) \in BytesOf(w)
    BY DEF HeadByte, BytesOf, HeaderLen
  <2> QED BY <2>1 DEF Pure, MakeHeader, HeaderLen
<1>2. Pure([k \in 1..8 |-> Body(k)], w)
  BY DEF Pure, BytesOf, EndBodyLen
<1>3. Pure(EndRequest, w)
  <2> DEFINE h == MakeHeader("END", 8, 0)
             c == [k \in 1..8 |-> Body(k)]
  <2>1. h \in Seq(Byte) /\ c \in Seq(Byte)
    <3>1. h \in Seq(Byte)
      BY MakeHeaderIsBytes
    <3>2. \A k \in 1..8 : Body(k) \in Byte
      BY DEF Byte, EndBodyLen
    <3> QED BY <3>1, <3>2
  <2>2. Pure(h, w) /\ Pure(c, w)
    BY <1>1, <1>2
  <2> HIDE DEF h, c
  <2>3. Pure(h \o c, w)
    BY <2>1, <2>2, PureBehind
  <2> QED BY <2>3 DEF EndRequest, EndBodyLen, h, c
<1>4. \A n \in Nat : Pure(Times(n, Pad), w) /\ Pure(Times(n, Room), w)
  BY DEF Pure, Times, BytesOf
<1>5. Pure(<<>>, w)
  BY DEF Pure
<1> QED BY <1>1, <1>3, <1>4, <1>5

\* What the buffer of w or the string put into it never has.
LEMMA PureHas ==
    ASSUME NEW w \in Writers, NEW s \in Seq(Byte), Pure(s, w), NEW v \in Writers \ {w}
    PROVE  ~Has(s, DataBytes(v)) /\ ~Has(s, EofBytes(v))
<1>1. \A cell \in BytesOf(w) : cell \notin DataBytes(v) /\ cell \notin EofBytes(v)
  <2>1. \A cell \in DataBytes(w) : cell \notin DataBytes(v) /\ cell \notin EofBytes(v)
    BY OtherBytes
  <2>2. \A cell \in {Pad, Room} \cup {Body(k) : k \in 1..EndBodyLen} :
            cell \notin DataBytes(v) /\ cell \notin EofBytes(v)
    BY OtherBytes
  <2>3. \A cell \in {"head"} \X {w, "END"} \X Nat \X Nat \X (1..HeaderLen) :
            cell \notin DataBytes(v) /\ cell \notin EofBytes(v)
    BY DEF DataBytes, EofBytes, Writers
  <2> QED BY <2>1, <2>2, <2>3 DEF BytesOf
<1> QED BY <1>1 DEF Pure, Has, Places

\* The record that EmptyBuffProc makes is of bytes of w, and has no body of
\* FCGI_END_REQUEST but that of the buffer.
LEMMA SealedPure ==
    ASSUME NEW w \in Writers, NEW b \in Seq(Byte), Pure(b, w)
    PROVE  /\ Pure(Sealed(w, b), w)
           /\ ~Has(b, EndBytes) => ~Has(Sealed(w, b), EndBytes)
<1>1. CASE rawWrite[w]
  BY <1>1 DEF Sealed
<1>2. CASE ~rawWrite[w] /\ ~(ContentLen(b) > 0)
  <2>1. Sealed(w, b) = <<>>
    BY <1>2 DEF Sealed
  <2> QED BY <2>1 DEF Pure, Has, Places
<1>3. CASE ~rawWrite[w] /\ ContentLen(b) > 0
  <2> DEFINE c == ContentLen(b)
             h == MakeHeader(w, c, PadLen(b))
             body == SubSeq(b, 9, Len(b))
             tail == Times(PadLen(b), Pad)
  <2>1. c \in Nat /\ c = Len(b) - 8 /\ Len(b) \in Nat /\ 9 <= Len(b) + 1
    BY <1>3, LenProperties DEF ContentLen, HeaderLen
  <2>2. PadLen(b) \in Nat
    <3>1. AlignInt8(c) \in Nat /\ c <= AlignInt8(c)
      BY <2>1, AlignInt8Rounds
    <3>2. PadLen(b) = AlignInt8(c) - c
      BY DEF PadLen
    <3> HIDE DEF c
    <3> QED BY <2>1, <3>1, <3>2
  <2>3. Sealed(w, b) = (h \o body) \o tail
    BY <1>3 DEF Sealed, HeaderLen
  <2>4. h \in Seq(Byte) /\ Pure(h, w) /\ ~Has(h, EndBytes)
    <3>1. h \in Seq(Byte) /\ Pure(h, w)
      BY <2>1, <2>2, MakeHeaderIsBytes, PureRecords
    <3>2. ~Has(h, EndBytes)
      BY OtherBytes DEF Has, Places, MakeHeader
    <3> QED BY <3>1, <3>2
  <2>5. body \in Seq(Byte) /\ Pure(body, w) /\ (~Has(b, EndBytes) => ~Has(body, EndBytes))
    BY <2>1, PurePart, PartHas, PartOf
  <2>6. tail \in Seq(Byte) /\ Pure(tail, w) /\ ~Has(tail, EndBytes)
    <3>1. tail \in Seq(Byte) /\ Pure(tail, w)
      <4>1. Pad \in Byte
        BY DEF Byte
      <4> QED BY <2>2, <4>1, TimesIsBytes, PureRecords
    <3>2. ~Has(tail, EndBytes)
      BY OtherBytes DEF Has, Places, Times
    <3> QED BY <3>1, <3>2
  <2> HIDE DEF c, h, body, tail
  <2>7. h \o body \in Seq(Byte)
    BY <2>4, <2>5, ConcatIsBytes
  <2>8. Pure((h \o body) \o tail, w)
    BY <2>4, <2>5, <2>6, <2>7, PureBehind
  <2>9. ~Has(b, EndBytes) => ~Has((h \o body) \o tail, EndBytes)
    <3>1. ~Has(b, EndBytes) => ~Has(h \o body, EndBytes)
      BY <2>4, <2>5, HasBehind
    <3> QED BY <3>1, <2>6, <2>7, HasBehind
  <2> QED BY <2>3, <2>8, <2>9
<1> QED BY <1>1, <1>2, <1>3

-----------------------------------------------------------------------------
(* Strings, step by step.                                                  *)

\* write_it_all: a beginning of b is added to the connection, and the buffer is
\* empty or keeps b.
LEMMA WriteAllAdds ==
    ASSUME NEW w \in Writers, TypeOK, NEW b \in Seq(Byte), WriteAll(w, b)
    PROVE  /\ \E y \in Seq(Byte) : /\ wire' = wire \o y
                                   /\ Pure(b, w) => Pure(y, w)
                                   /\ ~Has(b, EndBytes) => ~Has(y, EndBytes)
           /\ buf' = [buf EXCEPT ![w] = Fresh(w)] \/ buf' = [buf EXCEPT ![w] = b]
           /\ \/ wire' = wire \o b /\ buf' = [buf EXCEPT ![w] = Fresh(w)] /\ UNCHANGED FCGI_errno
              \/ FCGI_errno' = [FCGI_errno EXCEPT ![w] = TRUE]
<1>1. CASE /\ wire' = wire \o b
           /\ buf' = [buf EXCEPT ![w] = Fresh(w)]
           /\ UNCHANGED FCGI_errno
  BY <1>1
<1>2. CASE /\ \E k \in CutAt : k < Len(b) /\ wire' = wire \o SubSeq(b, 1, k)
           /\ buf' = [buf EXCEPT ![w] = b]
           /\ FCGI_errno' = [FCGI_errno EXCEPT ![w] = TRUE]
  <2>1. PICK k \in CutAt : k < Len(b) /\ wire' = wire \o SubSeq(b, 1, k)
    BY <1>2
  <2>2. k \in Nat /\ k <= Len(b) /\ 1 <= k + 1 /\ 1 \in Nat /\ 1 <= 1
    BY <2>1, ModeAssumption, LenProperties
  <2> DEFINE y == SubSeq(b, 1, k)
  <2>3. y \in Seq(Byte) /\ (Pure(b, w) => Pure(y, w)) /\ (~Has(b, EndBytes) => ~Has(y, EndBytes))
    BY <2>2, SubSeqIsBytes, PurePart, PartHas
  <2> HIDE DEF y
  <2>4. wire' = wire \o y
    BY <2>1 DEF y
  <2> QED BY <1>2, <2>3, <2>4
<1> QED BY <1>1, <1>2 DEF WriteAll

LEMMA FreshPure ==
    ASSUME NEW w \in Writers
    PROVE  /\ Fresh(w) \in Seq(Byte) /\ Pure(Fresh(w), w) /\ ~Has(Fresh(w), EndBytes)
           /\ DataOf(Fresh(w), w) = <<>>
<1>1. CASE rawWrite[w]
  <2>1. Fresh(w) = <<>> /\ <<>> \in Seq(Byte)
    BY <1>1 DEF Fresh
  <2> QED BY <2>1, SelectedEmpty DEF DataOf, Pure, Has, Places
<1>2. CASE ~rawWrite[w]
  <2>1. Fresh(w) = Times(8, Room)
    BY <1>2 DEF Fresh, HeaderLen
  <2>2. Times(8, Room) \in Seq(Byte) /\ Pure(Times(8, Room), w)
    BY RoomIsBytes, PureRecords
  <2>3. \A p \in DOMAIN Times(8, Room) : Times(8, Room)[p] = Room
    BY DEF Times
  <2>4. ~Has(Times(8, Room), EndBytes)
    BY <2>3, OtherBytes DEF Has, Places
  <2>5. Selected(Times(8, Room), DataBytes(w)) = <<>>
    BY <2>2, <2>3, OtherBytes, SelectedNone
  <2> QED BY <2>1, <2>2, <2>4, <2>5 DEF DataOf
<1> QED BY <1>1, <1>2

\* What FCGX_PutStr puts into the buffer is a beginning of the string.
LEMMA FilledPure ==
    ASSUME NEW w \in Writers, Inv, Strings, busy = w
    PROVE  /\ Filled(w) \in Seq(Byte) /\ Pure(Filled(w), w)
           /\ ~Has(buf[w], EndBytes) /\ ~Has(todo, EndBytes) => ~Has(Filled(w), EndBytes)
           /\ Part(w) \in Nat /\ Part(w) <= Len(todo) /\ Len(todo) \in Nat
           /\ SubSeq(todo, 1, Part(w)) \in Seq(Byte)
           /\ SubSeq(todo, Part(w) + 1, Len(todo)) \in Seq(Byte)
           /\ Pure(SubSeq(todo, Part(w) + 1, Len(todo)), w)
<1>1. TypeOK /\ Buffers /\ buf[w] \in Seq(Byte) /\ todo \in Seq(Byte) /\ Len(todo) \in Nat
  BY LenProperties DEF Inv, TypeOK
<1>2. Filled(w) \in Seq(Byte) /\ Part(w) \in Nat /\ Part(w) <= Len(todo)
  BY <1>1, FilledFits
<1>3. Pure(buf[w], w) /\ Pure(todo, w)
  BY DEF Strings
<1> DEFINE x == SubSeq(todo, 1, Part(w))
           z == SubSeq(todo, Part(w) + 1, Len(todo))
<1>4. /\ x \in Seq(Byte) /\ Pure(x, w)
      /\ ~Has(todo, EndBytes) => ~Has(x, EndBytes)
  <2>1. 1 \in Nat /\ 1 <= 1 /\ 1 <= Part(w) + 1
    BY <1>2
  <2> QED BY <1>1, <1>2, <1>3, <2>1, SubSeqIsBytes, PurePart, PartHas
<1>5. z \in Seq(Byte) /\ Pure(z, w)
  <2>1. Part(w) + 1 \in Nat /\ 1 <= Part(w) + 1 /\ Part(w) + 1 <= Len(todo) + 1
    BY <1>1, <1>2
  <2> QED BY <1>1, <1>3, <2>1, SubSeqIsBytes, PurePart
<1>6. Filled(w) = buf[w] \o x
  BY DEF Filled
<1> HIDE DEF x, z
<1>7. Pure(buf[w] \o x, w) /\ (~Has(buf[w], EndBytes) /\ ~Has(x, EndBytes) => ~Has(buf[w] \o x, EndBytes))
  BY <1>1, <1>3, <1>4, PureBehind, HasBehind
<1> QED BY <1>1, <1>2, <1>4, <1>5, <1>6, <1>7 DEF x, z

LEMMA PutEndsStrings ==
    ASSUME NEW w \in Writers, Inv, Strings, PutLast(w) \/ PutFails(w)
    PROVE  Strings'
<1>1. /\ busy = w /\ stage \in {"put", "eof", "end"}
      /\ buf' = [buf EXCEPT ![w] = Filled(w)] /\ AfterPut(w)
  BY DEF PutLast, PutFails
<1>2. buf \in [Writers -> Seq(Byte)] /\ Filled(w) \in Seq(Byte) /\ Pure(Filled(w), w)
  BY <1>1, FilledPure DEF Inv, TypeOK
<1>3. \A v \in Writers : Pure(buf'[v], v)
  BY <1>1, <1>2 DEF Strings
<1>4. \A v \in Writers : busy' = v =>
          /\ Pure(todo', v) /\ (stage' = "put" => todo' = NextData(v, Len(todo))')
          /\ (stage' # "put" => ~Has(todo', DataBytes(v))) /\ (stage' = "last" => todo' = <<>>)
  <2>1. CASE stage = "put"
    BY <1>1, <2>1 DEF AfterPut, Writers
  <2>2. CASE stage = "eof"
    <3>1. busy' = w /\ stage' = "end" /\ (todo' = EndRequest \/ todo' = <<>>)
      BY <1>1, <2>2 DEF AfterPut
    <3>2. Pure(todo', w) /\ ~Has(todo', DataBytes(w))
      <4>1. Pure(EndRequest, w) /\ ~Has(EndRequest, DataBytes(w)) /\ Pure(<<>>, w)
        BY PureRecords, EndRecord
      <4>2. ~Has(<<>>, DataBytes(w))
        BY DEF Has, Places
      <4> QED BY <3>1, <4>1, <4>2, Zenon
    <3> QED BY <3>1, <3>2
  <2>3. CASE stage = "end"
    <3>1. busy' = w /\ stage' = "last" /\ todo' = <<>>
      BY <1>1, <2>3 DEF AfterPut
    <3>2. Pure(<<>>, w) /\ ~Has(<<>>, DataBytes(w))
      BY DEF Has, Places, Pure
    <3> QED BY <3>1, <3>2
  <2> QED BY <1>1, <2>1, <2>2, <2>3
<1> QED BY <1>3, <1>4, Zenon DEF Strings

LEMMA PutMoreStrings ==
    ASSUME NEW w \in Writers, Inv, Strings, PutMore(w)
    PROVE  Strings'
<1>1. /\ busy = w /\ stage \in {"put", "eof", "end"}
      /\ WriteAll(w, Sealed(w, Filled(w)))
      /\ Count(w, Part(w)) /\ todo' = SubSeq(todo, Part(w) + 1, Len(todo))
      /\ busy' = busy /\ stage' = stage
  BY DEF PutMore, EmptyBuff
<1>2. /\ buf \in [Writers -> Seq(Byte)] /\ Filled(w) \in Seq(Byte) /\ Pure(Filled(w), w)
      /\ todo \in Seq(Byte) /\ given \in [Writers -> Nat] /\ TypeOK /\ Buffers
  BY <1>1, FilledPure DEF Inv, TypeOK
<1>3. \A v \in Writers : Pure(buf'[v], v)
  <2>1. Pure(Sealed(w, Filled(w)), w)
    BY <1>2, SealedPure
  <2>2. Sealed(w, Filled(w)) \in Seq(Byte)
    <3>1. /\ Len(buf[w]) <= Len(Filled(w)) /\ Len(Filled(w)) <= stop[w]
      BY <1>2, FilledFits
    <3>2. /\ stop[w] \in Nat /\ bufLen[w] % 8 = 0 /\ rawWrite[w] \in BOOLEAN
          /\ ~rawWrite[w] => stop[w] = bufLen[w] /\ 8 <= Len(buf[w])
          /\ Len(buf[w]) \in Nat /\ Len(Filled(w)) \in Nat
      BY <1>2, LenProperties DEF TypeOK, Buffers
    <3>3. CASE rawWrite[w]
      BY <1>2, <3>3 DEF Sealed
    <3>4. CASE ~rawWrite[w]
      <4>1. stop[w] % 8 = 0 /\ 8 <= Len(Filled(w))
        BY <3>1, <3>2, <3>4
      <4> QED BY <1>2, <3>1, <3>2, <3>4, <4>1, SealedFits
    <3> QED BY <3>3, <3>4
  <2>3. buf' = [buf EXCEPT ![w] = Fresh(w)] \/ buf' = [buf EXCEPT ![w] = Sealed(w, Filled(w))]
    BY <1>1, <1>2, <2>2, WriteAllAdds
  <2>4. Pure(Fresh(w), w)
    BY FreshPure
  <2> QED BY <1>2, <2>1, <2>3, <2>4 DEF Strings
<1>4. Pure(todo', w)
  BY <1>1, FilledPure
<1>5. /\ Part(w) \in Nat /\ Part(w) <= Len(todo) /\ Len(todo) \in Nat
      /\ Part(w) + 1 \in Nat /\ 1 <= Part(w) + 1 /\ Part(w) + 1 <= Len(todo) + 1
      /\ Len(todo) + 1 - (Part(w) + 1) = Len(todo) - Part(w)
  BY <1>1, FilledPure
<1>6. CASE stage = "put"
  <2>1. todo = NextData(w, Len(todo)) /\ given' = [given EXCEPT ![w] = @ + Part(w)]
    BY <1>1, <1>6 DEF Strings, Count
  <2>2. /\ todo' \in Seq(Byte) /\ Len(todo') = Len(todo) - Part(w)
        /\ \A k \in 1..Len(todo) - Part(w) : todo'[k] = todo[Part(w) + 1 + k - 1]
    BY <1>1, <1>2, <1>5, PartOf
  <2>3. \A k \in 1..Len(todo) : todo[k] = Data(w, given[w] + k)
    BY <2>1 DEF NextData
  <2>4. given'[w] = given[w] + Part(w) /\ given[w] \in Nat
    BY <1>2, <2>1
  <2> DEFINE n == Len(todo) - Part(w)
             z == [k \in 1..n |-> Data(w, given'[w] + k)]
  <2>5. n \in Nat /\ Len(todo') = n
    BY <1>5, <2>2
  <2>6. \A k \in 1..n : todo'[k] = Data(w, given'[w] + k)
    <3> SUFFICES ASSUME NEW k \in 1..n PROVE todo'[k] = Data(w, given'[w] + k)
      OBVIOUS
    <3>1. Part(w) + 1 + k - 1 = Part(w) + k /\ Part(w) + k \in 1..Len(todo)
      BY <1>5
    <3>2. todo'[k] = Data(w, given[w] + (Part(w) + k))
      BY <2>2, <2>3, <3>1
    <3>3. given[w] + (Part(w) + k) = given'[w] + k
      BY <1>5, <2>4
    <3> QED BY <3>2, <3>3
  <2>7. todo' = z
    <3> HIDE DEF n
    <3> QED BY <2>2, <2>5, <2>6
  <2>8. todo' = NextData(w, Len(todo))'
    BY <2>5, <2>7 DEF NextData
  <2> QED BY <1>1, <1>3, <1>4, <1>6, <2>8 DEF Strings
<1>7. CASE stage # "put"
  <2>1. ~Has(todo, DataBytes(w)) /\ stage # "last"
    BY <1>1, <1>7 DEF Strings
  <2>2. ~Has(todo', DataBytes(w))
    BY <1>1, <1>2, <1>5, <2>1, PartHas
  <2> QED BY <1>1, <1>3, <1>4, <1>7, <2>1, <2>2 DEF Strings
<1> QED BY <1>6, <1>7

\* What is in a buffer fits as a record: SealedFits for a buffer of the state.
LEMMA SealedIsBytes ==
    ASSUME NEW w \in Writers, TypeOK, Buffers, NEW b \in Seq(Byte),
           Len(buf[w]) <= Len(b), Len(b) <= stop[w]
    PROVE  Sealed(w, b) \in Seq(Byte)
<1>1. /\ stop[w] \in Nat /\ bufLen[w] % 8 = 0 /\ rawWrite[w] \in BOOLEAN
      /\ ~rawWrite[w] => stop[w] = bufLen[w] /\ 8 <= Len(buf[w])
      /\ Len(buf[w]) \in Nat /\ Len(b) \in Nat
  BY LenProperties DEF TypeOK, Buffers
<1>2. CASE rawWrite[w]
  BY <1>2 DEF Sealed
<1>3. CASE ~rawWrite[w]
  <2>1. stop[w] % 8 = 0 /\ 8 <= Len(b)
    BY <1>1, <1>3
  <2> QED BY <1>1, <1>3, <2>1, SealedFits
<1> QED BY <1>2, <1>3

LEMMA AppFlushStrings ==
    ASSUME NEW w \in Writers, Inv, Strings, AppFlush(w)
    PROVE  Strings'
<1>1. busy = "none" /\ WriteAll(w, Sealed(w, buf[w])) /\ busy' = busy
  BY DEF AppFlush, Idle, EmptyBuff, call
<1>2. /\ buf \in [Writers -> Seq(Byte)] /\ TypeOK /\ Buffers
      /\ Len(buf[w]) <= stop[w] /\ Len(buf[w]) <= Len(buf[w])
  <2>1. buf \in [Writers -> Seq(Byte)] /\ TypeOK /\ Buffers
    BY DEF Inv, TypeOK
  <2>2. Len(buf[w]) \in Nat /\ Len(buf[w]) <= stop[w]
    BY <2>1, LenProperties DEF Buffers
  <2> QED BY <2>1, <2>2
<1>3. Sealed(w, buf[w]) \in Seq(Byte) /\ Pure(Sealed(w, buf[w]), w)
  BY <1>2, SealedIsBytes, SealedPure DEF Strings
<1>4. buf' = [buf EXCEPT ![w] = Fresh(w)] \/ buf' = [buf EXCEPT ![w] = Sealed(w, buf[w])]
  BY <1>1, <1>2, <1>3, WriteAllAdds
<1>5. Pure(Fresh(w), w)
  BY FreshPure
<1>6. \A v \in Writers : Pure(buf'[v], v)
  BY <1>2, <1>3, <1>4, <1>5 DEF Strings
<1> QED BY <1>1, <1>6 DEF Strings, Writers

LEMMA BeginCloseStrings ==
    ASSUME NEW w \in Writers, Inv, Strings, BeginClose(w)
    PROVE  Strings'
<1>1. /\ buf' = [buf EXCEPT ![w] = Sealed(w, buf[w])] /\ busy' = w /\ stage' = "eof"
      /\ todo' = <<>> \/ todo' = MakeHeader(w, 0, 0)
  BY DEF BeginClose
<1>2. buf \in [Writers -> Seq(Byte)] /\ Pure(Sealed(w, buf[w]), w)
  BY SealedPure DEF Inv, TypeOK, Strings
<1>3. \A v \in Writers : Pure(buf'[v], v)
  BY <1>1, <1>2 DEF Strings
<1>4. Pure(todo', w) /\ ~Has(todo', DataBytes(w))
  <2>1. Pure(<<>>, w) /\ Pure(MakeHeader(w, 0, 0), w) /\ ~Has(MakeHeader(w, 0, 0), DataBytes(w))
    BY PureRecords, EofHeader
  <2>2. ~Has(<<>>, DataBytes(w))
    BY DEF Has, Places
  <2> QED BY <1>1, <2>1, <2>2, Zenon
<1> QED BY <1>1, <1>3, <1>4 DEF Strings

LEMMA EndCloseStrings ==
    ASSUME NEW w \in Writers, Inv, Strings, EndClose(w)
    PROVE  Strings'
<1>1. WriteAll(w, buf[w]) /\ busy' = "none"
  BY DEF EndClose
<1>2. buf \in [Writers -> Seq(Byte)] /\ TypeOK /\ Pure(buf[w], w)
  BY DEF Inv, TypeOK, Strings
<1>3. buf' = [buf EXCEPT ![w] = Fresh(w)] \/ buf' = [buf EXCEPT ![w] = buf[w]]
  BY <1>1, <1>2, WriteAllAdds
<1>4. \A v \in Writers : Pure(buf'[v], v)
  BY <1>2, <1>3, FreshPure DEF Strings
<1> QED BY <1>1, <1>4 DEF Strings, Writers

LEMMA AppPutStrings ==
    ASSUME NEW w \in Writers, Inv, Strings, AppPut(w)
    PROVE  Strings'
<1>1. /\ busy' = w /\ stage' = "put" /\ buf' = buf /\ given' = given
  BY DEF AppPut, streams
<1>2. PICK n \in PutSizes : todo' = NextData(w, n)
  BY DEF AppPut
<1>3. n \in Nat /\ given[w] \in Nat
  BY PutAssumption DEF Inv, TypeOK
<1>4. Len(todo') = n /\ Pure(todo', w)
  <2>1. Len(NextData(w, n)) = n
    BY <1>3 DEF NextData
  <2>2. \A k \in 1..n : Data(w, given[w] + k) \in BytesOf(w)
    BY <1>3 DEF Data, BytesOf, DataBytes
  <2>3. Pure(NextData(w, n), w)
    BY <2>2 DEF Pure, NextData
  <2> QED BY <1>2, <2>1, <2>3
<1>5. todo' = NextData(w, Len(todo))'
  BY <1>1, <1>2, <1>4 DEF NextData
<1> QED BY <1>1, <1>4, <1>5 DEF Strings

LEMMA OtherStrings ==
    ASSUME Strings, UNCHANGED <<buf, given, busy, stage, todo>>
    PROVE  Strings'
<1>1. Strings' = Strings
  BY DEF Strings, NextData
<1> QED BY <1>1

-----------------------------------------------------------------------------
(* Who is closed.                                                          *)

\* What a step does to the flags of the writers.
Flags == <<isClosed, wasFCloseCalled, FCGI_errno, rawWrite, cleared>>

LEMMA PutEndsClosed ==
    ASSUME NEW w \in Writers, Inv, Closed, PutLast(w) \/ PutFails(w)
    PROVE  Closed' /\ (NoError' => NoError)
<1>1. /\ busy = w /\ stage \in {"put", "eof", "end"}
      /\ buf' = [buf EXCEPT ![w] = Filled(w)] /\ AfterPut(w)
      /\ UNCHANGED <<Flags, stop>>
  BY DEF PutLast, PutFails, Flags
<1>2. \A v \in Writers : Closing(v)' <=> Closing(v)
  <2>1. stage = "put" => busy' = "none" /\ stage' = stage
    BY <1>1 DEF AfterPut
  <2>2. stage # "put" => busy' = busy /\ stage' # "put"
    BY <1>1 DEF AfterPut
  <2> QED BY <1>1, <2>1, <2>2 DEF Closing, Writers
<1>3. /\ \A v \in Writers : Failed(v)' <=> Failed(v)
      /\ \A v \in Writers : wasFCloseCalled[v]' = wasFCloseCalled[v] /\ isClosed[v]' = isClosed[v]
                            /\ rawWrite[v]' = rawWrite[v] /\ stop[v]' = stop[v]
  BY <1>1 DEF Failed, Flags
<1>4. \A v \in Writers : wasFCloseCalled[v] => Len(buf'[v]) = Len(buf[v])
  <2> SUFFICES ASSUME NEW v \in Writers, wasFCloseCalled[v] PROVE Len(buf'[v]) = Len(buf[v])
    OBVIOUS
  <2>1. CASE v # w
    BY <1>1, <2>1 DEF Inv, TypeOK
  <2>2. CASE v = w
    <3>1. TypeOK /\ Buffers /\ stop[w] = Len(buf[w])
      BY <2>2 DEF Closed, Inv
    <3>2. Len(buf[w]) <= Len(Filled(w)) /\ Len(Filled(w)) <= stop[w] /\ Filled(w) \in Seq(Byte)
      BY <3>1, FilledFits
    <3>3. Len(Filled(w)) \in Nat /\ Len(buf[w]) \in Nat
      BY <3>1, <3>2, LenProperties DEF TypeOK
    <3>4. buf'[w] = Filled(w)
      BY <1>1, <3>1 DEF TypeOK
    <3> QED BY <2>2, <3>1, <3>2, <3>3, <3>4
  <2> QED BY <2>1, <2>2
<1>5. Closed'
  BY <1>2, <1>3, <1>4 DEF Closed
<1> QED BY <1>3, <1>5 DEF NoError

LEMMA EmptyBuffClosed ==
    ASSUME NEW w \in Writers, Inv, Closed, NEW b \in Seq(Byte), Sealed(w, b) \in Seq(Byte),
           EmptyBuff(w, b), ~isClosed[w], UNCHANGED <<busy, stage, cleared>>
    PROVE  Closed' /\ (NoError' => NoError)
<1>1. /\ isClosed' = [isClosed EXCEPT ![w] = @ \/ FCGI_errno'[w]]
      /\ UNCHANGED <<stop, wasFCloseCalled, rawWrite>>
      /\ \/ UNCHANGED FCGI_errno
         \/ FCGI_errno' = [FCGI_errno EXCEPT ![w] = TRUE]
      /\ \A v \in Writers \ {w} : buf'[v] = buf[v]
  <2>1. TypeOK /\ WriteAll(w, Sealed(w, b))
    BY DEF Inv, EmptyBuff
  <2>2. /\ buf' = [buf EXCEPT ![w] = Fresh(w)] \/ buf' = [buf EXCEPT ![w] = Sealed(w, b)]
        /\ UNCHANGED FCGI_errno \/ FCGI_errno' = [FCGI_errno EXCEPT ![w] = TRUE]
    BY <2>1, WriteAllAdds
  <2> QED BY <2>1, <2>2 DEF EmptyBuff, TypeOK
<1>2. /\ isClosed \in [Writers -> BOOLEAN] /\ FCGI_errno \in [Writers -> BOOLEAN]
      /\ ~wasFCloseCalled[w] /\ ~Failed(w)
  BY DEF Inv, TypeOK, Closed
<1>3. \A v \in Writers \ {w} :
          /\ isClosed'[v] = isClosed[v] /\ FCGI_errno'[v] = FCGI_errno[v]
          /\ buf'[v] = buf[v] /\ Failed(v)' = Failed(v)
  BY <1>1, <1>2 DEF Failed
<1>4. Failed(w)' => isClosed'[w]
  BY <1>1, <1>2 DEF Failed
<1>5. isClosed'[w] => Failed(w)'
  BY <1>1, <1>2 DEF Failed
<1>6. \A v \in Writers : Closing(v)' = Closing(v)
  BY DEF Closing
<1>7. Closed'
  <2> SUFFICES ASSUME NEW v \in Writers
               PROVE  /\ Failed(v)' => isClosed'[v]
                      /\ isClosed'[v] => Failed(v)' \/ wasFCloseCalled'[v]
                      /\ rawWrite'[v] => wasFCloseCalled'[v] \/ Closing(v)'
                      /\ wasFCloseCalled'[v] => rawWrite'[v] /\ isClosed'[v] /\ ~Closing(v)'
                                                /\ stop'[v] = Len(buf'[v])
    BY DEF Closed
  <2>1. CASE v = w
    BY <1>1, <1>2, <1>4, <1>5, <1>6, <2>1 DEF Closed
  <2>2. CASE v # w
    BY <1>1, <1>3, <1>6, <2>2 DEF Closed
  <2> QED BY <2>1, <2>2
<1>8. NoError' => NoError
  BY <1>2, <1>3 DEF NoError
<1> QED BY <1>7, <1>8

LEMMA BeginCloseClosed ==
    ASSUME NEW w \in Writers, Inv, Closed, BeginClose(w), busy = "none", ~wasFCloseCalled[w]
    PROVE  Closed' /\ (NoError' => NoError)
<1>1. /\ buf' = [buf EXCEPT ![w] = Sealed(w, buf[w])] /\ busy' = w /\ stage' = "eof"
      /\ rawWrite' = [rawWrite EXCEPT ![w] = TRUE]
      /\ UNCHANGED <<stop, isClosed, wasFCloseCalled, FCGI_errno, cleared>>
      /\ buf \in [Writers -> Seq(Byte)] /\ rawWrite \in [Writers -> BOOLEAN]
  BY DEF BeginClose, Inv, TypeOK
<1>2. \A v \in Writers : Failed(v)' = Failed(v)
  BY <1>1 DEF Failed
<1>3. \A v \in Writers \ {w} : buf'[v] = buf[v] /\ rawWrite'[v] = rawWrite[v] /\ ~Closing(v)' /\ ~Closing(v)
  BY <1>1 DEF Closing, Writers
<1>4. Closing(w)'
  BY <1>1 DEF Closing
<1>5. Closed'
  <2> SUFFICES ASSUME NEW v \in Writers
               PROVE  /\ Failed(v)' => isClosed'[v]
                      /\ isClosed'[v] => Failed(v)' \/ wasFCloseCalled'[v]
                      /\ rawWrite'[v] => wasFCloseCalled'[v] \/ Closing(v)'
                      /\ wasFCloseCalled'[v] => rawWrite'[v] /\ isClosed'[v] /\ ~Closing(v)'
                                                /\ stop'[v] = Len(buf'[v])
    BY DEF Closed
  <2>1. CASE v = w
    BY <1>1, <1>2, <1>4, <2>1 DEF Closed
  <2>2. CASE v # w
    BY <1>1, <1>2, <1>3, <2>2 DEF Closed
  <2> QED BY <2>1, <2>2
<1> QED BY <1>2, <1>5 DEF NoError

LEMMA EndCloseClosed ==
    ASSUME NEW w \in Writers, Inv, Closed, EndClose(w)
    PROVE  Closed' /\ (NoError' => NoError)
<1>1. /\ busy = w /\ stage = "last" /\ WriteAll(w, buf[w]) /\ busy' = "none"
      /\ wasFCloseCalled' = [wasFCloseCalled EXCEPT ![w] = TRUE]
      /\ isClosed' = [isClosed EXCEPT ![w] = TRUE]
      /\ stop' = [stop EXCEPT ![w] = Len(buf'[w])]
      /\ UNCHANGED <<rawWrite, cleared>>
      /\ TypeOK /\ buf[w] \in Seq(Byte)
  BY DEF EndClose, Inv, TypeOK
<1>2. /\ UNCHANGED FCGI_errno \/ FCGI_errno' = [FCGI_errno EXCEPT ![w] = TRUE]
      /\ \A v \in Writers \ {w} : buf'[v] = buf[v]
  <2>1. /\ buf' = [buf EXCEPT ![w] = Fresh(w)] \/ buf' = [buf EXCEPT ![w] = buf[w]]
        /\ UNCHANGED FCGI_errno \/ FCGI_errno' = [FCGI_errno EXCEPT ![w] = TRUE]
    BY <1>1, WriteAllAdds
  <2> QED BY <1>1, <2>1 DEF TypeOK
<1>3. /\ isClosed'[w] /\ wasFCloseCalled'[w] /\ stop'[w] = Len(buf'[w]) /\ rawWrite[w]
      /\ \A v \in Writers \ {w} : /\ isClosed'[v] = isClosed[v] /\ stop'[v] = stop[v]
                                  /\ wasFCloseCalled'[v] = wasFCloseCalled[v]
                                  /\ FCGI_errno'[v] = FCGI_errno[v]
      /\ FCGI_errno[w] => FCGI_errno'[w]
  BY <1>1, <1>2 DEF Inv, TypeOK, Mode, Closing
<1>4. \A v \in Writers : ~Closing(v)'
  BY <1>1 DEF Closing, Writers
<1>5. \A v \in Writers \ {w} : Failed(v)' = Failed(v) /\ ~Closing(v)
  BY <1>1, <1>3 DEF Failed, Closing
<1>6. Failed(w) => Failed(w)'
  BY <1>1, <1>3 DEF Failed
<1>7. Closed'
  <2> SUFFICES ASSUME NEW v \in Writers
               PROVE  /\ Failed(v)' => isClosed'[v]
                      /\ isClosed'[v] => Failed(v)' \/ wasFCloseCalled'[v]
                      /\ rawWrite'[v] => wasFCloseCalled'[v] \/ Closing(v)'
                      /\ wasFCloseCalled'[v] => rawWrite'[v] /\ isClosed'[v] /\ ~Closing(v)'
                                                /\ stop'[v] = Len(buf'[v])
    BY DEF Closed
  <2>1. CASE v = w
    BY <1>1, <1>3, <1>4, <2>1
  <2>2. CASE v # w
    BY <1>1, <1>2, <1>3, <1>4, <1>5, <2>2 DEF Closed
  <2> QED BY <2>1, <2>2
<1> QED BY <1>5, <1>6, <1>7 DEF NoError

LEMMA OtherClosed ==
    ASSUME NEW w \in Writers, Inv, Closed,
           AppPut(w) \/ AppClear(w) \/ FinishNext(w) \/ ReaderAnswer \/ StartFinish \/ Finished \/ UNCHANGED vars
    PROVE  Closed' /\ (NoError' => NoError)
<1>1. /\ UNCHANGED <<buf, stop, isClosed, wasFCloseCalled, rawWrite>>
      /\ \A v \in Writers : Closing(v)' = Closing(v)
  <2>1. CASE AppPut(w)
    BY <2>1 DEF AppPut, Idle, streams, Closing, Writers
  <2>2. CASE AppClear(w)
    BY <2>2 DEF AppClear, call, Closing
  <2>3. CASE FinishNext(w) \/ ReaderAnswer \/ StartFinish
    BY <2>3 DEF FinishNext, ReaderAnswer, StartFinish, streams, call, Closing
  <2>4. CASE Finished \/ UNCHANGED vars
    BY <2>4 DEF Finished, vars, streams, call, Closing
  <2> QED BY <2>1, <2>2, <2>3, <2>4
<1>2. \A v \in Writers : Failed(v)' = Failed(v)
  <2>1. CASE AppClear(w)
    BY <2>1 DEF AppClear, Failed, Inv, TypeOK
  <2>2. CASE AppPut(w) \/ FinishNext(w) \/ ReaderAnswer \/ StartFinish \/ Finished \/ UNCHANGED vars
    <3>1. UNCHANGED <<FCGI_errno, cleared>>
      BY <2>2 DEF AppPut, FinishNext, ReaderAnswer, StartFinish, Finished, vars, streams
    <3> QED BY <3>1 DEF Failed
  <2> QED BY <2>1, <2>2
<1>3. Closed'
  BY <1>1, <1>2 DEF Closed
<1> QED BY <1>2, <1>3 DEF NoError

-----------------------------------------------------------------------------
(* What FCGX_Finish_r has seen, and the lone writer.                       *)

LEMMA LibraryFinishing ==
    ASSUME NEW w \in Writers, Inv, Closed, Finishing, Library(w)
    PROVE  Finishing'
<1>1. /\ FCGI_errno \in [Writers -> BOOLEAN] /\ wasFCloseCalled \in [Writers -> BOOLEAN]
      /\ close \in BOOLEAN /\ finish \in {"no", "err", "out", "done", "never"}
      /\ "err" \in Writers /\ "out" \in Writers
  BY DEF Inv, TypeOK, Writers
<1>2. CASE PutLast(w) \/ PutFails(w)
  <2>1. busy = w /\ UNCHANGED <<wasFCloseCalled, FCGI_errno, finish, close>>
    BY <1>2 DEF PutLast, PutFails
  <2> QED BY <2>1 DEF Finishing, Writers
<1>3. CASE PutMore(w) \/ EndClose(w)
  <2>1. /\ busy = w /\ ~wasFCloseCalled[w] /\ UNCHANGED <<finish, close>>
        /\ \A v \in Writers \ {w} : wasFCloseCalled'[v] = wasFCloseCalled[v]
    <3>1. CASE PutMore(w)
      BY <3>1 DEF PutMore, EmptyBuff, Closed
    <3>2. CASE EndClose(w)
      BY <3>2 DEF EndClose, Inv, TypeOK, Mode, Closing
    <3> QED BY <1>3, <3>1, <3>2
  <2>2. \A v \in Writers \ {w} : FCGI_errno'[v] = FCGI_errno[v]
    BY <1>1, <1>3 DEF PutMore, EmptyBuff, EndClose, WriteAll
  <2>3. CASE w = "err"
    BY <2>1, <2>3 DEF Finishing
  <2>4. CASE w = "out"
    <3>1. finish # "done"
      BY <2>1, <2>4 DEF Finishing
    <3> QED BY <1>1, <2>1, <2>2, <2>4, <3>1 DEF Finishing
  <2> QED BY <2>3, <2>4 DEF Writers
<1>4. CASE FinishClose(w)
  <2>1. finish # "done" /\ UNCHANGED <<wasFCloseCalled, FCGI_errno, finish, close>>
    BY <1>4 DEF FinishClose, BeginClose, Writers
  <2> QED BY <2>1 DEF Finishing
<1>5. CASE FinishNext(w)
  <2>1. /\ busy = "none" /\ busy' = "none" /\ finish = w /\ wasFCloseCalled[w]
        /\ finish' = IF w = "err" THEN "out" ELSE "done"
        /\ UNCHANGED <<wasFCloseCalled, FCGI_errno>>
        /\ close' = (close \/ FCGI_errno[w]) \/ (w = "out" /\ close' = TRUE)
    BY <1>5 DEF FinishNext, streams, call
  <2>2. CASE w = "err"
    BY <1>1, <2>1, <2>2 DEF Finishing
  <2>3. CASE w = "out"
    BY <1>1, <2>1, <2>3 DEF Finishing
  <2> QED BY <2>2, <2>3 DEF Writers
<1> QED BY <1>2, <1>3, <1>4, <1>5 DEF Library

LEMMA OtherFinishing ==
    ASSUME NEW w \in Writers, Inv, Finishing,
           App(w) \/ ReaderAnswer \/ StartFinish \/ Finished \/ UNCHANGED vars
    PROVE  Finishing'
<1>1. CASE App(w)
  <2>1. finish \in {"no", "never"} /\ finish' = finish
    BY <1>1 DEF App, AppPut, AppFlush, AppClose, AppClear, BeginClose, Idle
  <2> QED BY <2>1 DEF Finishing
<1>2. CASE StartFinish
  BY <1>2 DEF StartFinish, Finishing
<1>3. CASE ReaderAnswer \/ Finished \/ UNCHANGED vars
  <2>1. UNCHANGED <<wasFCloseCalled, FCGI_errno, finish, close, busy>>
    BY <1>3 DEF ReaderAnswer, Finished, vars, streams, call
  <2> QED BY <2>1 DEF Finishing
<1> QED BY <1>1, <1>2, <1>3

\* The lone writer: steps that write.
LEMMA LoneWrites ==
    ASSUME Inv, Strings, Lone, Created, NEW b \in Seq(Byte),
           ~Has(b, EndBytes), WriteAll("out", b)
    PROVE  ~Has(wire', EndBytes) /\ ~Has(buf'["out"], EndBytes)
<1>1. TypeOK /\ wire \in Seq(Byte) /\ buf \in [Writers -> Seq(Byte)] /\ "out" \in Writers
  BY DEF Inv, TypeOK, Writers
<1>2. PICK y \in Seq(Byte) : wire' = wire \o y /\ ~Has(y, EndBytes)
  BY <1>1, WriteAllAdds
<1>3. ~Has(wire', EndBytes)
  BY <1>1, <1>2, HasBehind DEF Lone
<1>4. buf' = [buf EXCEPT !["out"] = Fresh("out")] \/ buf' = [buf EXCEPT !["out"] = b]
  BY <1>1, WriteAllAdds
<1>5. ~Has(Fresh("out"), EndBytes)
  BY <1>1, FreshPure
<1> QED BY <1>1, <1>3, <1>4, <1>5

LEMMA LoneStep ==
    ASSUME NEW w \in Writers, Inv, Strings, Lone, Created, Created => w = "out",
           Library(w) \/ App(w)
    PROVE  Lone'
<1>0. /\ w = "out" /\ "out" \in Writers /\ TypeOK /\ Buffers /\ Mode /\ Counted
      /\ buf \in [Writers -> Seq(Byte)] /\ todo \in Seq(Byte) /\ wire \in Seq(Byte)
      /\ Pure(buf[w], w) /\ wasFCloseCalled \in [Writers -> BOOLEAN]
      /\ "err" \in Writers
  BY DEF Inv, TypeOK, Strings, Writers
<1>1. /\ busy # "err" /\ ~wasFCloseCalled["err"]
      /\ ~Has(wire, EndBytes) /\ ~Has(buf["out"], EndBytes) /\ ~Has(todo, EndBytes)
  BY DEF Lone
<1>2. ~Has(<<>>, EndBytes)
  BY DEF Has, Places
<1>3. CASE PutLast(w) \/ PutFails(w)
  <2>1. /\ busy = w /\ stage \in {"put", "eof", "end"} /\ AfterPut(w)
        /\ buf' = [buf EXCEPT ![w] = Filled(w)]
        /\ UNCHANGED <<wasFCloseCalled, finish, wire>>
    BY <1>3 DEF PutLast, PutFails
  <2>2. ~Has(Filled(w), EndBytes)
    BY <1>0, <1>1, <2>1, FilledPure
  <2>3. buf'["out"] = Filled(w)
    BY <1>0, <2>1
  <2>4. busy' # "err" /\ todo' = <<>>
    <3>1. CASE stage = "put"
      BY <2>1, <3>1 DEF AfterPut
    <3>2. CASE stage = "eof"
      <4>1. Counts("out") /\ Counts("err")
        BY <1>0, <1>1, <2>1, <3>2 DEF Counts, Mode, Closing
      <4>2. nWriters = 2
        BY <1>0, <4>1 DEF Counted
      <4> QED BY <1>0, <2>1, <3>2, <4>2 DEF AfterPut
    <3>3. CASE stage = "end"
      BY <1>0, <2>1, <3>3 DEF AfterPut
    <3> QED BY <2>1, <3>1, <3>2, <3>3
  <2> QED BY <1>1, <1>2, <2>1, <2>2, <2>3, <2>4 DEF Lone, Created
<1>4. CASE PutMore(w)
  <2>1. /\ busy = w /\ WriteAll(w, Sealed(w, Filled(w)))
        /\ todo' = SubSeq(todo, Part(w) + 1, Len(todo))
        /\ UNCHANGED <<wasFCloseCalled, finish, busy>>
    BY <1>4 DEF PutMore, EmptyBuff
  <2>2. /\ Filled(w) \in Seq(Byte) /\ Pure(Filled(w), w) /\ ~Has(Filled(w), EndBytes)
        /\ Part(w) \in Nat /\ Part(w) <= Len(todo) /\ Len(todo) \in Nat
    BY <1>0, <1>1, <2>1, FilledPure
  <2>3. Sealed(w, Filled(w)) \in Seq(Byte) /\ ~Has(Sealed(w, Filled(w)), EndBytes)
    BY <1>0, <2>2, FilledFits, SealedIsBytes, SealedPure
  <2>4. ~Has(wire', EndBytes) /\ ~Has(buf'["out"], EndBytes)
    BY <1>0, <2>1, <2>3, LoneWrites
  <2>5. ~Has(todo', EndBytes)
    <3>1. Part(w) + 1 \in Nat /\ 1 <= Part(w) + 1 /\ Part(w) + 1 <= Len(todo) + 1
      BY <2>2
    <3> QED BY <1>0, <1>1, <2>1, <2>2, <3>1, PartHas
  <2> QED BY <1>1, <2>1, <2>4, <2>5 DEF Lone, Created
<1>5. CASE EndClose(w)
  <2>1. /\ WriteAll(w, buf[w]) /\ busy' = "none" /\ todo' = todo /\ finish' = finish
        /\ wasFCloseCalled' = [wasFCloseCalled EXCEPT ![w] = TRUE]
    BY <1>5 DEF EndClose
  <2>2. ~Has(wire', EndBytes) /\ ~Has(buf'["out"], EndBytes)
    BY <1>0, <1>1, <2>1, LoneWrites
  <2>3. ~wasFCloseCalled'["err"]
    BY <1>0, <1>1, <2>1
  <2> QED BY <1>1, <2>1, <2>2, <2>3 DEF Lone, Created
<1>6. CASE FinishClose(w) \/ FinishNext(w)
  BY <1>0, <1>6 DEF FinishClose, FinishNext, Created
<1>7. CASE AppFlush(w)
  <2>1. /\ WriteAll(w, Sealed(w, buf[w]))
        /\ UNCHANGED <<wasFCloseCalled, finish, busy, todo>>
    BY <1>7 DEF AppFlush, EmptyBuff, call
  <2>2. Sealed(w, buf[w]) \in Seq(Byte) /\ ~Has(Sealed(w, buf[w]), EndBytes)
    <3>1. Len(buf[w]) <= Len(buf[w]) /\ Len(buf[w]) <= stop[w]
      BY <1>0, LenProperties DEF Buffers
    <3> QED BY <1>0, <1>1, <3>1, SealedIsBytes, SealedPure
  <2>3. ~Has(wire', EndBytes) /\ ~Has(buf'["out"], EndBytes)
    BY <1>0, <2>1, <2>2, LoneWrites
  <2> QED BY <1>1, <2>1, <2>3 DEF Lone, Created
<1>8. CASE AppClose(w)
  <2>1. /\ buf' = [buf EXCEPT ![w] = Sealed(w, buf[w])] /\ busy' = w
        /\ todo' = <<>> \/ todo' = MakeHeader(w, 0, 0)
        /\ UNCHANGED <<wasFCloseCalled, wire, finish>>
    BY <1>8 DEF AppClose, BeginClose
  <2>2. ~Has(Sealed(w, buf[w]), EndBytes)
    BY <1>0, <1>1, SealedPure
  <2>3. ~Has(todo', EndBytes)
    <3>1. ~Has(MakeHeader(w, 0, 0), EndBytes)
      BY EofHeader
    <3> QED BY <1>2, <2>1, <3>1, Zenon
  <2>4. ~Has(buf'["out"], EndBytes)
    BY <1>0, <2>1, <2>2
  <2> QED BY <1>0, <1>1, <2>1, <2>3, <2>4 DEF Lone, Created
<1>9. CASE AppPut(w)
  <2>1. busy' = w /\ UNCHANGED <<wasFCloseCalled, wire, finish, buf>>
    BY <1>9 DEF AppPut, streams
  <2>2. PICK n \in PutSizes : todo' = NextData(w, n)
    BY <1>9 DEF AppPut
  <2>3. ~Has(NextData(w, n), EndBytes)
    <3>1. n \in Nat /\ given[w] \in Nat
      BY <1>0, PutAssumption DEF TypeOK
    <3>2. \A k \in 1..n : Data(w, given[w] + k) \in DataBytes(w)
      BY <3>1 DEF Data, DataBytes
    <3> QED BY <3>2, OtherBytes DEF Has, Places, NextData
  <2> QED BY <1>0, <1>1, <2>1, <2>2, <2>3 DEF Lone, Created
<1>10. CASE AppClear(w)
  BY <1>1, <1>10 DEF AppClear, call, Lone, Created
<1> QED BY <1>3, <1>4, <1>5, <1>6, <1>7, <1>8, <1>9, <1>10 DEF Library, App

LEMMA NextLone ==
    ASSUME Inv, Strings, Lone, [Next]_vars
    PROVE  Lone'
<1>1. CASE \E w \in Writers : Library(w) \/ App(w)
  <2>1. PICK w \in Writers : Library(w) \/ App(w)
    BY <1>1
  <2>2. CASE Created
    <3>1. w = "out"
      BY <2>1, <2>2 DEF Library, App, Lone, Created, PutLast, PutMore, PutFails, EndClose, FinishClose, FinishNext, Writers
    <3> QED BY <2>1, <2>2, <3>1, LoneStep
  <2>3. CASE ~Created
    <3>1. finish' # "never"
      <4>1. CASE Library(w)
        BY <2>3, <4>1 DEF Library, PutLast, PutMore, PutFails, EndClose, FinishClose, FinishNext, Created
      <4>2. CASE App(w)
        BY <2>3, <4>2 DEF App, AppPut, AppFlush, AppClose, AppClear, Created
      <4> QED BY <2>1, <4>1, <4>2
    <3> QED BY <3>1 DEF Lone, Created
  <2> QED BY <2>2, <2>3
<1>2. CASE ReaderAnswer
  BY <1>2 DEF ReaderAnswer, Lone, Created
<1>3. CASE StartFinish
  BY <1>3 DEF StartFinish, Lone, Created
<1>4. CASE Finished \/ UNCHANGED vars
  BY <1>4 DEF Finished, vars, streams, call, Lone, Created
<1> QED BY <1>1, <1>2, <1>3, <1>4 DEF Next

-----------------------------------------------------------------------------
(* Without an error: what EmptyBuffProc makes of the content in a buffer.  *)

LEMMA NothingIsOrderly ==
    /\ <<>> \in Seq(Byte) /\ Orderly(<<>>) /\ ~Has(<<>>, EndBytes)
    /\ \A v \in Writers : /\ ~Has(<<>>, EofBytes(v)) /\ ~Has(<<>>, DataBytes(v))
                          /\ DataOf(<<>>, v) = <<>>
<1>1. \A T : Places(<<>>, T) = {}
  BY DEF Places
<1>2. WellFormed(<<>>)
  BY DEF WellFormed, Starts
<1> QED BY <1>1, <1>2, SelectedEmpty DEF Orderly, Has, AtMostOne, DataOf

\* The buffer of w before the header is put into its space.
Unsealed(w, b) ==
    8 <= Len(b) /\ \A p \in DOMAIN b : b[p] \in (IF p <= HeaderLen THEN {Room} ELSE DataBytes(w))

LEMMA SealedContent ==
    ASSUME NEW w \in Writers, ~rawWrite[w], NEW b \in Seq(Byte), Unsealed(w, b)
    PROVE  /\ Sealed(w, b) \in Seq(Byte) /\ Orderly(Sealed(w, b))
           /\ ~Has(Sealed(w, b), EndBytes)
           /\ \A v \in Writers : ~Has(Sealed(w, b), EofBytes(v))
           /\ \A v \in Writers \ {w} : ~Has(Sealed(w, b), DataBytes(v))
           /\ DataOf(Sealed(w, b), w) = DataOf(b, w)
<1> DEFINE c == SubSeq(b, 9, Len(b))
           room == SubSeq(b, 1, 8)
           len == Len(b) - 8
<1>1. Len(b) \in Nat /\ DOMAIN b = 1..Len(b) /\ len \in Nat /\ ContentLen(b) = len
  BY LenProperties DEF Unsealed, ContentLen, HeaderLen
<1>2. room \in Seq(Byte) /\ Len(room) = 8 /\ \A k \in DOMAIN room : room[k] = Room
  <2>1. 1 \in Nat /\ 8 \in Nat /\ 1 <= 1 /\ 1 <= 8 + 1 /\ 8 <= Len(b) /\ 8 + 1 - 1 = 8
    BY DEF Unsealed
  <2>2. /\ room \in Seq(Byte) /\ Len(room) = 8 /\ DOMAIN room = 1..8
        /\ \A k \in 1..8 : room[k] = b[1 + k - 1] /\ 1 + k - 1 \in DOMAIN b
    BY <2>1, PartOf
  <2>3. \A k \in 1..8 : 1 + k - 1 = k /\ k <= HeaderLen
    BY DEF HeaderLen
  <2> HIDE DEF room
  <2> QED BY <2>2, <2>3 DEF Unsealed
<1>3. c \in Seq(Byte) /\ Len(c) = len /\ \A k \in 1..len : c[k] \in DataBytes(w)
  <2>1. 9 \in Nat /\ Len(b) \in Nat /\ 1 <= 9 /\ 9 <= Len(b) + 1 /\ Len(b) <= Len(b) /\ Len(b) + 1 - 9 = len
    BY <1>1
  <2>2. /\ c \in Seq(Byte) /\ Len(c) = len
        /\ \A k \in 1..len : c[k] = b[9 + k - 1] /\ 9 + k - 1 \in DOMAIN b
    BY <2>1, PartOf
  <2>3. \A k \in 1..len : ~(9 + k - 1 <= HeaderLen)
    BY <1>1 DEF HeaderLen
  <2> HIDE DEF c, len
  <2> QED BY <2>2, <2>3 DEF Unsealed
<1>4. b = room \o c
  <2>1. \A s \in Seq(Byte) : 8 <= Len(s) => s = SubSeq(s, 1, 8) \o SubSeq(s, 9, Len(s))
    OBVIOUS
  <2> QED BY <2>1 DEF Unsealed
<1> HIDE DEF c, room, len
<1>5. DataOf(room, w) = <<>>
  BY <1>2, OtherBytes, SelectedNone DEF DataOf
<1>6. DataOf(c, w) = c
  <2>1. DOMAIN c = 1..len
    BY <1>3
  <2> QED BY <1>3, <2>1, SelectedAll DEF DataOf
<1>7. DataOf(b, w) = c
  <2>1. DataOf(b, w) = DataOf(room, w) \o DataOf(c, w)
    BY <1>2, <1>3, <1>4, DataBehind, Zenon
  <2>2. <<>> \o c = c
    BY <1>3
  <2> QED BY <1>5, <1>6, <2>1, <2>2
<1>8. CASE len = 0
  <2>1. Sealed(w, b) = <<>>
    BY <1>1, <1>8 DEF Sealed
  <2>2. c = <<>>
    BY <1>3, <1>8
  <2> QED BY <1>7, <2>1, <2>2, NothingIsOrderly
<1>9. CASE len > 0
  <2> DEFINE pad == PadLen(b)
  <2>1. pad \in Nat
    <3>1. AlignInt8(len) \in Nat /\ len <= AlignInt8(len)
      BY <1>1, AlignInt8Rounds
    <3>2. pad = AlignInt8(len) - len
      BY <1>1 DEF PadLen
    <3> QED BY <1>1, <3>1, <3>2
  <2>2. Sealed(w, b) = Rec(w, len, pad, c)
    BY <1>1, <1>9 DEF Sealed, Rec, HeaderLen, c
  <2> HIDE DEF pad
  <2>3. /\ Rec(w, len, pad, c) \in Seq(Byte) /\ Orderly(Rec(w, len, pad, c))
        /\ ~Has(Rec(w, len, pad, c), EndBytes)
        /\ \A v \in Writers : ~Has(Rec(w, len, pad, c), EofBytes(v))
        /\ \A v \in Writers \ {w} : ~Has(Rec(w, len, pad, c), DataBytes(v))
        /\ DataOf(Rec(w, len, pad, c), w) = c
    BY <1>1, <1>3, <1>9, <2>1, DataRecord
  <2> QED BY <1>7, <2>2, <2>3
<1> QED BY <1>1, <1>8, <1>9

\* The content of the buffers and of the connection is what was given.
Given(w, s, n) == s = [k \in 1..n |-> Data(w, k)]

-----------------------------------------------------------------------------
(* Without an error: the steps.                                            *)

\* A record of content goes out: FCGX_FFlush, or a full buffer.
LEMMA RecordOut ==
    ASSUME NEW w \in Writers, Inv, Closed, Orderly(Sent), Ends, Content,
           ~rawWrite[w], ~Pending, ~Pending', NEW b \in Seq(Byte), Unsealed(w, b),
           wire' = wire \o Sealed(w, b), buf' = [buf EXCEPT ![w] = Fresh(w)],
           isAnythingWritten' = [isAnythingWritten EXCEPT ![w] = @ \/ Sealed(w, b) # <<>>],
           UNCHANGED <<rawWrite, nWriters>>,
           Given(w, DataOf(wire, w) \o DataOf(b, w), given'[w]),
           \A v \in Writers \ {w} : given'[v] = given[v]
    PROVE  Orderly(Sent)' /\ Ends' /\ Content'
<1> DEFINE r == Sealed(w, b)
<1>1. /\ r \in Seq(Byte) /\ Orderly(r) /\ ~Has(r, EndBytes)
      /\ \A v \in Writers : ~Has(r, EofBytes(v))
      /\ \A v \in Writers \ {w} : ~Has(r, DataBytes(v))
      /\ DataOf(r, w) = DataOf(b, w)
  BY SealedContent
<1>2. /\ wire \in Seq(Byte) /\ buf \in [Writers -> Seq(Byte)]
      /\ isAnythingWritten \in [Writers -> BOOLEAN]
  BY DEF Inv, TypeOK
<1>3. Sent = wire /\ Sent' = wire'
  BY DEF Sent
<1>4. wire' = wire \o r
  OBVIOUS
<1>5. \A T : Has(wire', T) <=> Has(wire, T) \/ Has(r, T)
  <2> HIDE DEF r
  <2> QED BY <1>1, <1>2, <1>4, HasBehind
<1> HIDE DEF r
<1>6. ~Has(wire, EofBytes(w))
  BY <1>3 DEF Ends
<1>7. Orderly(Sent)'
  <2>1. \A v \in Writers : ~(Has(wire, EofBytes(v)) /\ Has(r, DataBytes(v)))
    BY <1>1, <1>6
  <2>2. Orderly(wire)
    BY <1>3
  <2>3. Orderly(wire \o r)
    BY <1>1, <1>2, <2>1, <2>2, OrderlyBehind
  <2>4. Orderly(wire)' <=> Orderly(wire')
    BY DEF Orderly, WellFormed, AtMostOne, Places, Starts, RecordAt
  <2>5. Orderly(Sent)' <=> Orderly(Sent')
    BY DEF Orderly, WellFormed, AtMostOne, Places, Starts, RecordAt
  <2> QED BY <1>3, <1>4, <2>3, <2>5
<1>8. Ends'
  <2>1. /\ Has(Sent, EndBytes) <=> nWriters = 0
        /\ \A v \in Writers : Has(Sent, EofBytes(v)) => rawWrite[v]
        /\ \A v \in Writers : rawWrite[v] =>
               Has(Sent, EofBytes(v)) \/ (v = "err" /\ ~Has(Sent, DataBytes(v)))
    BY DEF Ends
  <2>2. /\ Has(Sent', EndBytes) <=> nWriters' = 0
        /\ \A v \in Writers : Has(Sent', EofBytes(v)) => rawWrite'[v]
    BY <1>1, <1>3, <1>5, <2>1
  <2>3. \A v \in Writers : rawWrite'[v] =>
               Has(Sent', EofBytes(v)) \/ (v = "err" /\ ~Has(Sent', DataBytes(v)))
    BY <1>1, <1>3, <1>5, <2>1
  <2> QED BY <2>2, <2>3 DEF Ends
<1>9. Content'
  <2> SUFFICES ASSUME NEW v \in Writers
               PROVE  /\ ~rawWrite'[v] => \A p \in DOMAIN buf'[v] :
                             buf'[v][p] \in (IF p <= HeaderLen THEN {Room} ELSE DataBytes(v))
                      /\ rawWrite'[v] /\ ~Closing(v)' => buf'[v] = <<>>
                      /\ ~isAnythingWritten'[v] => ~Has(wire', DataBytes(v))
                      /\ DataOf(wire', v) \o DataOf(buf'[v], v) = [k \in 1..given'[v] |-> Data(v, k)]
    BY DEF Content, DataOf
  <2>1. CASE v = w
    <3>1. buf'[w] = Times(8, Room)
      BY <1>2 DEF Fresh, HeaderLen
    <3>2. \A p \in DOMAIN buf'[w] : p <= HeaderLen /\ buf'[w][p] = Room
      <4>1. DOMAIN Times(8, Room) = 1..8 /\ \A p \in 1..8 : Times(8, Room)[p] = Room
        BY DEF Times
      <4>2. DOMAIN buf'[w] = 1..8 /\ \A p \in 1..8 : buf'[w][p] = Room
        BY <3>1, <4>1
      <4>3. \A p \in 1..8 : p <= HeaderLen
        BY DEF HeaderLen
      <4> QED BY <4>2, <4>3
    <3>3. ~isAnythingWritten'[w] => ~Has(wire', DataBytes(w))
      <4>1. ~isAnythingWritten'[w] => ~isAnythingWritten[w] /\ r = <<>>
        BY <1>2 DEF r
      <4> QED BY <1>5, <4>1, NothingIsOrderly DEF Content
    <3>4. DataOf(wire', w) = DataOf(wire, w) \o DataOf(b, w)
      <4>1. DataOf(wire \o r, w) = DataOf(wire, w) \o DataOf(r, w)
        BY <1>1, <1>2, DataBehind, Zenon
      <4> QED BY <1>1, <1>4, <4>1
    <3>5. DataOf(buf'[w], w) = <<>>
      <4>1. Fresh(w) \in Seq(Byte) /\ DataOf(Fresh(w), w) = <<>>
        BY FreshPure
      <4> QED BY <1>2, <4>1
    <3>6. DataOf(wire', w) \o <<>> = DataOf(wire', w)
      <4>1. DataOf(wire, w) \in Seq(Byte) /\ DataOf(b, w) \in Seq(Byte)
        BY <1>2, DataBehind, Zenon
      <4>2. \A x, y \in Seq(Byte) : (x \o y) \o <<>> = x \o y
        OBVIOUS
      <4> QED BY <3>4, <4>1, <4>2
    <3>7. DataOf(wire', w) \o DataOf(buf'[w], w) = [k \in 1..given'[w] |-> Data(w, k)]
      BY <3>4, <3>5, <3>6 DEF Given
    <3>8. ~rawWrite'[w] => \A p \in DOMAIN buf'[w] :
                             buf'[w][p] \in (IF p <= HeaderLen THEN {Room} ELSE DataBytes(w))
      BY <3>2
    <3>9. ~rawWrite'[w]
      OBVIOUS
    <3> QED BY <2>1, <3>3, <3>7, <3>8, <3>9
  <2>2. CASE v # w
    <3>1. buf'[v] = buf[v] /\ isAnythingWritten'[v] = isAnythingWritten[v] /\ given'[v] = given[v]
      BY <1>2, <2>2
    <3>2. Has(wire', DataBytes(v)) <=> Has(wire, DataBytes(v))
      BY <1>1, <1>5, <2>2
    <3>3. DataOf(wire', v) = DataOf(wire, v)
      <4>1. DataOf(wire \o r, v) = DataOf(wire, v) \o DataOf(r, v) /\ DataOf(wire, v) \in Seq(Byte)
        BY <1>1, <1>2, DataBehind, Zenon
      <4>2. DataOf(r, v) = <<>>
        BY <1>1, <2>2, HasNone DEF DataOf
      <4>3. DataOf(wire, v) \o <<>> = DataOf(wire, v)
        BY <4>1
      <4> QED BY <1>4, <4>1, <4>2, <4>3
    <3>4. ~Closing(v)' /\ ~Closing(v)
      BY DEF Pending, Closing
    <3> QED BY <3>1, <3>2, <3>3, <3>4 DEF Content
  <2> QED BY <2>1, <2>2
<1> QED BY <1>7, <1>8, <1>9

\* What the application gives goes on where the last one ended.
LEMMA GivenMore ==
    ASSUME NEW w \in Writers, NEW n \in Nat, NEW m \in Nat, NEW s \in Seq(Byte), NEW x \in Seq(Byte),
           Given(w, s, n), Len(x) = m, \A k \in 1..m : x[k] = Data(w, n + k)
    PROVE  Given(w, s \o x, n + m)
<1> DEFINE g == [k \in 1..(n + m) |-> Data(w, k)]
           u == s \o x
<1>1. Len(s) = n /\ \A k \in 1..n : s[k] = Data(w, k)
  BY DEF Given
<1>2. u \in Seq(Byte) /\ Len(u) = n + m
  BY <1>1, BehindBytes
<1>3. /\ \A k \in 1..n : u[k] = s[k]
      /\ \A k \in 1..m : u[n + k] = x[k]
  BY <1>1, BehindBytes
<1>4. DOMAIN u = 1..(n + m)
  <2> HIDE DEF u
  <2> QED BY <1>2, LenProperties
<1>5. \A k \in 1..(n + m) : u[k] = g[k]
  <2> SUFFICES ASSUME NEW k \in 1..(n + m) PROVE u[k] = Data(w, k)
    OBVIOUS
  <2> HIDE DEF u
  <2>1. CASE k <= n
    BY <1>1, <1>3, <2>1
  <2>2. CASE k > n
    <3>1. k - n \in 1..m /\ n + (k - n) = k
      BY <2>2
    <3> QED BY <1>3, <3>1
  <2> QED BY <2>1, <2>2
<1>6. u = g
  <2>1. DOMAIN g = 1..(n + m)
    OBVIOUS
  <2>2. u = [k \in DOMAIN u |-> u[k]]
    <3> HIDE DEF u
    <3>1. u = [k \in 1..Len(u) |-> u[k]]
      BY <1>2
    <3> QED BY <1>2, <1>4, <3>1
  <2> HIDE DEF u
  <2> QED BY <1>4, <1>5, <2>1, <2>2
<1> QED BY <1>6 DEF Given

\* The buffer filled with a string of the application.
LEMMA FilledData ==
    ASSUME NEW w \in Writers, Inv, Strings, Content, busy = w, stage = "put", ~rawWrite[w],
           Count(w, Part(w))
    PROVE  /\ Unsealed(w, Filled(w))
           /\ Given(w, DataOf(wire, w) \o DataOf(Filled(w), w), given'[w])
           /\ \A v \in Writers \ {w} : given'[v] = given[v]
<1> DEFINE x == SubSeq(todo, 1, Part(w))
           m == Part(w)
           n == given[w]
           b == buf[w]
<1>1. /\ TypeOK /\ Buffers /\ n \in Nat /\ given \in [Writers -> Nat] /\ wire \in Seq(Byte)
      /\ b \in Seq(Byte) /\ Len(b) \in Nat /\ 8 <= Len(b) /\ DOMAIN b = 1..Len(b) /\ todo \in Seq(Byte)
  BY LenProperties DEF Inv, TypeOK, Buffers
<1>2. m \in Nat /\ m <= Len(todo) /\ Len(todo) \in Nat /\ todo = NextData(w, Len(todo))
  BY FilledPure DEF Strings
<1>3. /\ x \in Seq(Byte) /\ Len(x) = m /\ \A k \in 1..m : x[k] = Data(w, n + k)
  <2>1. 1 \in Nat /\ m \in Nat /\ 1 <= 1 /\ 1 <= m + 1 /\ m <= Len(todo) /\ m + 1 - 1 = m
    BY <1>2
  <2>2. /\ x \in Seq(Byte) /\ Len(x) = m
        /\ \A k \in 1..m : x[k] = todo[1 + k - 1] /\ 1 + k - 1 \in DOMAIN todo
    BY <1>1, <2>1, PartOf
  <2>3. \A k \in 1..m : 1 + k - 1 = k
    BY <1>2
  <2>4. \A k \in 1..Len(todo) : todo[k] = Data(w, n + k)
    <3> DEFINE l == Len(todo)
    <3>1. todo = [k \in 1..l |-> Data(w, given[w] + k)]
      BY <1>2 DEF NextData
    <3> HIDE DEF l
    <3>2. \A k \in 1..l : [i \in 1..l |-> Data(w, given[w] + i)][k] = Data(w, given[w] + k)
      OBVIOUS
    <3> QED BY <3>1, <3>2 DEF l
  <2>5. \A k \in 1..m : k \in 1..Len(todo)
    BY <1>2
  <2> HIDE DEF x, n
  <2> QED BY <2>2, <2>3, <2>4, <2>5
<1>4. Filled(w) = b \o x
  BY DEF Filled
<1> HIDE DEF x
<1>5. \A k \in 1..m : x[k] \in DataBytes(w)
  <2>1. \A k \in 1..m : n + k \in Nat
    BY <1>1, <1>2
  <2>2. \A j \in Nat : Data(w, j) \in DataBytes(w)
    BY DEF Data, DataBytes
  <2> HIDE DEF n, m
  <2> QED BY <1>3, <2>1, <2>2
<1>6. Unsealed(w, b \o x)
  <2>1. /\ Len(b \o x) = Len(b) + m
        /\ \A i \in 1..Len(b) : (b \o x)[i] = b[i]
        /\ \A i \in 1..m : (b \o x)[Len(b) + i] = x[i]
        /\ b \o x \in Seq(Byte)
    <3> HIDE DEF b, m
    <3> QED BY <1>1, <1>3, BehindBytes, Zenon
  <2>2. \A p \in DOMAIN b : b[p] \in (IF p <= HeaderLen THEN {Room} ELSE DataBytes(w))
    BY DEF Content
  <2> DEFINE f == b \o x
  <2>3. /\ Len(f) = Len(b) + m /\ DOMAIN f = 1..(Len(b) + m)
        /\ \A i \in 1..Len(b) : f[i] = b[i]
        /\ \A i \in 1..m : f[Len(b) + i] = x[i]
    BY <2>1, LenProperties
  <2> HIDE DEF f, b, m
  <2>4. ASSUME NEW p \in DOMAIN f PROVE f[p] \in (IF p <= HeaderLen THEN {Room} ELSE DataBytes(w))
    <3>1. p \in 1..(Len(b) + m) /\ m \in Nat
      BY <1>2, <2>3
    <3>2. CASE p <= Len(b)
      <4>1. p \in DOMAIN b
        BY <1>1, <3>1, <3>2
      <4>2. f[p] = b[p]
        BY <1>1, <2>3, <4>1
      <4> QED BY <2>2, <4>1, <4>2
    <3>3. CASE p > Len(b)
      <4>1. p - Len(b) \in 1..m /\ Len(b) + (p - Len(b)) = p
        BY <1>1, <3>1, <3>3
      <4>2. f[p] \in DataBytes(w)
        BY <1>5, <2>3, <4>1
      <4>3. ~(p <= HeaderLen)
        BY <1>1, <3>1, <3>3 DEF HeaderLen
      <4> QED BY <4>2, <4>3
    <3> QED BY <1>1, <3>1, <3>2, <3>3
  <2>5. 8 <= Len(f)
    BY <1>1, <1>2, <2>3 DEF m
  <2> QED BY <2>4, <2>5 DEF Unsealed, f
<1>7. DataOf(x, w) = x
  <2>1. DOMAIN x = 1..m
    BY <1>3
  <2> QED BY <1>3, <1>5, <2>1, SelectedAll DEF DataOf
<1>8. DataOf(b \o x, w) = DataOf(b, w) \o x
  <2> HIDE DEF b
  <2>1. b \in Seq(Byte) /\ x \in Seq(Byte)
    BY <1>1, <1>3
  <2>2. DataOf(b \o x, w) = DataOf(b, w) \o DataOf(x, w)
    BY <2>1, DataBehind, Zenon
  <2> QED BY <1>7, <2>2, Zenon
<1>9. Given(w, DataOf(wire, w) \o DataOf(b, w), n)
  BY DEF Content, Given
<1>10. DataOf(wire, w) \in Seq(Byte) /\ DataOf(b, w) \in Seq(Byte)
  BY <1>1, DataBehind, Zenon
<1>11. Given(w, DataOf(wire, w) \o DataOf(b \o x, w), n + m)
  <2> DEFINE d == DataOf(wire, w)
             e == DataOf(b, w)
  <2> HIDE DEF d, e, n, m, b
  <2>1. d \o e \in Seq(Byte) /\ d \in Seq(Byte) /\ e \in Seq(Byte)
    BY <1>10, BehindBytes DEF d, e
  <2>2. Given(w, (d \o e) \o x, n + m)
    BY <1>1, <1>2, <1>3, <1>9, <2>1, GivenMore DEF d, e
  <2>3. (d \o e) \o x = d \o (e \o x)
    BY <1>3, <2>1
  <2> QED BY <1>8, <2>2, <2>3 DEF d, e
<1>12. given' = [given EXCEPT ![w] = @ + Part(w)]
  BY DEF Count
<1>13. given'[w] = n + m /\ \A v \in Writers \ {w} : given'[v] = given[v]
  BY <1>1, <1>12
<1> HIDE DEF b, n, m
<1> QED BY <1>4, <1>6, <1>11, <1>13

-----------------------------------------------------------------------------
(* Without an error: what goes out.                                         *)

LEMMA OrderlyNext == Orderly(Sent)' <=> Orderly(Sent')
BY DEF Orderly, WellFormed, AtMostOne, Places, Starts, RecordAt

\* Without an error all of b is written.
LEMMA WriteSucceeds ==
    ASSUME NEW w \in Writers, TypeOK, NoError', NEW b \in Seq(Byte), WriteAll(w, b)
    PROVE  wire' = wire \o b /\ buf' = [buf EXCEPT ![w] = Fresh(w)]
<1>1. CASE FCGI_errno' = [FCGI_errno EXCEPT ![w] = TRUE]
  <2>1. FCGI_errno'[w]
    BY <1>1 DEF TypeOK
  <2> QED BY <2>1 DEF NoError, Failed
<1> QED BY <1>1, WriteAllAdds

LEMMA CutInTwo ==
    ASSUME NEW s \in Seq(Byte), NEW i \in Nat, i <= Len(s)
    PROVE  s = SubSeq(s, 1, i) \o SubSeq(s, i + 1, Len(s))
<1>1. Len(s) \in Nat
  BY LenProperties
<1>2. 1 \in 1..Len(s) + 1 /\ i \in 1 - 1..Len(s) /\ Len(s) \in i..Len(s)
  BY <1>1
<1>3. SubSeq(s, 1, i) \o SubSeq(s, i + 1, Len(s)) = SubSeq(s, 1, Len(s))
  BY <1>2, ConcatAdjacentSubSeq
<1>4. SubSeq(s, 1, Len(s)) = s
  BY SubSeqFull
<1> QED BY <1>3, <1>4

\* Close records go out: the content of the buffer with them.
LEMMA RawOut ==
    ASSUME NEW w \in Writers, TypeOK, Content, rawWrite[w], NEW b \in Seq(Byte), Pure(b, w),
           DataOf(b, w) = DataOf(buf[w], w),
           wire' = wire \o b, buf' = [buf EXCEPT ![w] = <<>>],
           isAnythingWritten' = [isAnythingWritten EXCEPT ![w] = @ \/ b # <<>>],
           UNCHANGED <<rawWrite, given>>,
           \A v \in Writers \ {w} : Closing(v)' <=> Closing(v)
    PROVE  Content'
<1>1. /\ wire \in Seq(Byte) /\ buf \in [Writers -> Seq(Byte)]
      /\ isAnythingWritten \in [Writers -> BOOLEAN] /\ given \in [Writers -> Nat]
  BY DEF TypeOK
<1>2. \A v \in Writers : /\ DataOf(wire', v) = DataOf(wire, v) \o DataOf(b, v)
                         /\ DataOf(wire, v) \in Seq(Byte) /\ DataOf(b, v) \in Seq(Byte)
  <2>1. \A v \in Writers : /\ DataOf(wire \o b, v) = DataOf(wire, v) \o DataOf(b, v)
                           /\ DataOf(wire, v) \in Seq(Byte) /\ DataOf(b, v) \in Seq(Byte)
    BY <1>1, DataBehind, Zenon
  <2> QED BY <2>1
<1>3. \A v \in Writers : Has(wire', DataBytes(v)) <=> Has(wire, DataBytes(v)) \/ Has(b, DataBytes(v))
  BY <1>1, HasBehind
<1> SUFFICES ASSUME NEW v \in Writers
             PROVE  /\ ~rawWrite'[v] => \A p \in DOMAIN buf'[v] :
                           buf'[v][p] \in (IF p <= HeaderLen THEN {Room} ELSE DataBytes(v))
                    /\ rawWrite'[v] /\ ~Closing(v)' => buf'[v] = <<>>
                    /\ ~isAnythingWritten'[v] => ~Has(wire', DataBytes(v))
                    /\ DataOf(wire', v) \o DataOf(buf'[v], v) = [k \in 1..given'[v] |-> Data(v, k)]
  BY DEF Content, DataOf
<1>4. CASE v = w
  <2>1. buf'[w] = <<>> /\ rawWrite'[w] /\ given' = given
    BY <1>1
  <2>2. ~isAnythingWritten'[w] => ~Has(wire', DataBytes(w))
    <3>1. ~isAnythingWritten'[w] => ~isAnythingWritten[w] /\ b = <<>>
      BY <1>1
    <3> QED BY <1>3, <3>1, NothingIsOrderly DEF Content
  <2>3. DataOf(wire', w) \o DataOf(<<>>, w) = DataOf(wire, w) \o DataOf(buf[w], w)
    <3>1. DataOf(<<>>, w) = <<>>
      BY NothingIsOrderly
    <3>2. \A x, y \in Seq(Byte) : (x \o y) \o <<>> = x \o y
      OBVIOUS
    <3>3. (DataOf(wire, w) \o DataOf(b, w)) \o <<>> = DataOf(wire, w) \o DataOf(b, w)
      BY <1>2, <3>2, Zenon
    <3>4. DataOf(wire', w) = DataOf(wire, w) \o DataOf(b, w)
      BY <1>2
    <3> QED BY <3>1, <3>3, <3>4, Zenon
  <2>4. DataOf(wire', w) \o DataOf(buf'[w], w) = [k \in 1..given'[w] |-> Data(w, k)]
    BY <2>1, <2>3 DEF Content
  <2> QED BY <1>4, <2>1, <2>2, <2>4
<1>5. CASE v # w
  <2>1. buf'[v] = buf[v] /\ isAnythingWritten'[v] = isAnythingWritten[v] /\ given'[v] = given[v]
    BY <1>1, <1>5
  <2>2. ~Has(b, DataBytes(v))
    BY <1>5, PureHas
  <2>3. DataOf(wire', v) = DataOf(wire, v)
    <3>1. DataOf(b, v) = <<>>
      BY <2>2, HasNone DEF DataOf
    <3>2. \A x \in Seq(Byte) : x \o <<>> = x
      OBVIOUS
    <3> QED BY <1>2, <3>1, <3>2
  <2>4. Closing(v)' <=> Closing(v)
    BY <1>5
  <2> QED BY <1>3, <2>1, <2>2, <2>3, <2>4 DEF Content
<1> QED BY <1>4, <1>5

\* A buffer in raw mode changes, its content does not.
LEMMA RawBuffer ==
    ASSUME NEW w \in Writers, TypeOK, Content, NEW b \in Seq(Byte), DataOf(b, w) = DataOf(buf[w], w),
           buf' = [buf EXCEPT ![w] = b], rawWrite'[w], Closing(w)',
           UNCHANGED <<wire, isAnythingWritten, given>>,
           \A v \in Writers \ {w} : (Closing(v)' <=> Closing(v)) /\ rawWrite'[v] = rawWrite[v]
    PROVE  Content'
<1>1. buf \in [Writers -> Seq(Byte)]
  BY DEF TypeOK
<1> SUFFICES ASSUME NEW v \in Writers
             PROVE  /\ ~rawWrite'[v] => \A p \in DOMAIN buf'[v] :
                           buf'[v][p] \in (IF p <= HeaderLen THEN {Room} ELSE DataBytes(v))
                    /\ rawWrite'[v] /\ ~Closing(v)' => buf'[v] = <<>>
                    /\ ~isAnythingWritten'[v] => ~Has(wire', DataBytes(v))
                    /\ DataOf(wire', v) \o DataOf(buf'[v], v) = [k \in 1..given'[v] |-> Data(v, k)]
  BY DEF Content, DataOf
<1>2. CASE v = w
  <2>1. buf'[w] = b
    BY <1>1
  <2>2. /\ ~isAnythingWritten[w] => ~Has(wire, DataBytes(w))
        /\ DataOf(wire, w) \o DataOf(buf[w], w) = [k \in 1..given[w] |-> Data(w, k)]
    BY DEF Content
  <2>3. DataOf(wire', w) \o DataOf(buf'[w], w) = [k \in 1..given'[w] |-> Data(w, k)]
    BY <2>1, <2>2
  <2> QED BY <1>2, <2>2, <2>3
<1>3. CASE v # w
  <2>1. buf'[v] = buf[v] /\ rawWrite'[v] = rawWrite[v]
    BY <1>1, <1>3
  <2>2. Closing(v)' <=> Closing(v)
    BY <1>3
  <2> QED BY <2>1, <2>2 DEF Content
<1> QED BY <1>2, <1>3

-----------------------------------------------------------------------------
(* Without an error: each step.                                             *)

LEMMA AppFlushClean ==
    ASSUME NEW w \in Writers, Inv, Closed, NoError', Cleanly, AppFlush(w)
    PROVE  Cleanly'
<1>1. /\ TypeOK /\ Buffers /\ buf[w] \in Seq(Byte) /\ Len(buf[w]) \in Nat
      /\ Len(buf[w]) <= Len(buf[w]) /\ Len(buf[w]) <= stop[w]
  <2>1. TypeOK /\ Buffers
    BY DEF Inv
  <2>2. buf[w] \in Seq(Byte)
    BY <2>1 DEF TypeOK
  <2>3. Len(buf[w]) \in Nat
    BY <2>2, LenProperties
  <2>4. Len(buf[w]) <= stop[w]
    BY <2>1 DEF Buffers
  <2> QED BY <2>1, <2>2, <2>3, <2>4
<1>2. /\ busy = "none" /\ busy' = "none" /\ ~isClosed[w] /\ WriteAll(w, Sealed(w, buf[w]))
      /\ isAnythingWritten' = [isAnythingWritten EXCEPT ![w] = @ \/ Sealed(w, buf[w]) # <<>>]
      /\ UNCHANGED <<rawWrite, nWriters, given>>
  BY DEF AppFlush, Idle, EmptyBuff, call
<1>3. ~rawWrite[w] /\ ~Pending /\ ~Pending'
  BY <1>2 DEF Closed, Closing, Pending, Writers
<1>4. Sealed(w, buf[w]) \in Seq(Byte)
  BY <1>1, SealedIsBytes
<1>5. wire' = wire \o Sealed(w, buf[w]) /\ buf' = [buf EXCEPT ![w] = Fresh(w)]
  BY <1>1, <1>2, <1>4, WriteSucceeds
<1>6. Unsealed(w, buf[w])
  BY <1>1, <1>3 DEF Unsealed, Cleanly, Content, Buffers
<1>7. Given(w, DataOf(wire, w) \o DataOf(buf[w], w), given'[w])
  BY <1>2 DEF Given, Cleanly, Content
<1> QED BY <1>1, <1>2, <1>3, <1>5, <1>6, <1>7, RecordOut DEF Cleanly

LEMMA PutMoreClean ==
    ASSUME NEW w \in Writers, Inv, Strings, Closed, NoError', Cleanly, PutMore(w)
    PROVE  Cleanly'
<1>1. /\ TypeOK /\ Buffers /\ Mode /\ buf[w] \in Seq(Byte) /\ wire \in Seq(Byte) /\ todo \in Seq(Byte)
      /\ rawWrite[w] \in BOOLEAN /\ buf \in [Writers -> Seq(Byte)]
  BY DEF Inv, TypeOK
<1>2. /\ busy = w /\ busy' = w /\ stage' = stage /\ stage \in {"put", "eof", "end"}
      /\ ~isClosed[w] /\ WriteAll(w, Sealed(w, Filled(w))) /\ Count(w, Part(w))
      /\ isAnythingWritten' = [isAnythingWritten EXCEPT ![w] = @ \/ Sealed(w, Filled(w)) # <<>>]
      /\ todo' = SubSeq(todo, Part(w) + 1, Len(todo))
      /\ UNCHANGED <<rawWrite, nWriters>>
  BY DEF PutMore, EmptyBuff
<1>3. /\ Filled(w) \in Seq(Byte) /\ Pure(Filled(w), w)
      /\ Part(w) \in Nat /\ Part(w) <= Len(todo) /\ Len(todo) \in Nat
      /\ SubSeq(todo, 1, Part(w)) \in Seq(Byte)
      /\ SubSeq(todo, Part(w) + 1, Len(todo)) \in Seq(Byte)
  BY <1>2, FilledPure
<1>4. wire' = wire \o Sealed(w, Filled(w)) /\ buf' = [buf EXCEPT ![w] = Fresh(w)]
  <2>1. Sealed(w, Filled(w)) \in Seq(Byte)
    BY <1>1, <1>3, FilledFits, SealedIsBytes
  <2> QED BY <1>1, <1>2, <2>1, WriteSucceeds
<1>5. CASE stage = "put"
  <2>1. ~rawWrite[w] /\ ~Pending /\ ~Pending'
    BY <1>2, <1>5 DEF Closed, Closing, Pending
  <2>2. /\ Unsealed(w, Filled(w))
        /\ Given(w, DataOf(wire, w) \o DataOf(Filled(w), w), given'[w])
        /\ \A v \in Writers \ {w} : given'[v] = given[v]
    BY <1>2, <1>5, <2>1, FilledData DEF Cleanly
  <2> QED BY <1>2, <1>3, <1>4, <2>1, <2>2, RecordOut DEF Cleanly
<1>6. CASE stage # "put"
  <2> DEFINE x == SubSeq(todo, 1, Part(w))
             y == SubSeq(todo, Part(w) + 1, Len(todo))
             b == buf[w]
  <2>1. rawWrite[w] /\ Pending /\ Pending'
    BY <1>1, <1>2, <1>6 DEF Mode, Closing, Pending
  <2>2. Sealed(w, Filled(w)) = b \o x /\ Filled(w) = b \o x
    BY <2>1 DEF Sealed, Filled
  <2>3. todo = x \o y
    BY <1>1, <1>3, CutInTwo
  <2>4. buf' = [buf EXCEPT ![w] = <<>>] /\ buf'[w] = <<>>
    BY <1>1, <1>4, <2>1 DEF Fresh
  <2>5. wire' = wire \o (b \o x) /\ todo' = y
    BY <1>2, <1>4, <2>2
  <2>6. DataOf(b \o x, w) = DataOf(b, w)
    <3>1. ~Has(x, DataBytes(w))
      <4>1. 1 \in Nat /\ 1 <= 1 /\ 1 <= Part(w) + 1
        BY <1>3
      <4>2. ~Has(todo, DataBytes(w))
        BY <1>2, <1>6 DEF Strings
      <4> QED BY <1>1, <1>3, <4>1, <4>2, PartHas
    <3>2. DataOf(x, w) = <<>>
      BY <1>3, <3>1, HasNone DEF DataOf
    <3> HIDE DEF x, b
    <3>3. DataOf(b \o x, w) = DataOf(b, w) \o DataOf(x, w) /\ DataOf(b, w) \in Seq(Byte)
      BY <1>1, <1>3, DataBehind, Zenon DEF x, b
    <3>4. \A s \in Seq(Byte) : s \o <<>> = s
      OBVIOUS
    <3> QED BY <3>2, <3>3, <3>4
  <2>7. x \in Seq(Byte) /\ y \in Seq(Byte) /\ b \in Seq(Byte) /\ b \o x \in Seq(Byte) /\ Pure(b \o x, w)
    BY <1>1, <1>3, <2>2
  <2> HIDE DEF x, y, b
  <2>8. Sent' = Sent
    <3>1. Sent = wire \o (b \o (x \o y))
      BY <1>2, <2>1, <2>3 DEF Sent, b
    <3>2. Sent' = (wire \o (b \o x)) \o y
      <4>1. Sent' = (wire \o (b \o x)) \o (<<>> \o y)
        BY <1>2, <2>1, <2>4, <2>5 DEF Sent
      <4>2. <<>> \o y = y
        BY <2>7
      <4> QED BY <4>1, <4>2
    <3>3. wire \in Seq(Byte)
      BY <1>1
    <3>4. (wire \o (b \o x)) \o y = wire \o (b \o (x \o y))
      <4>1. b \o x \in Seq(Byte) /\ x \in Seq(Byte) /\ y \in Seq(Byte) /\ b \in Seq(Byte)
        BY ONLY <2>7
      <4>2. (b \o x) \o y = b \o (x \o y)
        BY ONLY <4>1, ConcatAssociative
      <4>3. (wire \o (b \o x)) \o y = wire \o ((b \o x) \o y)
        <5> DEFINE v == b \o x
        <5>1. wire \in Seq(Byte) /\ v \in Seq(Byte) /\ y \in Seq(Byte)
          BY ONLY <3>3, <4>1
        <5> HIDE DEF v
        <5>2. (wire \o v) \o y = wire \o (v \o y)
          BY ONLY <5>1, ConcatAssociative
        <5> QED BY ONLY <5>2 DEF v
      <4> QED BY ONLY <4>2, <4>3
    <3> QED BY <3>1, <3>2, <3>4, Zenon
  <2>9. Orderly(Sent)'
    BY <2>8, OrderlyNext DEF Cleanly
  <2>10. Ends'
    BY <1>2, <2>1, <2>8 DEF Ends, Cleanly
  <2>11. Content'
    <3>1. given' = given /\ \A v \in Writers \ {w} : Closing(v)' <=> Closing(v)
      BY <1>2, <1>6 DEF Count, Closing
    <3>2. isAnythingWritten' = [isAnythingWritten EXCEPT ![w] = @ \/ (b \o x) # <<>>]
      BY <1>2, <2>2
    <3>3. DataOf(b \o x, w) = DataOf(buf[w], w)
      BY <2>6 DEF b
    <3> QED BY <1>1, <1>2, <2>1, <2>4, <2>5, <2>7, <3>1, <3>2, <3>3, RawOut DEF Cleanly
  <2> QED BY <2>9, <2>10, <2>11 DEF Cleanly
<1> QED BY <1>5, <1>6

\* A call of FCGX_PutStr ends.
LEMMA PutEndsClean ==
    ASSUME NEW w \in Writers, Inv, Strings, Closed, NoError, Cleanly, PutLast(w) \/ PutFails(w)
    PROVE  Cleanly'
<1> DEFINE b == buf[w]
           n == nWriters
<1>1. /\ TypeOK /\ Buffers /\ Mode /\ b \in Seq(Byte) /\ wire \in Seq(Byte) /\ todo \in Seq(Byte)
      /\ rawWrite[w] \in BOOLEAN /\ buf \in [Writers -> Seq(Byte)] /\ n \in 0..2
      /\ given \in [Writers -> Nat] /\ stop[w] \in Nat
  BY DEF Inv, TypeOK
<1>2. /\ busy = w /\ stage \in {"put", "eof", "end"} /\ Count(w, Part(w)) /\ AfterPut(w)
      /\ buf' = [buf EXCEPT ![w] = Filled(w)]
      /\ UNCHANGED <<rawWrite, isAnythingWritten, wire>>
  BY DEF PutLast, PutFails
<1>3. Filled(w) \in Seq(Byte) /\ Part(w) \in Nat /\ Part(w) <= Len(todo) /\ Len(todo) \in Nat
  BY <1>2, FilledPure
<1>4. buf'[w] = Filled(w) /\ \A v \in Writers \ {w} : buf'[v] = buf[v]
  BY <1>1, <1>2
<1>5. CASE stage = "put"
  <2>1. busy' = "none" /\ stage' = "put" /\ nWriters' = nWriters
    BY <1>2, <1>5 DEF AfterPut
  <2>2. ~Pending /\ ~Pending' /\ Sent = wire /\ Sent' = wire'
    BY <1>5, <2>1 DEF Pending, Sent, Writers
  <2>3. Sent' = Sent
    BY <1>2, <2>2
  <2>4. Orderly(Sent)'
    BY <2>3, OrderlyNext DEF Cleanly
  <2>5. Ends'
    BY <1>2, <2>1, <2>2, <2>3 DEF Ends, Cleanly
  <2>6. /\ ~rawWrite[w] => Unsealed(w, Filled(w))
        /\ rawWrite[w] => Filled(w) = <<>>
        /\ Given(w, DataOf(wire, w) \o DataOf(Filled(w), w), given'[w])
        /\ \A v \in Writers \ {w} : given'[v] = given[v]
    <3>1. CASE ~rawWrite[w]
      <4>1. /\ Unsealed(w, Filled(w))
            /\ Given(w, DataOf(wire, w) \o DataOf(Filled(w), w), given'[w])
            /\ \A v \in Writers \ {w} : given'[v] = given[v]
        BY <1>2, <1>5, <3>1, FilledData DEF Cleanly
      <4> QED BY <3>1, <4>1
    <3>2. CASE rawWrite[w]
      <4>1. ~Closing(w) /\ wasFCloseCalled[w] /\ stop[w] = Len(b) /\ b = <<>>
        BY <1>5, <3>2 DEF Closing, Closed, Cleanly, Content
      <4>2. stop[w] = 0
        BY <4>1
      <4>3. Part(w) = 0
        <5>1. Len(buf[w]) = 0
          BY <4>1
        <5> QED BY <1>3, <4>2, <5>1 DEF Part, Space, Smaller
      <4>4. Filled(w) = <<>>
        <5>1. SubSeq(todo, 1, 0) = <<>>
          BY <1>1, SubSeqEmpty
        <5> QED BY <4>1, <4>3, <5>1 DEF Filled
      <4>5. given' = [given EXCEPT ![w] = @ + 0]
        BY <1>2, <1>5, <4>3 DEF Count
      <4>6. given'[w] = given[w] /\ \A v \in Writers \ {w} : given'[v] = given[v]
        BY <1>1, <4>5
      <4>7. Given(w, DataOf(wire, w) \o DataOf(b, w), given[w])
        BY DEF Cleanly, Content, Given
      <4> QED BY <3>2, <4>1, <4>4, <4>6, <4>7
    <3> QED BY <3>1, <3>2
  <2>7. Content'
    <3> SUFFICES ASSUME NEW v \in Writers
                 PROVE  /\ ~rawWrite'[v] => \A p \in DOMAIN buf'[v] :
                               buf'[v][p] \in (IF p <= HeaderLen THEN {Room} ELSE DataBytes(v))
                        /\ rawWrite'[v] /\ ~Closing(v)' => buf'[v] = <<>>
                        /\ ~isAnythingWritten'[v] => ~Has(wire', DataBytes(v))
                        /\ DataOf(wire', v) \o DataOf(buf'[v], v) = [k \in 1..given'[v] |-> Data(v, k)]
      BY DEF Content, DataOf
    <3>1. CASE v = w
      <4>1. /\ ~rawWrite'[w] => \A p \in DOMAIN buf'[w] :
                    buf'[w][p] \in (IF p <= HeaderLen THEN {Room} ELSE DataBytes(w))
            /\ rawWrite'[w] => buf'[w] = <<>>
        BY <1>2, <1>4, <2>6 DEF Unsealed
      <4>2. DataOf(wire', w) \o DataOf(buf'[w], w) = [k \in 1..given'[w] |-> Data(w, k)]
        BY <1>2, <1>4, <2>6 DEF Given
      <4>3. ~isAnythingWritten'[w] => ~Has(wire', DataBytes(w))
        BY <1>2 DEF Cleanly, Content
      <4> QED BY <3>1, <4>1, <4>2, <4>3
    <3>2. CASE v # w
      <4>1. buf'[v] = buf[v] /\ given'[v] = given[v] /\ rawWrite'[v] = rawWrite[v]
            /\ isAnythingWritten'[v] = isAnythingWritten[v] /\ wire' = wire
        BY <1>2, <1>4, <2>6, <3>2
      <4>2. ~Closing(v)' /\ ~Closing(v)
        BY <1>5, <2>1 DEF Closing
      <4> QED BY <4>1, <4>2 DEF Cleanly, Content
    <3> QED BY <3>1, <3>2
  <2> QED BY <2>4, <2>5, <2>7 DEF Cleanly
<1>6. CASE stage # "put"
  <2>1. Closing(w) /\ rawWrite[w] /\ ~wasFCloseCalled[w] /\ Pending
    BY <1>1, <1>2, <1>6 DEF Closing, Mode, Pending
  <2>2. Part(w) = Len(todo)
    <3>1. ~isClosed[w]
      BY <2>1 DEF Closed, NoError
    <3> QED BY <3>1 DEF PutLast, PutFails
  <2>3. Filled(w) = b \o todo
    <3>1. SubSeq(todo, 1, Len(todo)) = todo
      BY <1>1, SubSeqFull
    <3> QED BY <2>2, <3>1 DEF Filled
  <2>4. DataOf(Filled(w), w) = DataOf(b, w)
    <3>1. ~Has(todo, DataBytes(w))
      BY <1>2, <1>6 DEF Strings
    <3>2. DataOf(todo, w) = <<>>
      BY <1>1, <3>1, HasNone DEF DataOf
    <3>3. DataOf(b \o todo, w) = DataOf(b, w) \o DataOf(todo, w) /\ DataOf(b, w) \in Seq(Byte)
      <4> HIDE DEF b
      <4> QED BY <1>1, DataBehind, Zenon
    <3>4. \A s \in Seq(Byte) : s \o <<>> = s
      OBVIOUS
    <3> QED BY <2>3, <3>2, <3>3, <3>4
  <2>5. busy' = w /\ stage' # "put" /\ Closing(w)' /\ Pending'
    BY <1>2, <1>6 DEF AfterPut, Closing, Pending
  <2>6. Content'
    <3>1. given' = given /\ \A v \in Writers \ {w} : Closing(v)' <=> Closing(v)
      BY <1>2, <1>6, <2>5 DEF Count, Closing
    <3> QED BY <1>1, <1>2, <1>3, <2>1, <2>4, <2>5, <3>1, RawBuffer DEF Cleanly
  <2>7. n # 0
    <3>1. Counts(w)
      BY <1>2, <2>1 DEF Counts
    <3> QED BY <3>1 DEF Inv, Counted, Writers
  <2>8. Sent = wire \o (b \o todo) /\ Sent' = wire \o ((b \o todo) \o todo')
    BY <1>2, <1>4, <2>1, <2>3, <2>5 DEF Sent
  <2>9. Sent \in Seq(Byte)
    BY <1>1, <2>8
  <2> HIDE DEF b
  <2>10. CASE todo' = <<>>
    <3>1. Sent' = Sent
      <4>1. \A s, t \in Seq(Byte) : s \o (t \o <<>>) = s \o t
        OBVIOUS
      <4>2. b \o todo \in Seq(Byte)
        BY <1>1
      <4> QED BY <1>1, <2>8, <2>10, <4>1, <4>2
    <3>2. Orderly(Sent)'
      BY <3>1, OrderlyNext DEF Cleanly
    <3>3. Ends'
      <4>1. /\ Has(Sent, EndBytes) <=> (n = 0 \/ (stage = "end" /\ n = 1))
            /\ Has(Sent, EndBytes) => Sent[Len(Sent)] = Body(EndBodyLen)
        BY <2>1 DEF Cleanly, Ends
      <4>2. Has(Sent', EndBytes) <=> (nWriters' = 0 \/ (Pending' /\ stage' = "end" /\ nWriters' = 1))
        <5>1. CASE stage = "eof"
          <6>1. n # 1
            <7>1. EndRequest # <<>>
              BY EndRecord, NothingIsOrderly, Zenon
            <7>2. todo' = IF n = 1 THEN EndRequest ELSE <<>>
              BY <1>2, <5>1 DEF AfterPut
            <7> HIDE DEF n
            <7> QED BY <2>10, <7>1, <7>2
          <6>2. stage' = "end" /\ nWriters' = n
            BY <1>2, <5>1 DEF AfterPut
          <6> QED BY <3>1, <4>1, <5>1, <6>1, <6>2
        <5>2. CASE stage = "end"
          <6>1. stage' = "last" /\ nWriters' = n - 1
            BY <1>2, <5>2 DEF AfterPut
          <6> QED BY <1>1, <2>7, <3>1, <4>1, <5>2, <6>1
        <5> QED BY <1>2, <1>6, <5>1, <5>2
      <4>3. \A v \in Writers : /\ Has(Sent', EofBytes(v)) => rawWrite'[v]
                               /\ rawWrite'[v] => Has(Sent', EofBytes(v)) \/ (v = "err" /\ ~Has(Sent', DataBytes(v)))
        BY <1>2, <3>1 DEF Cleanly, Ends
      <4>4. Has(Sent', EndBytes) => Sent'[Len(Sent')] = Body(EndBodyLen)
        BY <3>1, <4>1
      <4> QED BY <4>2, <4>3, <4>4 DEF Ends
    <3> QED BY <2>6, <3>2, <3>3 DEF Cleanly
  <2>11. CASE todo' # <<>>
    <3>1. stage = "eof" /\ n = 1 /\ todo' = EndRequest /\ stage' = "end" /\ nWriters' = 1
      <4>1. stage = "eof"
        BY <1>2, <1>6, <2>11 DEF AfterPut
      <4> QED BY <1>2, <2>11, <4>1 DEF AfterPut
    <3>2. Sent' = Sent \o EndRequest
      <4>1. \A s, t, u \in Seq(Byte) : s \o (t \o u) = (s \o t) \o u
        OBVIOUS
      <4>2. b \o todo \in Seq(Byte) /\ EndRequest \in Seq(Byte)
        BY <1>1, EndRecord
      <4> QED BY <1>1, <2>8, <3>1, <4>1, <4>2
    <3>3. ~Has(Sent, EndBytes)
      BY <2>1, <3>1 DEF Cleanly, Ends
    <3>4. \A T : Has(Sent', T) <=> Has(Sent, T) \/ Has(EndRequest, T)
      BY <2>9, <3>2, EndRecord, HasBehind
    <3>5. Orderly(Sent)'
      <4>1. Orderly(Sent \o EndRequest)
        BY <2>9, <3>3, EndRecord, OrderlyBehind DEF Cleanly
      <4> QED BY <3>2, <4>1, OrderlyNext
    <3>6. Ends'
      <4>1. Has(Sent', EndBytes)
        BY <3>4, EndRecord
      <4>2. Sent'[Len(Sent')] = Body(EndBodyLen)
        <5>1. /\ Len(Sent \o EndRequest) = Len(Sent) + Len(EndRequest)
              /\ \A i \in 1..Len(EndRequest) : (Sent \o EndRequest)[Len(Sent) + i] = EndRequest[i]
          BY <2>9, EndRecord, BehindBytes, Zenon
        <5>2. Len(EndRequest) = 16 /\ EndRequest[16] = Body(EndBodyLen) /\ 16 \in 1..16
          BY EndRecord
        <5>3. (Sent \o EndRequest)[Len(Sent \o EndRequest)] = Body(EndBodyLen)
          BY <5>1, <5>2
        <5> QED BY <3>2, <5>3
      <4>3. \A v \in Writers : Has(Sent', EofBytes(v)) => rawWrite'[v]
        BY <1>2, <3>4, EndRecord DEF Cleanly, Ends
      <4>4. \A v \in Writers : rawWrite'[v] => Has(Sent', EofBytes(v)) \/ (v = "err" /\ ~Has(Sent', DataBytes(v)))
        BY <1>2, <3>4, EndRecord DEF Cleanly, Ends
      <4> QED BY <2>5, <3>1, <4>1, <4>2, <4>3, <4>4 DEF Ends
    <3> QED BY <2>6, <3>5, <3>6 DEF Cleanly
  <2> QED BY <2>10, <2>11
<1> QED BY <1>5, <1>6

\* FCGX_FClose begins.
LEMMA BeginCloseClean ==
    ASSUME NEW w \in Writers, Inv, Closed, Cleanly, busy = "none", ~wasFCloseCalled[w], BeginClose(w)
    PROVE  Cleanly'
<1> DEFINE b == Sealed(w, buf[w])
           e == MakeHeader(w, 0, 0)
           r == b \o todo'
<1>1. /\ TypeOK /\ Buffers /\ buf[w] \in Seq(Byte) /\ wire \in Seq(Byte)
      /\ rawWrite \in [Writers -> BOOLEAN] /\ buf \in [Writers -> Seq(Byte)] /\ nWriters \in 0..2
      /\ Len(buf[w]) \in Nat
  BY LenProperties DEF Inv, TypeOK
<1>2. /\ buf' = [buf EXCEPT ![w] = b] /\ busy' = w /\ stage' = "eof"
      /\ rawWrite' = [rawWrite EXCEPT ![w] = TRUE]
      /\ todo' = IF w = "err" /\ b = <<>> /\ ~isAnythingWritten[w] THEN <<>> ELSE e
      /\ UNCHANGED <<isAnythingWritten, nWriters, given, wire>>
  BY DEF BeginClose
<1>3. ~rawWrite[w] /\ ~Pending /\ Pending' /\ Closing(w)' /\ Sent = wire
  BY <1>2 DEF Closed, Closing, Pending, Sent, Writers
<1>4. Unsealed(w, buf[w])
  BY <1>1, <1>3 DEF Unsealed, Cleanly, Content, Buffers
<1>5. /\ b \in Seq(Byte) /\ Orderly(b) /\ ~Has(b, EndBytes)
      /\ \A v \in Writers : ~Has(b, EofBytes(v))
      /\ \A v \in Writers \ {w} : ~Has(b, DataBytes(v))
      /\ DataOf(b, w) = DataOf(buf[w], w)
  BY <1>1, <1>3, <1>4, SealedContent
<1>6. /\ e \in Seq(Byte) /\ Orderly(e) /\ ~Has(e, EndBytes)
      /\ \A v \in Writers : Has(e, EofBytes(v)) <=> v = w
      /\ \A v \in Writers : ~Has(e, DataBytes(v))
  BY EofHeader
<1> HIDE DEF b, e
<1>7. /\ todo' \in Seq(Byte) /\ Orderly(todo') /\ ~Has(todo', EndBytes)
      /\ \A v \in Writers : Has(todo', EofBytes(v)) => v = w
      /\ \A v \in Writers : ~Has(todo', DataBytes(v))
  <2>1. CASE todo' = <<>>
    BY <2>1, NothingIsOrderly
  <2>2. CASE todo' = e
    BY <1>6, <2>2
  <2> QED BY <1>2, <2>1, <2>2
<1>8. \A T : Has(r, T) <=> Has(b, T) \/ Has(todo', T)
  BY <1>5, <1>7, HasBehind
<1>9. r \in Seq(Byte) /\ Orderly(r)
  <2>1. r \in Seq(Byte)
    BY <1>5, <1>7
  <2>2. Orderly(b \o todo')
    BY <1>5, <1>7, OrderlyBehind
  <2> QED BY <2>1, <2>2
<1>10. Sent' = wire \o r
  <2>1. buf'[w] = b
    BY <1>1, <1>2
  <2> QED BY <1>2, <1>3, <2>1 DEF Sent
<1> HIDE DEF r
<1>11. \A T : Has(Sent', T) <=> Has(Sent, T) \/ Has(r, T)
  BY <1>1, <1>3, <1>9, <1>10, HasBehind
<1>12. /\ Has(Sent, EndBytes) <=> nWriters = 0
       /\ \A v \in Writers : Has(Sent, EofBytes(v)) => rawWrite[v]
       /\ \A v \in Writers : rawWrite[v] =>
              Has(Sent, EofBytes(v)) \/ (v = "err" /\ ~Has(Sent, DataBytes(v)))
  BY <1>3 DEF Cleanly, Ends
<1>13. nWriters # 0
  <2>1. Counts(w)
    BY DEF Counts, Writers
  <2> QED BY <2>1 DEF Inv, Counted, Writers
<1>14. ~Has(Sent, EofBytes(w))
  BY <1>3, <1>12
<1>15. Orderly(Sent)'
  <2>1. Orderly(wire)
    BY <1>3 DEF Cleanly
  <2>2. /\ ~(Has(wire, EndBytes) /\ Has(r, EndBytes))
        /\ \A v \in Writers : ~(Has(wire, EofBytes(v)) /\ Has(r, EofBytes(v)))
        /\ \A v \in Writers : ~(Has(wire, EofBytes(v)) /\ Has(r, DataBytes(v)))
    BY <1>3, <1>5, <1>7, <1>8, <1>14
  <2>3. Orderly(wire \o r)
    BY <1>1, <1>9, <2>1, <2>2, OrderlyBehind
  <2> QED BY <1>10, <2>3, OrderlyNext
<1>16. Ends'
  <2>1. ~Has(Sent', EndBytes) /\ nWriters' # 0 /\ stage' # "end"
    BY <1>2, <1>5, <1>7, <1>8, <1>11, <1>12, <1>13
  <2>2. \A v \in Writers : Has(Sent', EofBytes(v)) => rawWrite'[v]
    BY <1>1, <1>2, <1>5, <1>7, <1>8, <1>11, <1>12
  <2>3. ASSUME NEW v \in Writers, rawWrite'[v]
        PROVE  Has(Sent', EofBytes(v)) \/ (v = "err" /\ ~Has(Sent', DataBytes(v)))
    <3>1. CASE v # w
      <4>1. rawWrite[v] /\ ~Has(r, DataBytes(v))
        BY <1>1, <1>2, <1>5, <1>7, <1>8, <2>3, <3>1
      <4> QED BY <1>11, <1>12, <4>1
    <3>2. CASE v = w /\ todo' = e
      BY <1>6, <1>8, <1>11, <3>2
    <3>3. CASE v = w /\ todo' # e
      <4>1. w = "err" /\ b = <<>> /\ ~isAnythingWritten[w]
        BY <1>2, <3>3
      <4>2. ~Has(wire, DataBytes(w))
        BY <4>1 DEF Cleanly, Content
      <4>3. ~Has(r, DataBytes(w))
        BY <1>7, <1>8, <4>1, NothingIsOrderly
      <4> QED BY <1>3, <1>11, <3>3, <4>1, <4>2, <4>3
    <3> QED BY <3>1, <3>2, <3>3
  <2> QED BY <2>1, <2>2, <2>3 DEF Ends
<1>17. Content'
  <2>1. rawWrite'[w] /\ \A v \in Writers \ {w} : (Closing(v)' <=> Closing(v)) /\ rawWrite'[v] = rawWrite[v]
    BY <1>1, <1>2 DEF Closing, Writers
  <2> QED BY <1>1, <1>2, <1>3, <1>5, <2>1, RawBuffer DEF Cleanly
<1> QED BY <1>15, <1>16, <1>17 DEF Cleanly

\* FCGX_FClose ends.
LEMMA EndCloseClean ==
    ASSUME NEW w \in Writers, Inv, Strings, NoError', Cleanly, EndClose(w)
    PROVE  Cleanly'
<1> DEFINE b == buf[w]
<1>1. /\ TypeOK /\ Mode /\ b \in Seq(Byte) /\ wire \in Seq(Byte) /\ Pure(b, w)
  BY DEF Inv, TypeOK, Strings
<1>2. /\ busy = w /\ stage = "last" /\ stage' = stage /\ busy' = "none" /\ WriteAll(w, b) /\ todo = <<>>
      /\ isAnythingWritten' = [isAnythingWritten EXCEPT ![w] = @ \/ b # <<>>]
      /\ UNCHANGED <<rawWrite, nWriters, given>>
  BY DEF EndClose, Strings
<1>3. rawWrite[w] /\ Pending /\ ~Pending'
  BY <1>1, <1>2 DEF Mode, Closing, Pending, Writers
<1>4. wire' = wire \o b /\ buf' = [buf EXCEPT ![w] = <<>>]
  <2>1. buf' = [buf EXCEPT ![w] = Fresh(w)] /\ wire' = wire \o b
    BY <1>1, <1>2, WriteSucceeds
  <2> QED BY <1>3, <2>1 DEF Fresh
<1>5. Sent' = Sent
  <2>1. Sent = wire \o (b \o <<>>) /\ Sent' = wire'
    BY <1>2, <1>3 DEF Sent
  <2>2. b \o <<>> = b
    BY <1>1
  <2> QED BY <1>4, <2>1, <2>2
<1>6. Orderly(Sent)'
  BY <1>5, OrderlyNext DEF Cleanly
<1>7. Ends'
  <2>1. /\ Has(Sent, EndBytes) <=> nWriters = 0
        /\ \A v \in Writers : Has(Sent, EofBytes(v)) => rawWrite[v]
        /\ \A v \in Writers : rawWrite[v] =>
               Has(Sent, EofBytes(v)) \/ (v = "err" /\ ~Has(Sent, DataBytes(v)))
    BY <1>2 DEF Cleanly, Ends
  <2>2. stage' # "end" /\ nWriters' = nWriters /\ rawWrite' = rawWrite
    BY <1>2
  <2> QED BY <1>3, <1>5, <2>1, <2>2 DEF Ends
<1>8. Content'
  <2>1. \A v \in Writers \ {w} : Closing(v)' <=> Closing(v)
    BY <1>2 DEF Closing, Writers
  <2> QED BY <1>1, <1>2, <1>3, <1>4, <2>1, RawOut DEF Cleanly
<1> QED BY <1>6, <1>7, <1>8 DEF Cleanly

\* The steps that neither fill a buffer nor write one.
LEMMA OtherClean ==
    ASSUME NEW w \in Writers, Inv, Closed, Cleanly,
           \/ AppPut(w) \/ AppClear(w) \/ FinishNext(w) \/ ReaderAnswer \/ StartFinish \/ Finished
           \/ UNCHANGED vars
    PROVE  Cleanly'
<1>1. /\ UNCHANGED <<buf, rawWrite, isAnythingWritten, nWriters, given>>
      /\ \A v \in Writers : Closing(v)' <=> Closing(v)
  <2>1. CASE AppPut(w)
    BY <2>1 DEF AppPut, Idle, streams, Closing, Writers
  <2>2. CASE AppClear(w)
    BY <2>2 DEF AppClear, call, Closing
  <2>3. CASE FinishNext(w) \/ ReaderAnswer \/ StartFinish
    BY <2>3 DEF FinishNext, ReaderAnswer, StartFinish, streams, call, Closing
  <2>4. CASE Finished \/ UNCHANGED vars
    BY <2>4 DEF Finished, vars, streams, call, Closing
  <2> QED BY <2>1, <2>2, <2>3, <2>4
<1>2. CASE wire' = wire
  <2>1. Sent' = Sent /\ (Pending' <=> Pending) /\ (Pending => stage' = stage)
    <3>1. CASE AppPut(w)
      BY <3>1, <1>2 DEF AppPut, Idle, Sent, Pending, Writers
    <3>2. CASE AppClear(w) \/ FinishNext(w) \/ ReaderAnswer \/ StartFinish \/ Finished \/ UNCHANGED vars
      <4>1. UNCHANGED <<buf, busy, stage, todo, wire>>
        BY <1>1, <1>2, <3>2 DEF AppClear, FinishNext, ReaderAnswer, StartFinish, Finished, vars, call
      <4> QED BY <4>1 DEF Sent, Pending
    <3> QED BY <3>1, <3>2
  <2>2. Orderly(Sent)'
    BY <2>1, OrderlyNext DEF Cleanly
  <2>3. Ends'
    BY <1>1, <2>1 DEF Cleanly, Ends
  <2>4. Content'
    BY <1>1, <1>2 DEF Cleanly, Content
  <2> QED BY <2>2, <2>3, <2>4 DEF Cleanly
<1>3. CASE wire' # wire
  <2>1. /\ busy = "none" /\ busy' = "none"
        /\ wire' = wire \o MakeHeader("ANSWER", 8, 0) \o Times(8, <<"answer">>)
    <3>1. ReaderAnswer
      BY <1>3 DEF AppPut, AppClear, FinishNext, StartFinish, Finished, vars
    <3> QED BY <3>1 DEF ReaderAnswer, Idle, call
  <2>2. wire \in Seq(Byte)
    BY DEF Inv, TypeOK
  <2>3. PICK r \in Seq(Byte) : /\ wire' = wire \o r
                               /\ Orderly(r) /\ ~Has(r, EndBytes)
                               /\ \A v \in Writers : ~Has(r, EofBytes(v)) /\ ~Has(r, DataBytes(v))
    BY <2>1, <2>2, AnswerRecord
  <2>4. ~Pending /\ ~Pending' /\ Sent = wire /\ Sent' = wire'
    BY <2>1 DEF Pending, Sent, Writers
  <2>5. \A T : Has(wire', T) <=> Has(wire, T) \/ Has(r, T)
    BY <2>2, <2>3, HasBehind
  <2>6. Orderly(Sent)'
    <3>1. Orderly(wire \o r)
      BY <2>2, <2>3, <2>4, OrderlyBehind DEF Cleanly
    <3> QED BY <2>3, <2>4, <3>1, OrderlyNext
  <2>7. Ends'
    <3>1. /\ Has(wire, EndBytes) <=> nWriters = 0
          /\ \A v \in Writers : Has(wire, EofBytes(v)) => rawWrite[v]
          /\ \A v \in Writers : rawWrite[v] =>
                 Has(wire, EofBytes(v)) \/ (v = "err" /\ ~Has(wire, DataBytes(v)))
      BY <2>4 DEF Cleanly, Ends
    <3>2. /\ Has(wire', EndBytes) <=> nWriters' = 0
          /\ \A v \in Writers : Has(wire', EofBytes(v)) => rawWrite'[v]
          /\ \A v \in Writers : rawWrite'[v] =>
                 Has(wire', EofBytes(v)) \/ (v = "err" /\ ~Has(wire', DataBytes(v)))
      BY <1>1, <2>3, <2>5, <3>1
    <3> QED BY <2>4, <3>2 DEF Ends
  <2>8. Content'
    <3>1. \A v \in Writers : DataOf(wire', v) = DataOf(wire, v)
      <4> SUFFICES ASSUME NEW v \in Writers PROVE DataOf(wire', v) = DataOf(wire, v)
        OBVIOUS
      <4>1. DataOf(wire \o r, v) = DataOf(wire, v) \o DataOf(r, v) /\ DataOf(wire, v) \in Seq(Byte)
        BY <2>2, <2>3, DataBehind, Zenon
      <4>2. DataOf(r, v) = <<>>
        BY <2>3, HasNone DEF DataOf
      <4>3. \A s \in Seq(Byte) : s \o <<>> = s
        OBVIOUS
      <4> QED BY <2>3, <4>1, <4>2, <4>3
    <3>2. \A v \in Writers : Has(wire', DataBytes(v)) <=> Has(wire, DataBytes(v))
      BY <2>3, <2>5
    <3> SUFFICES ASSUME NEW v \in Writers
                 PROVE  /\ ~rawWrite'[v] => \A p \in DOMAIN buf'[v] :
                               buf'[v][p] \in (IF p <= HeaderLen THEN {Room} ELSE DataBytes(v))
                        /\ rawWrite'[v] /\ ~Closing(v)' => buf'[v] = <<>>
                        /\ ~isAnythingWritten'[v] => ~Has(wire', DataBytes(v))
                        /\ DataOf(wire', v) \o DataOf(buf'[v], v) = [k \in 1..given'[v] |-> Data(v, k)]
      BY DEF Content, DataOf
    <3>3. Closing(v)' <=> Closing(v)
      BY <1>1
    <3> QED BY <1>1, <3>1, <3>2, <3>3 DEF Cleanly, Content
  <2> QED BY <2>6, <2>7, <2>8 DEF Cleanly
<1> QED BY <1>2, <1>3

LEMMA InitWriter == Init => WriterInv
<1> SUFFICES ASSUME Init PROVE WriterInv
  OBVIOUS
<1> DEFINE R == Times(8, Room)
<1>1. /\ \A w \in Writers : buf[w] = R
      /\ \A w \in Writers : ~isClosed[w] /\ ~wasFCloseCalled[w] /\ ~FCGI_errno[w] /\ ~rawWrite[w]
      /\ nWriters = 2 /\ given = [w \in Writers |-> 0] /\ busy = "none" /\ stage = "put" /\ todo = <<>>
      /\ finish \in {"no", "never"} /\ cleared = {} /\ wire = <<>>
  BY DEF Init, HeaderLen
<1>2. Inv
  BY InitInv
<1>3. R \in Seq(Byte) /\ DOMAIN R = 1..8 /\ (\A p \in 1..8 : R[p] = Room)
      /\ (\A w \in Writers : Pure(R, w) /\ DataOf(R, w) = <<>>) /\ ~Has(R, EndBytes)
  <2>1. R \in Seq(Byte) /\ DOMAIN R = 1..8 /\ (\A p \in 1..8 : R[p] = Room)
    BY RoomIsBytes DEF Times
  <2> HIDE DEF R
  <2>2. \A w \in Writers : DataOf(R, w) = <<>>
    BY <2>1, OtherBytes, SelectedNone DEF DataOf
  <2>3. ~Has(R, EndBytes)
    BY <2>1, OtherBytes DEF Has, Places
  <2>4. \A w \in Writers : Pure(R, w)
    BY <2>1 DEF Pure, BytesOf
  <2> QED BY <2>1, <2>2, <2>3, <2>4
<1> HIDE DEF R
<1>4. Strings
  BY <1>1, <1>3 DEF Strings, Writers
<1>5. Closed
  BY <1>1 DEF Closed, Failed, Closing, Writers
<1>6. Finishing
  BY <1>1 DEF Finishing
<1>7. Lone
  BY <1>1, <1>3, NothingIsOrderly DEF Lone, Writers
<1>8. Clean
  <2>1. ~Pending /\ Sent = <<>>
    BY <1>1 DEF Pending, Sent, Writers
  <2>2. Ends
    BY <1>1, <2>1, NothingIsOrderly DEF Ends
  <2>3. Content
    <3>1. \A w \in Writers : DataOf(wire, w) \o DataOf(buf[w], w) = <<>>
      BY <1>1, <1>3, NothingIsOrderly
    <3>2. \A w \in Writers : [k \in 1..given[w] |-> Data(w, k)] = <<>>
      BY <1>1
    <3>3. \A w \in Writers : \A p \in DOMAIN buf[w] :
              buf[w][p] \in (IF p <= HeaderLen THEN {Room} ELSE DataBytes(w))
      BY <1>1, <1>3 DEF HeaderLen
    <3> QED BY <1>1, <3>1, <3>2, <3>3, NothingIsOrderly DEF Content
  <2> QED BY <2>1, <2>2, <2>3, NothingIsOrderly DEF Clean, Cleanly
<1> QED BY <1>2, <1>4, <1>5, <1>6, <1>7, <1>8 DEF WriterInv

-----------------------------------------------------------------------------
(* The invariant is inductive.                                              *)

\* A step of one writer, or of the request.
LEMMA StepWriter ==
    ASSUME NEW w \in Writers, WriterInv,
           Library(w) \/ App(w) \/ ReaderAnswer \/ StartFinish \/ Finished \/ UNCHANGED vars
    PROVE  Inv' /\ Strings' /\ Closed' /\ Clean' /\ (NoError' => NoError)
<1> USE DEF WriterInv
<1>1. TypeOK /\ Buffers /\ Mode /\ buf[w] \in Seq(Byte) /\ Len(buf[w]) \in Nat /\ Len(buf[w]) <= stop[w]
  BY LenProperties DEF Inv, TypeOK, Buffers
<1>2. NoError => Cleanly
  BY DEF Clean, Cleanly
<1>3. Cleanly' => Clean'
  BY DEF Clean, Cleanly
<1>4. CASE PutLast(w) \/ PutFails(w)
  <2>1. Inv' /\ Strings' /\ Closed' /\ (NoError' => NoError)
    BY <1>4, PutEndsInv, PutEndsStrings, PutEndsClosed
  <2>2. NoError' => Cleanly'
    BY <1>2, <1>4, <2>1, PutEndsClean
  <2> QED BY <2>1, <2>2 DEF Clean, Cleanly
<1>5. CASE PutMore(w)
  <2>1. /\ busy = w /\ EmptyBuff(w, Filled(w)) /\ ~isClosed[w] /\ UNCHANGED <<busy, stage, cleared>>
    BY <1>5 DEF PutMore
  <2>2. Filled(w) \in Seq(Byte) /\ Sealed(w, Filled(w)) \in Seq(Byte)
    BY <1>1, FilledFits, SealedIsBytes
  <2>3. Inv' /\ Strings' /\ Closed' /\ (NoError' => NoError)
    BY <1>5, <2>1, <2>2, PutMoreInv, PutMoreStrings, EmptyBuffClosed
  <2>4. NoError' => Cleanly'
    BY <1>2, <1>5, <2>3, PutMoreClean
  <2> QED BY <2>3, <2>4 DEF Clean, Cleanly
<1>6. CASE AppFlush(w)
  <2>1. EmptyBuff(w, buf[w]) /\ ~isClosed[w] /\ UNCHANGED <<busy, stage, cleared>>
    BY <1>6 DEF AppFlush, call
  <2>2. Sealed(w, buf[w]) \in Seq(Byte)
    BY <1>1, SealedIsBytes
  <2>3. Inv' /\ Strings' /\ Closed' /\ (NoError' => NoError)
    BY <1>1, <1>6, <2>1, <2>2, AppFlushInv, AppFlushStrings, EmptyBuffClosed
  <2>4. NoError' => Cleanly'
    BY <1>2, <1>6, <2>3, AppFlushClean
  <2> QED BY <2>3, <2>4 DEF Clean, Cleanly
<1>7. CASE AppClose(w) \/ FinishClose(w)
  <2>1. busy = "none" /\ ~wasFCloseCalled[w] /\ BeginClose(w) /\ UNCHANGED <<finish, close>>
    BY <1>7 DEF AppClose, FinishClose, Idle
  <2>2. Inv' /\ Strings' /\ Closed' /\ (NoError' => NoError)
    BY <2>1, BeginCloseInv, BeginCloseStrings, BeginCloseClosed
  <2>3. NoError' => Cleanly'
    BY <1>2, <2>1, <2>2, BeginCloseClean
  <2> QED BY <2>2, <2>3 DEF Clean, Cleanly
<1>8. CASE EndClose(w)
  <2>1. Inv' /\ Strings' /\ Closed' /\ (NoError' => NoError)
    BY <1>8, EndCloseInv, EndCloseStrings, EndCloseClosed
  <2>2. NoError' => Cleanly'
    BY <1>2, <1>8, <2>1, EndCloseClean
  <2> QED BY <2>1, <2>2 DEF Clean, Cleanly
<1>9. CASE \/ AppPut(w) \/ AppClear(w) \/ FinishNext(w) \/ ReaderAnswer \/ StartFinish \/ Finished
           \/ UNCHANGED vars
  <2>1. Strings'
    <3>1. CASE AppPut(w)
      BY <3>1, AppPutStrings
    <3>2. CASE AppClear(w) \/ FinishNext(w) \/ ReaderAnswer \/ StartFinish \/ Finished \/ UNCHANGED vars
      <4>1. UNCHANGED <<buf, given, busy, stage, todo>>
        BY <3>2 DEF AppClear, FinishNext, ReaderAnswer, StartFinish, Finished, vars, streams, call
      <4> QED BY <4>1, OtherStrings
    <3> QED BY <1>9, <3>1, <3>2
  <2>2. Inv' /\ Closed' /\ (NoError' => NoError)
    BY <1>9, OtherStepsInv, OtherClosed
  <2>3. NoError' => Cleanly'
    BY <1>2, <1>9, <2>2, OtherClean
  <2> QED BY <2>1, <2>2, <2>3 DEF Clean, Cleanly
<1> QED BY <1>4, <1>5, <1>6, <1>7, <1>8, <1>9 DEF Library, App

LEMMA NextWriter == WriterInv /\ [Next]_vars => WriterInv'
<1> SUFFICES ASSUME WriterInv, [Next]_vars PROVE WriterInv'
  OBVIOUS
<1>1. PICK w \in Writers :
          Library(w) \/ App(w) \/ ReaderAnswer \/ StartFinish \/ Finished \/ UNCHANGED vars
  BY DEF Next, Writers
<1>2. Inv' /\ Strings' /\ Closed' /\ Clean'
  BY <1>1, StepWriter
<1>3. Finishing'
  BY <1>1, LibraryFinishing, OtherFinishing DEF WriterInv
<1>4. Lone'
  BY NextLone DEF WriterInv
<1> QED BY <1>2, <1>3, <1>4 DEF WriterInv

LEMMA WriterInvariant == Spec => []WriterInv
BY InitWriter, NextWriter, PTL DEF Spec

-----------------------------------------------------------------------------
(* What the server sees.                                                    *)

\* What the invariant says of the connection alone.
WireOrder == NoError =>
    /\ ~Pending => WellFormed(wire)
    /\ AtMostOne(wire, EndBytes)
    /\ \A w \in Writers :
          /\ AtMostOne(wire, EofBytes(w))
          /\ \A p \in Places(wire, EofBytes(w)), q \in Places(wire, DataBytes(w)) : q < p
    /\ Has(wire, EndBytes) =>
          /\ Pending => buf[busy] = <<>> /\ todo = <<>>
          /\ \A w \in Writers : Has(wire, EofBytes(w)) \/ (w = "err" /\ ~Has(wire, DataBytes(w)))
    /\ nWriters = 0 /\ ~Pending => Has(wire, EndBytes)

LEMMA WireOrdered == WriterInv => WireOrder
<1> SUFFICES ASSUME WriterInv, NoError PROVE WireOrder
  BY DEF WireOrder
<1> DEFINE z == IF Pending THEN buf[busy] \o todo ELSE <<>>
<1>1. /\ Orderly(Sent) /\ Ends /\ wire \in Seq(Byte) /\ buf \in [Writers -> Seq(Byte)] /\ todo \in Seq(Byte)
      /\ Mode /\ Counted /\ Closed /\ nWriters \in 0..2
  BY DEF WriterInv, Clean, Cleanly, Inv, TypeOK
<1>2. z \in Seq(Byte) /\ Sent = wire \o z /\ Sent \in Seq(Byte) /\ (~Pending => Sent = wire)
  <2>1. CASE Pending
    <3>1. buf[busy] \in Seq(Byte)
      BY <1>1, <2>1 DEF Pending
    <3>2. z = buf[busy] \o todo /\ Sent = wire \o (buf[busy] \o todo)
      BY <2>1 DEF Sent
    <3>3. \A s, t \in Seq(Byte) : s \o t \in Seq(Byte)
      OBVIOUS
    <3> HIDE DEF z
    <3>4. z \in Seq(Byte) /\ wire \o z \in Seq(Byte)
      BY <1>1, <3>1, <3>2, <3>3
    <3> QED BY <2>1, <3>2, <3>4
  <2>2. CASE ~Pending
    <3>1. wire \o <<>> = wire
      BY <1>1
    <3> QED BY <1>1, <2>2, <3>1 DEF Sent
  <2> QED BY <2>1, <2>2
<1>3. \A T : \A p \in Places(wire, T) : p \in Places(Sent, T) /\ p \in 1..Len(wire)
  <2> HIDE DEF z
  <2> QED BY <1>1, <1>2, PlacesBehind
<1>4. AtMostOne(wire, EndBytes)
  BY <1>1, <1>3 DEF Orderly, AtMostOne
<1>5. ASSUME NEW w \in Writers
      PROVE  /\ AtMostOne(wire, EofBytes(w))
             /\ \A p \in Places(wire, EofBytes(w)), q \in Places(wire, DataBytes(w)) : q < p
  BY <1>1, <1>3 DEF Orderly, AtMostOne
<1>6. ASSUME Has(wire, EndBytes)
      PROVE  /\ Pending => buf[busy] = <<>> /\ todo = <<>>
             /\ \A w \in Writers : Has(wire, EofBytes(w)) \/ (w = "err" /\ ~Has(wire, DataBytes(w)))
  <2>1. PICK p : p \in Places(wire, EndBytes)
    BY <1>6 DEF Has
  <2>2. p \in Places(Sent, EndBytes) /\ p \in 1..Len(wire) /\ Has(Sent, EndBytes)
    BY <1>3, <2>1 DEF Has
  <2>3. z = <<>>
    <3>1. CASE Pending
      <4>1. Sent[Len(Sent)] = Body(EndBodyLen)
        BY <1>1, <2>2, <3>1 DEF Ends
      <4>2. /\ Len(Sent) = Len(wire) + Len(z) /\ Len(wire) \in Nat /\ Len(z) \in Nat
            /\ DOMAIN Sent = 1..Len(Sent)
        <5>1. Len(wire \o z) = Len(wire) + Len(z)
          <6> HIDE DEF z
          <6> QED BY <1>1, <1>2, BehindBytes
        <5> HIDE DEF z
        <5> QED BY <1>1, <1>2, <5>1, LenProperties
      <4>3. Len(Sent) \in Places(Sent, EndBytes)
        <5>1. Len(Sent) \in DOMAIN Sent
          BY <2>2, <4>2
        <5> QED BY <4>1, <5>1 DEF Places, EndBytes
      <4>4. p = Len(Sent)
        BY <1>1, <2>2, <4>3 DEF Orderly, AtMostOne
      <4>5. Len(z) = 0
        BY <2>2, <4>2, <4>4
      <4> HIDE DEF z
      <4> QED BY <1>2, <4>5
    <3> QED BY <3>1
  <2>4. Sent = wire
    <3>1. wire \o <<>> = wire
      BY <1>1
    <3> QED BY <1>2, <2>3, <3>1
  <2>5. ASSUME Pending PROVE buf[busy] = <<>> /\ todo = <<>>
    <3>1. buf[busy] \in Seq(Byte) /\ buf[busy] \o todo = <<>>
      BY <1>1, <2>3, <2>5 DEF Pending
    <3>2. Len(buf[busy] \o todo) = Len(buf[busy]) + Len(todo)
      BY <1>1, <3>1, BehindBytes
    <3>3. Len(buf[busy]) = 0 /\ Len(todo) = 0
      <4>1. Len(buf[busy]) \in Nat /\ Len(todo) \in Nat
        BY <1>1, <3>1, LenProperties
      <4>2. Len(buf[busy] \o todo) = 0
        BY <3>1
      <4> QED BY <3>2, <4>1, <4>2
    <3> QED BY <1>1, <3>1, <3>3
  <2>6. \A w \in Writers : rawWrite[w]
    <3>1. nWriters = 0 \/ (Pending /\ stage = "end" /\ nWriters = 1)
      BY <1>1, <2>2 DEF Ends
    <3>2. CASE nWriters = 0
      <4>1. \A w \in Writers : ~Counts(w)
        BY <1>1, <3>2 DEF Counted, Writers
      <4>2. \A w \in Writers : wasFCloseCalled[w] \/ Closing(w)
        BY <4>1 DEF Counts, Closing
      <4> QED BY <1>1, <4>2 DEF Closed, Mode
    <3>3. CASE Pending /\ stage = "end" /\ nWriters = 1
      <4>1. busy \in Writers /\ Closing(busy) /\ Counts(busy)
        BY <1>1, <3>3 DEF Pending, Closing, Counts, Mode
      <4>2. \A w \in Writers \ {busy} : ~Counts(w)
        BY <1>1, <3>3, <4>1 DEF Counted, Writers
      <4>3. \A w \in Writers : wasFCloseCalled[w] \/ Closing(w)
        BY <3>3, <4>1, <4>2 DEF Counts
      <4> QED BY <1>1, <4>3 DEF Closed, Mode
    <3> QED BY <3>1, <3>2, <3>3
  <2>7. \A w \in Writers : Has(wire, EofBytes(w)) \/ (w = "err" /\ ~Has(wire, DataBytes(w)))
    BY <1>1, <2>4, <2>6 DEF Ends
  <2> QED BY <2>5, <2>7
<1>7. nWriters = 0 /\ ~Pending => Has(wire, EndBytes)
  BY <1>1, <1>2 DEF Ends
<1>8. ~Pending => WellFormed(wire)
  BY <1>1, <1>2 DEF Orderly
<1> QED BY <1>4, <1>5, <1>6, <1>7, <1>8 DEF WireOrder

\* The ends on the connection, as the properties name them.
LEMMA EofCells ==
    ASSUME NEW s \in Seq(Byte), NEW w \in Writers
    PROVE  {p \in DOMAIN s : IsHead(s[p]) /\ s[p][2] = w /\ s[p][3] = 0 /\ s[p][5] = HeaderLen}
           = Places(s, EofBytes(w))
<1>1. ASSUME NEW c \in Byte
      PROVE  (IsHead(c) /\ c[2] = w /\ c[3] = 0 /\ c[5] = HeaderLen) <=> c \in EofBytes(w)
  <2>1. ASSUME IsHead(c), c[2] = w, c[3] = 0, c[5] = HeaderLen PROVE c \in EofBytes(w)
    <3>1. c = HeadByte(c[2], c[3], c[4], c[5]) /\ c[4] \in Nat
      BY <2>1, HeadCell
    <3>2. c = HeadByte(w, 0, c[4], HeaderLen)
      BY <2>1, <3>1
    <3> QED BY <3>1, <3>2 DEF HeadByte, EofBytes
  <2>2. ASSUME c \in EofBytes(w) PROVE IsHead(c) /\ c[2] = w /\ c[3] = 0 /\ c[5] = HeaderLen
    BY <2>2 DEF EofBytes, IsHead
  <2> QED BY <2>1, <2>2
<1>2. \A p \in DOMAIN s : s[p] \in Byte
  BY ElementOfSeq, LenProperties
<1> QED BY <1>1, <1>2 DEF Places

LEMMA EndsArePlaces ==
    ASSUME TypeOK
    PROVE  /\ EndOf = Places(wire, EndBytes)
           /\ \A w \in Writers : EofOf(w) = Places(wire, EofBytes(w))
<1>1. EndOf = Places(wire, EndBytes)
  BY DEF EndOf, Places, EndBytes
<1>2. \A w \in Writers : EofOf(w) = Places(wire, EofBytes(w))
  BY EofCells DEF TypeOK, EofOf
<1> QED BY <1>1, <1>2

-----------------------------------------------------------------------------
(* Theorems.                                                               *)

\* FcgxWriter.WireFidelity: EmptyBuffProc and WriteCloseRecords put whole records
\* on the connection, and of what FCGX_PutStr was given no byte is lost, changed,
\* doubled or moved, for strings and buffers of every length.
THEOREM WireIsFaithful == Spec => []WireFidelity
<1>1. WriterInv => WireFidelity
  <2> SUFFICES ASSUME WriterInv, NoError PROVE WireFidelity
    BY DEF WireFidelity
  <2>1. WireOrder
    BY WireOrdered
  <2>2. busy = "none" => WellFormed(wire)
    BY <2>1 DEF WireOrder, Pending, Writers
  <2>3. ASSUME NEW w \in Writers
        PROVE  DataOf(wire, w) \o DataOf(buf[w], w) = [k \in 1..given[w] |-> Data(w, k)]
    BY DEF WriterInv, Clean, Cleanly, Content
  <2>4. ASSUME finish = "done", NEW w \in Writers
        PROVE  DataOf(wire, w) = [k \in 1..given[w] |-> Data(w, k)]
    <3>1. busy = "none" /\ wasFCloseCalled[w]
      BY <2>4 DEF WriterInv, Finishing, Writers
    <3>2. buf[w] = <<>>
      BY <3>1 DEF WriterInv, Closed, Clean, Cleanly, Content
    <3>3. DataOf(wire, w) \in Seq(Byte)
      BY DataBehind, Zenon DEF WriterInv, Inv, TypeOK
    <3>4. DataOf(wire, w) \o <<>> = DataOf(wire, w)
      BY <3>3
    <3>5. DataOf(<<>>, w) = <<>>
      BY NothingIsOrderly
    <3> QED BY <2>3, <3>2, <3>4, <3>5
  <2> QED BY <2>2, <2>3, <2>4 DEF WireFidelity
<1> QED BY WriterInvariant, <1>1, PTL

\* FcgxWriter.EndOnce: FCGI_END_REQUEST is sent once, and each stream is ended
\* once, however often and in whatever order FCGX_FClose and FCGX_Finish_r run.
THEOREM EndIsSentOnce == Spec => []EndOnce
<1>1. WriterInv => EndOnce
  <2> SUFFICES ASSUME WriterInv PROVE EndOnce
    OBVIOUS
  <2>1. /\ EndOf = Places(wire, EndBytes)
        /\ \A w \in Writers : EofOf(w) = Places(wire, EofBytes(w))
    BY EndsArePlaces DEF WriterInv, Inv
  <2>2. \A T : AtMostOne(wire, T) => Cardinality(Places(wire, T)) <= 1
    <3> SUFFICES ASSUME NEW T, AtMostOne(wire, T) PROVE Cardinality(Places(wire, T)) <= 1
      OBVIOUS
    <3>1. CASE Places(wire, T) = {}
      BY <3>1, FS_EmptySet
    <3>2. CASE Places(wire, T) # {}
      <4>1. PICK p : p \in Places(wire, T)
        BY <3>2
      <4>2. Places(wire, T) = {p}
        BY <4>1 DEF AtMostOne
      <4>3. Cardinality({p}) = 1
        BY FS_Singleton
      <4> QED BY <4>2, <4>3
    <3> QED BY <3>1, <3>2
  <2>3. ASSUME NoError
        PROVE  /\ Cardinality(EndOf) <= 1
               /\ \A w \in Writers : Cardinality(EofOf(w)) <= 1
               /\ finish = "done" => EndOf # {}
    <3>1. WireOrder
      BY WireOrdered
    <3>2. Cardinality(EndOf) <= 1 /\ \A w \in Writers : Cardinality(EofOf(w)) <= 1
      BY <2>1, <2>2, <2>3, <3>1 DEF WireOrder
    <3>3. ASSUME finish = "done" PROVE EndOf # {}
      <4>1. busy = "none" /\ wasFCloseCalled["out"] /\ wasFCloseCalled["err"]
        BY <3>3 DEF WriterInv, Finishing
      <4>2. nWriters = 0 /\ ~Pending
        BY <4>1 DEF WriterInv, Inv, Counted, Counts, Pending, Writers
      <4> QED BY <2>1, <2>3, <3>1, <4>2 DEF WireOrder, Has
    <3> QED BY <3>2, <3>3
  <2>4. Created => EndOf = {}
    BY <2>1 DEF WriterInv, Lone, Has
  <2> QED BY <2>3, <2>4 DEF EndOnce
<1> QED BY WriterInvariant, <1>1, PTL

\* FcgxWriter.TornWireCloses: FCGX_Finish_r sees the error of a torn record,
\* whichever writer tore it and whenever, and does not keep the connection.
THEOREM TornWireIsClosed == Spec => []TornWireCloses
<1>1. WriterInv => TornWireCloses
  <2> SUFFICES ASSUME WriterInv, finish = "done", ~WellFormed(wire) PROVE close \/ cleared # {}
    BY DEF TornWireCloses
  <2>1. busy = "none" /\ ~Pending
    BY DEF WriterInv, Finishing, Pending, Writers
  <2>2. ~NoError
    BY <2>1, WireOrdered DEF WireOrder
  <2>3. PICK w \in Writers : FCGI_errno[w] \/ w \in cleared
    BY <2>2 DEF NoError, Failed
  <2> QED BY <2>3 DEF WriterInv, Finishing, Writers
<1> QED BY WriterInvariant, <1>1, PTL

\* Nothing in s that the server counts to the stream of w.
Quiet(s, w) == ~Has(s, DataBytes(w)) /\ ~Has(s, EofBytes(w))

\* A full or flushed buffer: the writer is open, and has not been counted.
LEMMA OpenWrites ==
    ASSUME NEW w \in Writers, WriterInv, ~isClosed[w], NEW b \in Seq(Byte), Pure(b, w), WriteAll(w, b),
           ~Pending
    PROVE  \E y \in Seq(Byte) : /\ wire' = wire \o y
                                /\ \A u \in Writers \ {w} : Quiet(y, u)
                                /\ ~Failed(w)
                                /\ NoError => ~Has(wire, EndBytes)
<1>1. PICK y \in Seq(Byte) : wire' = wire \o y /\ Pure(y, w)
  BY WriteAllAdds DEF WriterInv, Inv
<1>2. \A u \in Writers \ {w} : Quiet(y, u)
  BY <1>1, PureHas DEF Quiet
<1>3. ~Failed(w) /\ ~wasFCloseCalled[w]
  BY DEF WriterInv, Closed
<1>4. ASSUME NoError PROVE ~Has(wire, EndBytes)
  <2>1. Counts(w)
    BY <1>3 DEF Counts, Pending
  <2>2. nWriters # 0
    BY <2>1 DEF WriterInv, Inv, Counted, Writers
  <2> QED BY <1>4, <2>2 DEF WriterInv, Clean, Cleanly, Ends, Sent
<1> QED BY <1>1, <1>2, <1>3, <1>4

\* Every step adds to the connection what one writer may add to it.
LEMMA WireGrows ==
    ASSUME WriterInv, [Next]_vars
    PROVE  \E y \in Seq(Byte), v \in Writers :
              /\ wire' = wire \o y
              /\ \A w \in Writers \ {v} : Quiet(y, w)
              /\ Failed(v) /\ ~(busy = v /\ stage = "last") => Quiet(y, v)
              /\ NoError /\ NoError' /\ Has(wire, EndBytes) => Quiet(y, v)
<1>1. /\ TypeOK /\ Buffers /\ Mode /\ Strings /\ Inv /\ wire \in Seq(Byte) /\ buf \in [Writers -> Seq(Byte)]
      /\ \A w \in Writers : Pure(buf[w], w) /\ Len(buf[w]) <= stop[w] /\ Len(buf[w]) \in Nat
  BY LenProperties DEF WriterInv, Inv, TypeOK, Buffers, Strings
<1>2. WireOrder
  BY WireOrdered
<1>3. PICK w \in Writers :
          Library(w) \/ App(w) \/ ReaderAnswer \/ StartFinish \/ Finished \/ UNCHANGED vars
  BY DEF Next, Writers
<1>4. \A v \in Writers : Quiet(<<>>, v)
  BY NothingIsOrderly DEF Quiet
<1>5. CASE PutMore(w)
  <2>1. /\ busy = w /\ ~isClosed[w] /\ WriteAll(w, Sealed(w, Filled(w))) /\ Part(w) < Len(todo)
    BY <1>5 DEF PutMore, EmptyBuff
  <2>2. Filled(w) \in Seq(Byte) /\ Pure(Filled(w), w)
    BY <1>1, <2>1, FilledPure
  <2>3. Sealed(w, Filled(w)) \in Seq(Byte) /\ Pure(Sealed(w, Filled(w)), w)
    BY <1>1, <2>2, FilledFits, SealedIsBytes, SealedPure
  <2>4. CASE ~Pending
    <3>1. PICK y \in Seq(Byte) : /\ wire' = wire \o y
                                 /\ \A u \in Writers \ {w} : Quiet(y, u)
                                 /\ ~Failed(w)
                                 /\ NoError => ~Has(wire, EndBytes)
      BY <2>1, <2>3, <2>4, OpenWrites
    <3> QED BY <3>1
  <2>5. CASE Pending
    <3>1. PICK y \in Seq(Byte) : wire' = wire \o y /\ Pure(y, w)
      BY <1>1, <2>1, <2>3, WriteAllAdds
    <3>2. \A u \in Writers \ {w} : Quiet(y, u)
      BY <3>1, PureHas DEF Quiet
    <3>3. ~Failed(w)
      BY <2>1 DEF WriterInv, Closed
    <3>4. NoError => ~Has(wire, EndBytes)
      <4>1. todo # <<>>
        <5>1. Part(w) \in Nat
          BY <1>1, <2>1, FilledPure
        <5> QED BY <2>1, <5>1
      <4> QED BY <1>2, <2>5, <4>1 DEF WireOrder
    <3> QED BY <3>1, <3>2, <3>3, <3>4
  <2> QED BY <2>4, <2>5
<1>6. CASE AppFlush(w)
  <2>1. /\ ~Pending /\ ~isClosed[w] /\ WriteAll(w, Sealed(w, buf[w]))
    BY <1>6 DEF AppFlush, EmptyBuff, Idle, Pending, Writers
  <2>2. Sealed(w, buf[w]) \in Seq(Byte) /\ Pure(Sealed(w, buf[w]), w)
    BY <1>1, SealedIsBytes, SealedPure
  <2>3. PICK y \in Seq(Byte) : /\ wire' = wire \o y
                               /\ \A u \in Writers \ {w} : Quiet(y, u)
                               /\ ~Failed(w)
                               /\ NoError => ~Has(wire, EndBytes)
    BY <2>1, <2>2, OpenWrites
  <2> QED BY <2>3
<1>7. CASE EndClose(w)
  <2>1. busy = w /\ stage = "last" /\ WriteAll(w, buf[w]) /\ Pending
    BY <1>7 DEF EndClose, Pending
  <2>2. CASE NoError /\ NoError' /\ Has(wire, EndBytes)
    <3>1. buf[w] = <<>>
      BY <1>2, <2>1, <2>2 DEF WireOrder
    <3>2. wire' = wire \o <<>>
      BY <1>1, <2>1, <2>2, <3>1, WriteSucceeds
    <3>3. <<>> \in Seq(Byte)
      OBVIOUS
    <3> QED BY <1>4, <3>2, <3>3
  <2>3. CASE ~(NoError /\ NoError' /\ Has(wire, EndBytes))
    <3>1. PICK y \in Seq(Byte) : wire' = wire \o y /\ Pure(y, w)
      BY <1>1, <2>1, WriteAllAdds
    <3>2. \A u \in Writers \ {w} : Quiet(y, u)
      BY <3>1, PureHas DEF Quiet
    <3> QED BY <2>1, <2>3, <3>1, <3>2
  <2> QED BY <2>2, <2>3
<1>8. CASE ReaderAnswer
  <2>1. PICK r \in Seq(Byte) : /\ wire' = wire \o r
                               /\ \A v \in Writers : ~Has(r, EofBytes(v)) /\ ~Has(r, DataBytes(v))
    BY <1>1, <1>8, AnswerRecord DEF ReaderAnswer
  <2> QED BY <2>1 DEF Quiet
<1>9. CASE wire' = wire
  <2>1. wire' = wire \o <<>> /\ <<>> \in Seq(Byte)
    BY <1>1, <1>9
  <2> QED BY <1>4, <2>1
<1>10. CASE \/ PutLast(w) \/ PutFails(w) \/ FinishClose(w) \/ FinishNext(w)
            \/ AppPut(w) \/ AppClose(w) \/ AppClear(w) \/ StartFinish \/ Finished \/ UNCHANGED vars
  <2>1. wire' = wire
    BY <1>10 DEF PutLast, PutFails, FinishClose, FinishNext, AppPut, AppClose, AppClear, StartFinish,
                 Finished, BeginClose, vars
  <2> QED BY <1>9, <2>1
<1> QED BY <1>3, <1>5, <1>6, <1>7, <1>8, <1>10 DEF Library, App

\* What a quiet part of the connection leaves as it was.
LEMMA QuietStays ==
    ASSUME TypeOK, TypeOK', NEW y \in Seq(Byte), wire' = wire \o y, NEW w \in Writers, Quiet(y, w)
    PROVE  DataOf(wire', w) = DataOf(wire, w) /\ EofOf(w)' = EofOf(w)
<1>1. wire \in Seq(Byte)
  BY DEF TypeOK
<1>2. DataOf(wire \o y, w) = DataOf(wire, w) \o DataOf(y, w) /\ DataOf(wire, w) \in Seq(Byte)
  BY <1>1, DataBehind, Zenon
<1>3. DataOf(y, w) = <<>>
  BY HasNone DEF DataOf, Quiet
<1>4. \A s \in Seq(Byte) : s \o <<>> = s
  OBVIOUS
<1>5. DataOf(wire', w) = DataOf(wire, w)
  BY <1>2, <1>3, <1>4
<1>6. Places(wire \o y, EofBytes(w)) = Places(wire, EofBytes(w))
  <2>1. Places(y, EofBytes(w)) = {}
    BY DEF Quiet, Has
  <2>2. \A p \in Places(wire, EofBytes(w)) : p \in Places(wire \o y, EofBytes(w))
    BY <1>1, PlacesBehind
  <2>3. \A p \in Places(wire \o y, EofBytes(w)) : p \in Places(wire, EofBytes(w))
    BY <1>1, <2>1, PlacesBehind
  <2> QED BY <2>2, <2>3
<1>7. EofOf(w)' = Places(wire', EofBytes(w))
  BY EofCells DEF TypeOK, EofOf
<1> QED BY <1>5, <1>6, <1>7, EndsArePlaces

LEMMA NoErrorStep ==
    ASSUME WriterInv, [Next]_vars
    PROVE  NoError' => NoError
<1>1. PICK w \in Writers :
          Library(w) \/ App(w) \/ ReaderAnswer \/ StartFinish \/ Finished \/ UNCHANGED vars
  BY DEF Next, Writers
<1> QED BY <1>1, StepWriter

\* FcgxWriter.SilentAfterError: SetError closes the stream, and FCGX_ClearError
\* does not open it: only the one FCGX_FClose still writes what is buffered.
THEOREM ErrorsSilence == Spec => SilentAfterError
<1>1. WriterInv /\ [Next]_vars =>
          \A w \in Writers : Failed(w) /\ ~(busy = w /\ stage = "last") =>
              DataOf(wire', w) = DataOf(wire, w) /\ EofOf(w)' = EofOf(w)
  <2> SUFFICES ASSUME WriterInv, [Next]_vars, NEW w \in Writers, Failed(w), ~(busy = w /\ stage = "last")
               PROVE  DataOf(wire', w) = DataOf(wire, w) /\ EofOf(w)' = EofOf(w)
    OBVIOUS
  <2>1. PICK y \in Seq(Byte), v \in Writers :
              /\ wire' = wire \o y
              /\ \A u \in Writers \ {v} : Quiet(y, u)
              /\ Failed(v) /\ ~(busy = v /\ stage = "last") => Quiet(y, v)
    BY WireGrows
  <2>2. Quiet(y, w)
    BY <2>1
  <2>3. TypeOK /\ TypeOK'
    BY NextWriter DEF WriterInv, Inv
  <2> QED BY <2>1, <2>2, <2>3, QuietStays
<1>2. WriterInv /\ [Next]_vars =>
          [\A w \in Writers : Failed(w) /\ ~(busy = w /\ stage = "last") =>
              DataOf(wire', w) = DataOf(wire, w) /\ EofOf(w)' = EofOf(w)]_vars
  BY <1>1
<1> QED BY WriterInvariant, <1>2, PTL DEF Spec, SilentAfterError

-----------------------------------------------------------------------------
(* Refinement.                                                             *)

\* What the server sees, named.
SeenContent == [w \in Writers |-> DataOf(wire, w)]
SeenEof == [w \in Writers |-> EofOf(w) # {}]
SeenEnded == EndOf # {}

\* Content behind content.
LEMMA ContentGrows ==
    ASSUME NEW s \in Seq(Byte), NEW t \in Seq(Byte)
    PROVE  IsPrefix(s, s \o t)
<1> DEFINE u == s \o t
<1>1. u \in Seq(Byte) /\ Len(u) = Len(s) + Len(t) /\ Len(s) \in Nat /\ Len(t) \in Nat
  BY ConcatIsBytes
<1>2. SubSeq(s, 1, Len(s)) = s
  BY SubSeqFull
<1>3. SubSeq(u, 1, Len(s)) = s
  <2>1. \A i \in 1..Len(s) : u[i] = s[i]
    BY BehindBytes
  <2> HIDE DEF u
  <2>2. 1 \in Nat /\ Len(s) \in Nat /\ 1 <= 1 /\ 1 <= Len(s) + 1 /\ Len(s) <= Len(u)
    BY <1>1
  <2>3. /\ SubSeq(u, 1, Len(s)) \in Seq(Byte) /\ Len(SubSeq(u, 1, Len(s))) = Len(s) + 1 - 1
        /\ \A k \in 1..(Len(s) + 1 - 1) : SubSeq(u, 1, Len(s))[k] = u[1 + k - 1]
    BY <1>1, <2>2, PartOf
  <2>4. Len(s) + 1 - 1 = Len(s) /\ \A k \in 1..Len(s) : 1 + k - 1 = k
    BY <1>1
  <2> QED BY <2>1, <2>3, <2>4, SeqEqual
<1> HIDE DEF u
<1>4. Len(s) <= Len(u)
  BY <1>1
<1> QED BY <1>2, <1>3, <1>4 DEF IsPrefix, u

\* Without an error a step delivers content or the end of one stream, or the end
\* of the request.
LEMMA StepDelivers ==
    ASSUME WriterInv, WriterInv', WireOrder', [Next]_vars, NoError, NoError'
    PROVE  \/ UNCHANGED <<SeenContent, SeenEof, SeenEnded>>
           \/ \E v \in Writers :
                 /\ ~SeenEnded
                 /\ \A w \in Writers \ {v} : SeenContent'[w] = SeenContent[w] /\ SeenEof'[w] = SeenEof[w]
                 /\ IsPrefix(SeenContent[v], SeenContent'[v])
                 /\ SeenEof[v] => SeenContent'[v] = SeenContent[v] /\ SeenEof'[v]
                 /\ SeenEnded' => /\ SeenEof'["out"]
                                  /\ \A w \in Writers : SeenContent'[w] # <<>> => SeenEof'[w]
<1>1. PICK y \in Seq(Byte), v \in Writers :
              /\ wire' = wire \o y
              /\ \A w \in Writers \ {v} : Quiet(y, w)
              /\ NoError /\ NoError' /\ Has(wire, EndBytes) => Quiet(y, v)
  BY WireGrows
<1>2. TypeOK /\ TypeOK' /\ wire \in Seq(Byte) /\ wire' \in Seq(Byte)
  BY DEF WriterInv, Inv, TypeOK
<1>3. /\ SeenEnded <=> Has(wire, EndBytes)
      /\ SeenEnded' <=> Has(wire', EndBytes)
  BY DEF SeenEnded, EndOf, Has, Places, EndBytes
<1>4. \A w \in Writers : /\ SeenEof[w] <=> Has(wire, EofBytes(w))
                         /\ SeenEof'[w] <=> Has(wire', EofBytes(w))
  BY <1>2, EofCells DEF SeenEof, EofOf, Has
<1>5. \A w \in Writers : /\ SeenContent[w] = DataOf(wire, w)
                         /\ SeenContent'[w] = DataOf(wire', w)
  BY DEF SeenContent, DataOf
<1>6. \A T : Has(wire', T) <=> Has(wire, T) \/ Has(y, T)
  BY <1>1, <1>2, HasBehind
<1>7. \A w \in Writers : Quiet(y, w) => SeenContent'[w] = SeenContent[w] /\ SeenEof'[w] = SeenEof[w]
  <2> SUFFICES ASSUME NEW w \in Writers, Quiet(y, w)
               PROVE  SeenContent'[w] = SeenContent[w] /\ SeenEof'[w] = SeenEof[w]
    OBVIOUS
  <2>1. DataOf(wire', w) = DataOf(wire, w) /\ EofOf(w)' = EofOf(w)
    BY <1>1, <1>2, QuietStays
  <2> QED BY <1>5, <2>1 DEF SeenEof
<1>8. CASE Has(wire, EndBytes)
  <2>1. \A w \in Writers : Quiet(y, w)
    BY <1>1, <1>8
  <2>2. SeenContent' = SeenContent
    BY <1>7, <2>1 DEF SeenContent
  <2>3. SeenEof' = SeenEof
    BY <1>7, <2>1 DEF SeenEof
  <2>4. SeenEnded' = SeenEnded
    BY <1>3, <1>6, <1>8 DEF SeenEnded
  <2> QED BY <2>2, <2>3, <2>4
<1>9. CASE ~Has(wire, EndBytes)
  <2>1. IsPrefix(SeenContent[v], SeenContent'[v])
    <3>1. /\ DataOf(wire \o y, v) = DataOf(wire, v) \o DataOf(y, v)
          /\ DataOf(wire, v) \in Seq(Byte) /\ DataOf(y, v) \in Seq(Byte)
      BY <1>2, DataBehind, Zenon
    <3>2. IsPrefix(DataOf(wire, v), DataOf(wire, v) \o DataOf(y, v))
      BY <3>1, ContentGrows
    <3> QED BY <1>1, <1>5, <3>1, <3>2
  <2>2. ASSUME SeenEof[v] PROVE SeenContent'[v] = SeenContent[v] /\ SeenEof'[v]
    <3>1. PICK p : p \in Places(wire, EofBytes(v))
      BY <1>4, <2>2 DEF Has
    <3>2. p \in Places(wire', EofBytes(v)) /\ p \in 1..Len(wire) /\ Len(wire) \in Nat
      BY <1>1, <1>2, <3>1, PlacesBehind, LenProperties
    <3>3. ~Has(y, DataBytes(v))
      <4> SUFFICES ASSUME NEW q \in Places(y, DataBytes(v)) PROVE FALSE
        BY DEF Has
      <4>1. Len(wire) + q \in Places(wire', DataBytes(v)) /\ q \in 1..Len(y)
        BY <1>1, <1>2, PlacesBehind
      <4>2. Len(wire) + q < p
        BY <3>2, <4>1 DEF WireOrder
      <4> QED BY <3>2, <4>1, <4>2
    <3>4. DataOf(wire', v) = DataOf(wire, v)
      <4>1. DataOf(wire \o y, v) = DataOf(wire, v) \o DataOf(y, v) /\ DataOf(wire, v) \in Seq(Byte)
        BY <1>2, DataBehind, Zenon
      <4>2. DataOf(y, v) = <<>>
        BY <3>3, HasNone DEF DataOf
      <4>3. \A s \in Seq(Byte) : s \o <<>> = s
        OBVIOUS
      <4> QED BY <1>1, <4>1, <4>2, <4>3
    <3> QED BY <1>4, <1>5, <1>6, <2>2, <3>4
  <2>3. ASSUME SeenEnded'
        PROVE  SeenEof'["out"] /\ \A w \in Writers : SeenContent'[w] # <<>> => SeenEof'[w]
    <3>1. \A w \in Writers : Has(wire', EofBytes(w)) \/ (w = "err" /\ ~Has(wire', DataBytes(w)))
      BY <1>3, <2>3 DEF WireOrder
    <3>2. \A w \in Writers : ~Has(wire', DataBytes(w)) => SeenContent'[w] = <<>>
      BY <1>2, <1>5, HasNone DEF DataOf
    <3> QED BY <1>4, <3>1, <3>2 DEF Writers
  <2> QED BY <1>1, <1>3, <1>7, <1>9, <2>1, <2>2, <2>3
<1> QED BY <1>8, <1>9

\* FcgxWriter.ImplementsResponse: buffers, records and calls, seen from the
\* server, are streams that grow, end once and before the request.
THEOREM WritersAnswer == Spec => ImplementsResponse
<1>1. Init => Seen!Init
  <2> SUFFICES ASSUME Init PROVE Seen!Init
    OBVIOUS
  <2>1. wire = <<>> /\ TypeOK /\ NoError
    <3>1. wire = <<>> /\ \A w \in Writers : ~FCGI_errno[w] /\ cleared = {}
      BY DEF Init
    <3> QED BY <3>1, InitInv DEF Inv, NoError, Failed
  <2>2. EndOf = {} /\ \A w \in Writers : EofOf(w) = {} /\ DataOf(wire, w) = <<>>
    BY <2>1, NothingIsOrderly DEF EndOf, EofOf
  <2> QED BY <2>1, <2>2 DEF Seen!Init
<1>2. WriterInv /\ WriterInv' /\ WireOrder' /\ [Next]_vars
      => \/ Seen!Next
         \/ UNCHANGED <<SeenContent, SeenEof, SeenEnded, ~NoError>>
  <2> SUFFICES ASSUME WriterInv, WriterInv', WireOrder', [Next]_vars
               PROVE  \/ Seen!Next
                      \/ UNCHANGED <<SeenContent, SeenEof, SeenEnded, ~NoError>>
    OBVIOUS
  <2>1. CASE ~NoError'
    <3>1. Seen!Break \/ Seen!StayBroken
      BY <2>1 DEF Seen!Break, Seen!StayBroken
    <3> QED BY <3>1 DEF Seen!Next
  <2>2. CASE NoError'
    <3>1. NoError
      BY <2>2, NoErrorStep
    <3>2. CASE UNCHANGED <<SeenContent, SeenEof, SeenEnded>>
      BY <2>2, <3>1, <3>2
    <3>3. CASE \E v \in Writers :
                 /\ ~SeenEnded
                 /\ \A w \in Writers \ {v} : SeenContent'[w] = SeenContent[w] /\ SeenEof'[w] = SeenEof[w]
                 /\ IsPrefix(SeenContent[v], SeenContent'[v])
                 /\ SeenEof[v] => SeenContent'[v] = SeenContent[v] /\ SeenEof'[v]
                 /\ SeenEnded' => /\ SeenEof'["out"]
                                  /\ \A w \in Writers : SeenContent'[w] # <<>> => SeenEof'[w]
      <4>1. PICK v \in Writers :
                 /\ ~SeenEnded
                 /\ \A w \in Writers \ {v} : SeenContent'[w] = SeenContent[w] /\ SeenEof'[w] = SeenEof[w]
                 /\ IsPrefix(SeenContent[v], SeenContent'[v])
                 /\ SeenEof[v] => SeenContent'[v] = SeenContent[v] /\ SeenEof'[v]
                 /\ SeenEnded' => /\ SeenEof'["out"]
                                  /\ \A w \in Writers : SeenContent'[w] # <<>> => SeenEof'[w]
        BY <3>3
      <4>2. Seen!Deliver(v)
        <5>1. ~(~NoError) /\ ~(~NoError)'
          BY <2>2, <3>1
        <5>2. ~(EndOf # {})
          BY <4>1 DEF SeenEnded
        <5>3. \A w \in Writers \ {v} : /\ [u \in Writers |-> DataOf(wire, u)]'[w] = [u \in Writers |-> DataOf(wire, u)][w]
                                       /\ [u \in Writers |-> EofOf(u) # {}]'[w] = [u \in Writers |-> EofOf(u) # {}][w]
          BY <4>1 DEF SeenContent, SeenEof
        <5>4. Seen!IsPrefix([u \in Writers |-> DataOf(wire, u)][v], [u \in Writers |-> DataOf(wire, u)]'[v])
          <6>1. \A s, t : IsPrefix(s, t) => Seen!IsPrefix(s, t)
            BY DEF IsPrefix, Seen!IsPrefix
          <6>2. IsPrefix([u \in Writers |-> DataOf(wire, u)][v], [u \in Writers |-> DataOf(wire, u)]'[v])
            BY <4>1 DEF SeenContent
          <6> QED BY <6>1, <6>2
        <5>5. [u \in Writers |-> EofOf(u) # {}][v]
              => /\ [u \in Writers |-> DataOf(wire, u)]'[v] = [u \in Writers |-> DataOf(wire, u)][v]
                 /\ [u \in Writers |-> EofOf(u) # {}]'[v]
          BY <4>1 DEF SeenContent, SeenEof
        <5>6. (EndOf # {})'
              => /\ [u \in Writers |-> EofOf(u) # {}]'["out"]
                 /\ \A w \in Writers : [u \in Writers |-> DataOf(wire, u)]'[w] # <<>>
                                        => [u \in Writers |-> EofOf(u) # {}]'[w]
          BY <4>1 DEF SeenContent, SeenEof, SeenEnded
        <5> QED BY <5>1, <5>2, <5>3, <5>4, <5>5, <5>6 DEF Seen!Deliver
      <4> QED BY <4>2 DEF Seen!Next
    <3> QED BY <2>2, <3>1, <3>2, <3>3, StepDelivers
  <2> QED BY <2>1, <2>2
<1>3. WriterInv /\ WriterInv' /\ WireOrder' /\ [Next]_vars
      => [Seen!Next]_<<[w \in Writers |-> DataOf(wire, w)],
                       [w \in Writers |-> EofOf(w) # {}],
                       EndOf # {}, ~NoError>>
  BY <1>2 DEF SeenContent, SeenEof, SeenEnded
<1>4. Spec => []WireOrder
  BY WriterInvariant, WireOrdered, PTL
<1> QED BY WriterInvariant, <1>1, <1>3, <1>4, PTL DEF Spec, ImplementsResponse, Seen!Spec, Seen!rvars

=============================================================================
