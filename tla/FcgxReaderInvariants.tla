------------------------- MODULE FcgxReaderInvariants -------------------------
(***************************************************************************)
(* The inductive invariants of the reader of a request (FcgxReader).       *)
(*                                                                         *)
(* ReaderInv is what the theorems about one request rest on: types and     *)
(* control; Tracked, where the reader stands in a record, or why it does   *)
(* not know; Beginning, what holds until the BEGIN record was read; and    *)
(* Settled, what holds of the streams while a request is served.           *)
(*                                                                         *)
(* OrderlyInv is about one request after another on a kept connection:     *)
(* what the server may have sent, what is left between two requests, and,  *)
(* while one is read, OnTrack: whose turn it is and what was answered.     *)
(***************************************************************************)
EXTENDS FcgxReader

-----------------------------------------------------------------------------
(* The bytes of a conversation.                                            *)

Cell == Nat \X Nat

\* What the bytes of a conversation look like: cell after cell of record after record.
CellsOf(s, w) ==
    /\ w \in Seq(Cell)
    /\ \A p \in 1..Len(w) : w[p][1] \in 1..Len(s) /\ w[p][2] \in 1..Size(s[w[p][1]])

Runs(s, w) ==
    \A p \in 1..Len(w) : \A m \in Int :
        (1 <= w[p][2] + m /\ w[p][2] + m <= Size(s[w[p][1]])) =>
            p + m \in 1..Len(w) /\ w[p + m] = <<w[p][1], w[p][2] + m>>

Follows(s, w) ==
    /\ Len(w) > 0 => w[1] = <<1, 1>> /\ w[Len(w)][1] = Len(s) /\ w[Len(w)][2] = Size(s[Len(s)])
    /\ Len(w) = 0 <=> s = <<>>
    /\ \A p \in 1..Len(w) : p < Len(w) /\ w[p][2] = Size(s[w[p][1]]) => w[p + 1] = <<w[p][1] + 1, 1>>

Shape(s, w) == CellsOf(s, w) /\ Runs(s, w) /\ Follows(s, w)

-----------------------------------------------------------------------------
(* Types and control.                                                      *)

ServerOK ==
    /\ script \in Scripts /\ wire = Bytes(script)
    /\ sent \in 0..Len(wire) /\ serverShut \in BOOLEAN
    /\ replies \in Seq(DOMAIN script)
PtrsOK ==
    /\ rdNext \in Nat /\ stop \in Nat /\ stopUnget \in Nat
    /\ buffStop \in 0..sent /\ rdNext <= buffStop /\ stop <= buffStop
RecordOK ==
    /\ contentLen \in Nat /\ paddingLen \in Nat /\ headerLen \in 0..HeaderLen-1
    /\ skip \in BOOLEAN /\ eorStop \in BOOLEAN
StatusOK ==
    /\ isClosed \in BOOLEAN /\ FCGI_errno \in Errors /\ type \in StreamTypes
RequestOK ==
    /\ requestId \in Nat /\ isBeginProcessed \in BOOLEAN
    /\ role \in Roles /\ keepConnection \in BOOLEAN /\ begun \in {0} \cup DOMAIN script
ControlOK ==
    /\ pc \in {"idle", "fill", "use", "closed"}
    /\ phase \in {"begin", "params", "app"}
    /\ nested \in {"none", "begin", "values"}
    /\ taken \in Nat /\ pairPos \in 0..PairLen-1
CallsOK ==
    /\ got \in [Streams -> Seq(Nat \X Nat)]
    /\ served \in Nat /\ wasFCloseCalled \in BOOLEAN /\ cleared \in BOOLEAN
Typed == ServerOK /\ PtrsOK /\ RecordOK /\ StatusOK /\ RequestOK /\ ControlOK /\ CallsOK

\* Where control is.
Control ==
    /\ stopUnget <= rdNext
    /\ headerLen <= rdNext
    /\ eorStop = (nested # "none")
    /\ pc \in {"idle", "closed"} => nested = "none"
    /\ pc = "fill" => ~isClosed
    /\ pc = "use" /\ ~isClosed => rdNext <= stop /\ ~skip
    /\ nested = "begin" => phase = "begin"
    /\ headerLen > 0 => pc = "fill" /\ contentLen = 0 /\ paddingLen = 0 /\ nested = "none"
    /\ phase = "begin" => type = "NONE"
    /\ phase = "params" => type = "PARAMS"
    /\ phase = "app" => type \in {"STDIN", "DATA"}
    /\ phase # "begin" => isBeginProcessed
    /\ InProgress /\ phase = "begin" /\ isBeginProcessed => pc = "use" /\ nested = "none" /\ ~isClosed
    /\ nested # "none" => rdNext >= 1
    /\ Calm => ~cleared /\ ~wasFCloseCalled
    /\ InProgress /\ FCGI_errno # "none" /\ phase # "app" => pc = "use" /\ isClosed

\* How far one iteration gets, with the types of what it reads.
Within ==
    /\ rdNext \in Nat /\ buffStop \in Nat /\ rdNext < buffStop /\ sent \in Nat /\ buffStop <= sent
    /\ stop \in Nat /\ stopUnget \in Nat /\ stop <= buffStop
    /\ sent <= Len(wire) /\ Len(wire) \in Nat
    /\ contentLen \in Nat /\ paddingLen \in Nat /\ headerLen \in Nat /\ headerLen < HeaderLen
    /\ HeaderLen \in Nat /\ HeaderLen > 0
    /\ ContentPart \in Nat /\ ContentPart <= contentLen
    /\ AfterContent = rdNext + ContentPart /\ AfterContent <= buffStop
    /\ ContentPart = contentLen \/ AfterContent = buffStop
    /\ contentLen > 0 => ContentPart > 0
    /\ PaddingPart \in Nat /\ PaddingPart <= paddingLen
    /\ AfterPadding = rdNext + ContentPart + PaddingPart /\ AfterPadding <= buffStop
    /\ PaddingPart = paddingLen \/ AfterPadding = buffStop
    /\ HeaderPart \in Nat /\ HeaderPart <= HeaderLen - headerLen
    /\ AfterHeader = rdNext + ContentPart + PaddingPart + HeaderPart /\ AfterHeader <= buffStop
    /\ HeaderPart = HeaderLen - headerLen \/ AfterHeader = buffStop

-----------------------------------------------------------------------------
(* Where the reader is, and what it has delivered.                         *)

\* Offset p is where c bytes of content and d bytes of padding of the record
\* it lies in are still to come.
FramedIn(s, w, p, c, d) ==
    IF p = 0 THEN c = 0 /\ d = 0
    ELSE LET r == s[w[p][1]]
             k == w[p][2]
         IN  /\ k >= HeaderLen
             /\ IF k <= HeaderLen + r.len THEN c = HeaderLen + r.len - k /\ d = r.pad
                ELSE c = 0 /\ d = Size(r) - k

\* Offset p is inside a record, and a header is looked for there.
StrayIn(s, w, p, c, d) == c = 0 /\ d = 0 /\ p > 0 /\ w[p][2] < Size(s[w[p][1]])

\* Record i comes behind offset p, and n bytes of its header.
RecordAhead(s, w, p, i) ==
    /\ i \in 1..Len(s) /\ Size(s[i]) \in Nat
    /\ p + Size(s[i]) <= Len(w)
    /\ \A q \in p+1..p+Size(s[i]) : q \in 1..Len(w) /\ w[q] = <<i, q - p>>

HeaderAhead(s, w, p, n, i) ==
    /\ i \in 1..Len(s)
    /\ \A q \in p+1..p+n : q \in 1..Len(w) /\ w[q] = <<i, q - p>>
    /\ p + n \in 1..Len(w) /\ w[p + n] = <<i, n>>
    /\ n = HeaderLen => FramedIn(s, w, p + n, s[i].len, s[i].pad)
    /\ n = HeaderLen /\ s[i].len > 0 =>
          p + n + 1 \in 1..Len(w) /\ w[p + n + 1] = <<i, HeaderLen + 1>>

\* Where the reader stands, without the bytes of a header it has gathered.
Mark   == Position - headerLen
Cur    == IF Mark = 0 THEN 0 ELSE wire[Mark][1]
Framed == FramedIn(script, wire, Mark, contentLen, paddingLen)
Stray  == StrayIn(script, wire, Mark, contentLen, paddingLen)

\* FillBuffProc may still hand something out to the consumer.
Open == ~isClosed \/ nested # "none"
\* Nothing can follow what was read.
Dead == serverShut /\ sent = rdNext

Serving == InProgress /\ phase # "begin"

\* The reader knows its place in a record, or has lost it for a reason.
Tracked ==
    InProgress =>
      /\ Framed \/ Stray \/ (phase = "app" /\ isClosed /\ ~Calm)
      /\ nested # "none" => Framed
      /\ phase = "params" /\ Open => Framed
      /\ phase # "begin" /\ Stray => FCGI_errno # "none" \/ (Dead /\ headerLen = 0) \/ ~Calm
      /\ phase # "begin" /\ ~Open /\ FCGI_errno = "none" /\ Calm =>
            Dead \/ (contentLen = 0 /\ paddingLen = 0)

\* What is known while the BEGIN record of a request is read,
BeginBody ==
    nested = "begin" =>
        /\ begun # 0 /\ Mark > 0 /\ Cur = begun
        /\ Begins(script, begun) /\ script[begun].id = requestId
        /\ script[begun].len = BeginLen
        /\ pc = "fill" /\ contentLen > 0 /\ ~skip => HeaderLen + taken = wire[rdNext][2]
        /\ pc = "use" /\ ~isClosed => HeaderLen + taken + Available = wire[stop][2]

\* once it is,
BeginKnown ==
    InProgress /\ phase = "begin" /\ isBeginProcessed =>
        /\ FCGI_errno = "none"
        /\ begun # 0 /\ rdNext = stop /\ contentLen = 0 /\ paddingLen = 0 /\ Framed
        /\ Mark > 0 /\ Cur = begun /\ Begins(script, begun) /\ script[begun].id = requestId

\* and until FCGX_Accept_r goes on.
Unserved ==
    InProgress /\ phase = "begin" =>
        got = [t \in Streams |-> <<>>] /\ ~wasFCloseCalled /\ ~cleared

Beginning == BeginBody /\ BeginKnown /\ Unserved

\* The bytes up to offset p that the consumer of stream t is to get.
WantedCells(t) == {cell \in Nat \X Nat : Wanted(cell, t)}
Seen(t, p) == Selected(SubSeq(wire, 1, p), WantedCells(t))
SeenOf(t)  == Seen(t, rdNext)
RecWanted(i, t) ==
    script[i].type = t /\ script[i].id = requestId /\ script[i].req = script[begun].req
Barren(p) == \A q \in p+1..Len(wire) : \A t \in Streams : ~Wanted(wire[q], t)

\* Record k, up to record c, was taken for one of the request's.
OwnUpTo(k, c) == begun < k /\ k <= c /\ script[k].id = requestId /\ script[k].type # "BEGIN"
Own(k) == OwnUpTo(k, Cur)

Known == begun # 0 /\ Begins(script, begun) /\ script[begun].id = requestId

Identified ==
    /\ Known
    /\ Open \/ Calm \/ phase = "params" => Mark > 0 /\ begun <= Cur
    /\ nested = "values" => script[Cur].id = 0
    /\ phase = "params" => ~cleared /\ ~wasFCloseCalled

\* The records so far came in the order of the streams.
InOrder ==
    /\ phase = "params" => \A k \in DOMAIN script :
          Own(k) /\ (Open \/ k < Cur) => script[k].type = "PARAMS"
    /\ phase = "app" /\ ~Stray /\ (Open \/ (FCGI_errno = "none" /\ Calm)) =>
          \A k, l \in DOMAIN script :
             k < l /\ Own(k) /\ Own(l) => ~(script[k].type = "STDIN" /\ script[l].type = "PARAMS")

\* What is skipped is not wanted.
Skipping ==
    skip /\ (Open \/ Framed) =>
        IF contentLen > 0 THEN \A t \in Streams : ~RecWanted(Cur, t) ELSE Barren(rdNext)

\* What is handed out is wanted.
Handed ==
    /\ Open /\ contentLen > 0 /\ ~skip /\ nested = "none" => RecWanted(Cur, type)
    /\ pc = "use" /\ ~isClosed /\ nested # "none" =>
          \A q \in rdNext+1..stop : \A t \in Streams : ~Wanted(wire[q], t)
    /\ pc = "use" /\ ~isClosed /\ nested = "none" =>
          \/ stop = rdNext /\ got[type] = <<>>
          \/ ~Stray /\ \A q \in stopUnget+1..stop : Wanted(wire[q], type)

\* What was handed out is what the reader has gone past.
Delivered ==
    /\ Open /\ ~Stray => got[type] = SeenOf(type)
    /\ Open /\ Stray => got[type] = <<>>
    /\ ~Open => got[type] = SeenOf(type) \/ got[type] = <<>>

\* Nothing of the streams to come has gone past.
Future ==
    /\ phase = "params" => /\ got["STDIN"] = <<>> /\ got["DATA"] = <<>>
                           /\ SeenOf("STDIN") = <<>> /\ SeenOf("DATA") = <<>>
    /\ type = "STDIN" => /\ got["DATA"] = <<>>
                         /\ FCGI_errno = "none" /\ Calm => SeenOf("DATA") = <<>>

\* The streams read before.
Past ==
    /\ phase = "app" => IsPrefix(got["PARAMS"], Expected("PARAMS"))
    /\ type = "DATA" => IsPrefix(got["STDIN"], Expected("STDIN"))

\* A stream that ended without trouble was delivered whole.
Untroubled == FCGI_errno = "none" /\ ~serverShut /\ ~cleared
Complete ==
    /\ ~Open /\ Untroubled /\ ~wasFCloseCalled => got[type] = Expected(type)
    /\ phase = "app" /\ Untroubled => got["PARAMS"] = Expected("PARAMS")

Settled ==
    /\ Identified /\ InOrder /\ Skipping /\ Handed /\ Delivered /\ Future /\ Past /\ Complete
ServingInv == Serving => Settled

\* Where the offsets are.
Places ==
    /\ script \in Scripts /\ script \in Seq(Record) /\ Shape(script, wire)
    /\ DOMAIN script = 1..Len(script) /\ Len(script) \in Nat
    /\ \A i \in 1..Len(script) : script[i] \in Record
    /\ wire \in Seq(Cell) /\ Len(wire) \in Nat
    /\ \A p \in 1..Len(wire) : wire[p] \in Cell /\ wire[p][1] \in 1..Len(script) /\ wire[p][2] \in Nat
    /\ HeaderLen \in Nat /\ HeaderLen > 0
    /\ sent \in Nat /\ sent <= Len(wire) /\ buffStop \in Nat /\ buffStop <= sent
    /\ rdNext \in Nat /\ rdNext <= buffStop /\ stop \in Nat /\ stop <= buffStop
    /\ stopUnget \in Nat /\ stopUnget <= rdNext
    /\ contentLen \in Nat /\ paddingLen \in Nat
    /\ headerLen \in Nat /\ headerLen < HeaderLen /\ headerLen <= rdNext
    /\ Mark \in 0..Len(wire)
    /\ pc = "fill" => Mark = rdNext - headerLen
    /\ pc = "use" => headerLen = 0 /\ Mark = IF isClosed THEN rdNext ELSE stop

\* Who may ask for FCGI_DATA.
NoFilter == (~Calm => role # "FILTER") /\ (type = "DATA" => Calm)

\* The inductive invariant.
ReaderInv == Typed /\ Control /\ NoFilter /\ Tracked /\ Beginning /\ ServingInv

-----------------------------------------------------------------------------
(* One request after another on a kept connection.                         *)

AtEnd(p) == FramedIn(script, wire, p, 0, 0)
RecordAt(p) == IF p = 0 THEN 0 ELSE wire[p][1]

\* The answers to the first c records.
Calls == {i \in Nat : CallsForAnswer(i)}
AnsweredUpTo(c) == replies = Selected([i \in 1..c |-> i], Calls)

\* The server has sent whole records, none of a request that is to come later.
Sending ==
    /\ ~serverShut
    /\ AtEnd(sent)
    /\ \A p \in 1..sent : script[wire[p][1]].req <= served + 1

\* Between two requests nothing is left in the buffer.
Between ==
    pc = "idle" =>
        /\ FCGI_errno = "none"
        /\ AtEnd(buffStop)
        /\ \A j \in DOMAIN script :
              IF j <= RecordAt(buffStop) THEN script[j].req <= served ELSE script[j].req > served
        /\ AnsweredUpTo(RecordAt(buffStop))

Accepted == nested = "begin" \/ isBeginProcessed
\* The request that is read is the first that was not served yet.
Turn ==
    /\ \A j \in DOMAIN script : j > Cur => script[j].req > served
    /\ Accepted => /\ Known /\ begun <= Cur /\ script[begun].req = served + 1
                   /\ \A j \in 1..begun-1 : script[j].type = "BEGIN" => script[j].req <= served
    /\ ~Accepted => \A j \in 1..Cur : script[j].type = "BEGIN" => script[j].req <= served
    /\ isBeginProcessed => role = script[begun].role /\ keepConnection = script[begun].keep
    /\ phase # "begin" => isBeginProcessed
    /\ type = "DATA" => role = "FILTER"

\* Before it begins all content is skipped.
Waiting ==
    phase = "begin" /\ nested = "none" =>
        /\ contentLen > 0 => skip
        /\ pc = "use" => isBeginProcessed

\* A stream that is closed has ended with the current record.
StreamEnded ==
    Serving /\ ~Open =>
        /\ begun < Cur /\ script[Cur].type = type /\ script[Cur].id = requestId
        /\ script[Cur].len = 0

Answering ==
    /\ nested = "values" => Cur > 0 /\ script[Cur].id = 0
    /\ AnsweredUpTo(IF nested = "values" THEN Cur - 1 ELSE Cur)

OnTrack == Framed /\ Turn /\ Waiting /\ StreamEnded /\ Answering
OrderlyInv == Sending /\ Between /\ (InProgress /\ FCGI_errno = "none" => OnTrack)

=============================================================================
