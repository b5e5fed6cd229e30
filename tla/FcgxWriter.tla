----------------------------- MODULE FcgxWriter -----------------------------
(***************************************************************************)
(* The two writers of one request, request->out and request->err, from     *)
(* NewWriter to FCGX_Finish_r (libfcgi/fcgiapp.c): FCGX_PutStr and         *)
(* FCGX_PutChar, FCGX_FFlush, FCGX_FClose, EmptyBuffProc,                  *)
(* WriteCloseRecords and write_it_all.                                     *)
(*                                                                         *)
(* Bytes are tagged tuples: what matters about a byte is whether it is     *)
(* part of a header, of the content, of the padding or of the body of      *)
(* FCGI_END_REQUEST.  buf[w] is the used part of data->buff, so Len(buf[w])*)
(* is wrNext - data->buff.  The calls of one request run in one thread; a  *)
(* call takes several steps, one per pass through its loop.                *)
(***************************************************************************)
EXTENDS Integers, Sequences, FiniteSets, SequencesExt, SequenceOps

CONSTANTS
    Asked,      \* the buffer lengths NewWriter is asked for
    PutSizes,   \* the lengths of the strings the application writes
    MaxPuts,    \* bound: calls of FCGX_PutStr in a request
    MaxAnswers, \* bound: records the reader of the request answers
    CutAt,      \* bound: the bytes that got out when a write fails; {}: none fails
    KeepConn    \* FCGI_KEEP_CONN, as the request asked for it

ASSUME AskedAssumption == Asked \subseteq Nat
ASSUME PutAssumption ==
    PutSizes \subseteq Nat \ {0} /\ MaxPuts \in Nat /\ MaxAnswers \in Nat
ASSUME ModeAssumption == CutAt \subseteq Nat /\ KeepConn \in BOOLEAN

Writers == {"out", "err"}

HeaderLen == 8          \* sizeof(FCGI_Header)
EndBodyLen == 8         \* sizeof(FCGI_EndRequestBody)
MaxLength == 65535      \* FCGI_MAX_LENGTH

Smaller(a, b) == IF a < b THEN a ELSE b
Larger(a, b) == IF a < b THEN b ELSE a

AlignInt8(n) == ((n + 7) \div 8) * 8

\* Mutant of BufferLength: the length is not rounded up.
UnalignedLength(n, aligned) ==
    LET len == Smaller(Larger(n, 32), MaxLength + 1)
    IN  IF aligned THEN len ELSE len - 8

\* data->bufflen for a request of n bytes, when Malloc returned a pointer that
\* is a multiple of 8 or one that is not.
BufferLength(n, aligned) ==
    LET len == AlignInt8(Smaller(Larger(n, 32), MaxLength + 1))
    IN  IF aligned THEN len ELSE len - 8

VARIABLES
    bufLen,            \* data->bufflen per writer
    buf,               \* the bytes from data->buff to wrNext
    stop,              \* stream->stop - data->buff
    isClosed, wasFCloseCalled, FCGI_errno, isAnythingWritten, rawWrite,
    nWriters,          \* reqDataPtr->nWriters
    given,             \* content bytes each writer has taken
    puts, answers,     \* calls so far
    busy,              \* the writer a call is running on, or "none"
    stage,             \* where the call is: "put" | "eof" | "end" | "last"
    todo,              \* the bytes the running FCGX_PutStr has yet to copy
    finish,            \* FCGX_Finish_r: "no" | "err" | "out" | "done"; or "never"
    close,             \* the local variable of FCGX_Finish_r
    cleared,           \* the writers whose error FCGX_ClearError has cleared
    wire               \* the bytes written to ipcFd

streams == <<bufLen, buf, stop, isClosed, wasFCloseCalled, FCGI_errno,
             isAnythingWritten, rawWrite>>
call == <<busy, stage, todo>>
vars == <<streams, nWriters, given, puts, answers, call, finish, close, cleared, wire>>

-----------------------------------------------------------------------------
(* Bytes.                                                                  *)

Data(w, n) == <<"data", w, n>>
Pad        == <<"pad">>
Room       == <<"room">>     \* space kept for a header
Body(k)    == <<"body", k>>
HeadByte(t, len, pad, k) == <<"head", t, len, pad, k>>

Byte == ({"data"} \X Writers \X Nat) \cup {Pad, Room, <<"answer">>}
        \cup {Body(k) : k \in 1..EndBodyLen}
        \cup ({"head"} \X (Writers \cup {"END", "ANSWER"}) \X Nat \X Nat \X (1..HeaderLen))

Times(n, byte) == [k \in 1..n |-> byte]

\* MakeHeader, whose assertions bound both lengths.
MakeHeader(t, len, pad) == [k \in 1..HeaderLen |-> HeadByte(t, len, pad, k)]
EndRequest == MakeHeader("END", EndBodyLen, 0) \o [k \in 1..EndBodyLen |-> Body(k)]

\* The string of n bytes that the application writes next.
NextData(w, n) == [k \in 1..n |-> Data(w, given[w] + k)]

-----------------------------------------------------------------------------
(* EmptyBuffProc.                                                          *)

ContentLen(b) == Len(b) - HeaderLen
PadLen(b) == AlignInt8(ContentLen(b)) - ContentLen(b)

\* Mutant of Sealed: the header is counted as content.
OverlongSealed(w, b) ==
    IF rawWrite[w] THEN b
    ELSE IF ContentLen(b) > 0
         THEN MakeHeader(w, Len(b), PadLen(b))
              \o SubSeq(b, HeaderLen + 1, Len(b)) \o Times(PadLen(b), Pad)
         ELSE <<>>

\* The buffer as a record: padded, with its header; empty without content.
Sealed(w, b) ==
    IF rawWrite[w] THEN b
    ELSE IF ContentLen(b) > 0
         THEN MakeHeader(w, ContentLen(b), PadLen(b))
              \o SubSeq(b, HeaderLen + 1, Len(b)) \o Times(PadLen(b), Pad)
         ELSE <<>>

\* The empty buffer of w; outside raw mode the space for a header is kept.
Fresh(w) == IF rawWrite[w] THEN <<>> ELSE Times(HeaderLen, Room)

\* write_it_all of b, and what is left in the buffer of w: nothing, or, after
\* an error that let some of b through, all of b.
WriteAll(w, b) ==
    \/ /\ wire' = wire \o b
       /\ buf' = [buf EXCEPT ![w] = Fresh(w)]
       /\ UNCHANGED FCGI_errno
    \/ /\ \E k \in CutAt : k < Len(b) /\ wire' = wire \o SubSeq(b, 1, k)
       /\ buf' = [buf EXCEPT ![w] = b]
       /\ FCGI_errno' = [FCGI_errno EXCEPT ![w] = TRUE]

\* EmptyBuffProc(stream, FALSE) on buffer contents b; SetError closes.
EmptyBuff(w, b) ==
    /\ WriteAll(w, Sealed(w, b))
    /\ isClosed' = [isClosed EXCEPT ![w] = @ \/ FCGI_errno'[w]]
    /\ isAnythingWritten' = [isAnythingWritten EXCEPT ![w] = @ \/ Sealed(w, b) # <<>>]
    /\ UNCHANGED <<bufLen, stop, wasFCloseCalled, rawWrite>>

-----------------------------------------------------------------------------
(* FCGX_PutStr, called by the application or by WriteCloseRecords.         *)

Space(w) == stop[w] - Len(buf[w])
Part(w) == Smaller(Len(todo), Space(w))
Filled(w) == buf[w] \o SubSeq(todo, 1, Part(w))

Count(w, n) == given' = IF stage = "put" THEN [given EXCEPT ![w] = @ + n] ELSE given

\* Mutant of AfterPut: every writer that closes ends the request.
EndPerWriter(w) ==
    CASE stage = "put" -> busy' = "none" /\ UNCHANGED <<stage, nWriters>> /\ todo' = <<>>
      [] stage = "eof" -> /\ stage' = "end"
                          /\ todo' = EndRequest
                          /\ UNCHANGED <<busy, nWriters>>
      [] stage = "end" -> /\ stage' = "last"
                          /\ todo' = <<>>
                          /\ nWriters' = nWriters - 1
                          /\ UNCHANGED busy

\* What runs after FCGX_PutStr has returned.
AfterPut(w) ==
    CASE stage = "put" -> busy' = "none" /\ UNCHANGED <<stage, nWriters>> /\ todo' = <<>>
      [] stage = "eof" -> /\ stage' = "end"
                          /\ todo' = IF nWriters = 1 THEN EndRequest ELSE <<>>
                          /\ UNCHANGED <<busy, nWriters>>
      [] stage = "end" -> /\ stage' = "last"
                          /\ todo' = <<>>
                          /\ nWriters' = nWriters - 1
                          /\ UNCHANGED busy

\* All that is left fits.
PutLast(w) ==
    /\ busy = w /\ stage \in {"put", "eof", "end"}
    /\ Part(w) = Len(todo)
    /\ buf' = [buf EXCEPT ![w] = Filled(w)]
    /\ Count(w, Part(w))
    /\ AfterPut(w)
    /\ UNCHANGED <<bufLen, stop, isClosed, wasFCloseCalled, FCGI_errno,
                   isAnythingWritten, rawWrite, puts, answers, finish, close, cleared, wire>>

\* The buffer is full and emptied.
PutMore(w) ==
    /\ busy = w /\ stage \in {"put", "eof", "end"}
    /\ Part(w) < Len(todo)
    /\ ~isClosed[w]
    /\ EmptyBuff(w, Filled(w))
    /\ Count(w, Part(w))
    /\ todo' = SubSeq(todo, Part(w) + 1, Len(todo))
    /\ UNCHANGED <<nWriters, puts, answers, busy, stage, finish, close, cleared>>

\* Mutant of PutFails: isClosed is not tested, EmptyBuffProc is tried again.
TryingPutFails(w) ==
    /\ busy = w /\ stage \in {"put", "eof", "end"}
    /\ Part(w) < Len(todo)
    /\ isClosed[w]
    /\ UNCHANGED vars

\* The buffer is full and the stream is closed: FCGX_PutStr returns -1.
PutFails(w) ==
    /\ busy = w /\ stage \in {"put", "eof", "end"}
    /\ Part(w) < Len(todo)
    /\ isClosed[w]
    /\ buf' = [buf EXCEPT ![w] = Filled(w)]
    /\ Count(w, Part(w))
    /\ AfterPut(w)
    /\ UNCHANGED <<bufLen, stop, isClosed, wasFCloseCalled, FCGI_errno,
                   isAnythingWritten, rawWrite, puts, answers, finish, close, cleared, wire>>

-----------------------------------------------------------------------------
(* FCGX_FClose: EmptyBuffProc(stream, TRUE) with WriteCloseRecords.        *)

\* Mutant of BeginClose: FCGI_STDERR never gets an end of its own.
EndlessError(w) ==
    /\ buf' = [buf EXCEPT ![w] = Sealed(w, buf[w])]
    /\ rawWrite' = [rawWrite EXCEPT ![w] = TRUE]
    /\ busy' = w
    /\ stage' = "eof"
    /\ todo' = IF w = "err" THEN <<>> ELSE MakeHeader(w, 0, 0)
    /\ UNCHANGED <<bufLen, stop, isClosed, wasFCloseCalled, FCGI_errno,
                   isAnythingWritten, nWriters, given, puts, answers, cleared, wire>>

BeginClose(w) ==
    LET b == Sealed(w, buf[w]) IN
    /\ buf' = [buf EXCEPT ![w] = b]
    /\ rawWrite' = [rawWrite EXCEPT ![w] = TRUE]
    /\ busy' = w
    /\ stage' = "eof"
    /\ todo' = IF w = "err" /\ b = <<>> /\ ~isAnythingWritten[w]
               THEN <<>>
               ELSE MakeHeader(w, 0, 0)
    /\ UNCHANGED <<bufLen, stop, isClosed, wasFCloseCalled, FCGI_errno,
                   isAnythingWritten, nWriters, given, puts, answers, cleared, wire>>

\* The close records are in the buffer; it is written and the stream closed.
EndClose(w) ==
    /\ busy = w /\ stage = "last"
    /\ WriteAll(w, buf[w])
    /\ isAnythingWritten' = [isAnythingWritten EXCEPT ![w] = @ \/ buf[w] # <<>>]
    /\ wasFCloseCalled' = [wasFCloseCalled EXCEPT ![w] = TRUE]
    /\ isClosed' = [isClosed EXCEPT ![w] = TRUE]
    /\ stop' = [stop EXCEPT ![w] = Len(buf'[w])]
    /\ busy' = "none"
    /\ UNCHANGED <<bufLen, rawWrite, nWriters, given, puts, answers, stage, todo,
                   finish, close, cleared>>

-----------------------------------------------------------------------------
(* The calls of the application.                                           *)

\* The stream "out" alone, of FCGX_CreateWriter, which no FCGX_Finish_r closes.
Created == finish = "never"

Idle == busy = "none" /\ finish \in {"no", "never"}

AppPut(w) ==
    /\ Idle
    /\ puts < MaxPuts
    /\ puts' = puts + 1
    /\ busy' = w
    /\ stage' = "put"
    /\ \E n \in PutSizes : todo' = NextData(w, n)
    /\ UNCHANGED <<streams, nWriters, given, answers, finish, close, cleared, wire>>

AppFlush(w) ==
    /\ Idle
    /\ ~isClosed[w]
    /\ EmptyBuff(w, buf[w])
    /\ UNCHANGED <<nWriters, given, puts, answers, call, finish, close, cleared>>

\* Mutant of AppClose: wasFCloseCalled is not tested.
ClosingAgain(w) ==
    /\ Idle
    /\ BeginClose(w)
    /\ UNCHANGED <<finish, close>>

AppClose(w) ==
    /\ Idle
    /\ ~wasFCloseCalled[w]
    /\ BeginClose(w)
    /\ UNCHANGED <<finish, close>>

\* Mutant of AppClear: isClosed is cleared with the error, as the comment would
\* like to.
ReopeningClear(w) ==
    /\ Idle
    /\ FCGI_errno[w]
    /\ FCGI_errno' = [FCGI_errno EXCEPT ![w] = FALSE]
    /\ isClosed' = [isClosed EXCEPT ![w] = FALSE]
    /\ cleared' = cleared \cup {w}
    /\ UNCHANGED <<bufLen, buf, stop, wasFCloseCalled, isAnythingWritten, rawWrite,
                   nWriters, given, puts, answers, call, finish, close, wire>>

\* FCGX_ClearError; the stream stays closed.
AppClear(w) ==
    /\ Idle
    /\ FCGI_errno[w]
    /\ FCGI_errno' = [FCGI_errno EXCEPT ![w] = FALSE]
    /\ cleared' = cleared \cup {w}
    /\ UNCHANGED <<bufLen, buf, stop, isClosed, wasFCloseCalled, isAnythingWritten, rawWrite,
                   nWriters, given, puts, answers, call, finish, close, wire>>

\* While it fills request->in, the library answers a management record or an
\* attempt to multiplex, past the writers.
ReaderAnswer ==
    /\ Idle /\ ~Created
    /\ answers < MaxAnswers
    /\ answers' = answers + 1
    /\ wire' = wire \o MakeHeader("ANSWER", 8, 0) \o Times(8, <<"answer">>)
    /\ UNCHANGED <<streams, nWriters, given, puts, call, finish, close, cleared>>

-----------------------------------------------------------------------------
(* FCGX_Finish_r.                                                          *)

StartFinish ==
    /\ Idle /\ ~Created
    /\ finish' = "err"
    /\ close' = ~KeepConn
    /\ UNCHANGED <<streams, nWriters, given, puts, answers, call, cleared, wire>>

FinishClose(w) ==
    /\ busy = "none" /\ finish = w
    /\ ~wasFCloseCalled[w]
    /\ BeginClose(w)
    /\ UNCHANGED <<finish, close>>

\* Mutant of FinishNext: the result of FCGX_FClose is ignored.
CarelessFinishNext(w) ==
    /\ busy = "none" /\ finish = w
    /\ wasFCloseCalled[w]
    /\ finish' = IF w = "err" THEN "out" ELSE "done"
    /\ UNCHANGED <<streams, nWriters, given, puts, answers, call, close, cleared, wire>>

\* FCGX_FClose has returned; request->in may hold an error of its own.
FinishNext(w) ==
    /\ busy = "none" /\ finish = w
    /\ wasFCloseCalled[w]
    /\ finish' = IF w = "err" THEN "out" ELSE "done"
    /\ \/ close' = (close \/ FCGI_errno[w])
       \/ w = "out" /\ close' = TRUE
    /\ UNCHANGED <<streams, nWriters, given, puts, answers, call, cleared, wire>>

Finished == (finish = "done" \/ Created) /\ UNCHANGED vars

-----------------------------------------------------------------------------

Init ==
    /\ bufLen \in [Writers -> {BufferLength(n, a) : n \in Asked, a \in BOOLEAN}]
    /\ buf = [w \in Writers |-> Times(HeaderLen, Room)]
    /\ stop = bufLen
    /\ isClosed = [w \in Writers |-> FALSE]
    /\ wasFCloseCalled = [w \in Writers |-> FALSE]
    /\ FCGI_errno = [w \in Writers |-> FALSE]
    /\ isAnythingWritten = [w \in Writers |-> FALSE]
    /\ rawWrite = [w \in Writers |-> FALSE]
    /\ nWriters = 2
    /\ given = [w \in Writers |-> 0]
    /\ puts = 0 /\ answers = 0
    /\ busy = "none" /\ stage = "put" /\ todo = <<>>
    /\ finish \in {"no", "never"} /\ close = FALSE /\ cleared = {}
    /\ wire = <<>>

Library(w) == \/ PutLast(w) \/ PutMore(w) \/ PutFails(w) \/ EndClose(w)
              \/ FinishClose(w) \/ FinishNext(w)
App(w) == (Created => w = "out") /\ (AppPut(w) \/ AppFlush(w) \/ AppClose(w) \/ AppClear(w))

Next == \/ \E w \in Writers : Library(w) \/ App(w)
        \/ ReaderAnswer \/ StartFinish \/ Finished

Spec == Init /\ [][Next]_vars

\* A call of the library that has begun goes on.
FairSpec == Spec /\ WF_vars(\E w \in Writers : Library(w))

-----------------------------------------------------------------------------
(* Properties.                                                             *)

\* Every variable has its type.
TypeOK ==
    /\ bufLen \in [Writers -> Nat] /\ stop \in [Writers -> Nat]
    /\ buf \in [Writers -> Seq(Byte)] /\ todo \in Seq(Byte) /\ wire \in Seq(Byte)
    /\ isClosed \in [Writers -> BOOLEAN] /\ wasFCloseCalled \in [Writers -> BOOLEAN]
    /\ FCGI_errno \in [Writers -> BOOLEAN] /\ rawWrite \in [Writers -> BOOLEAN]
    /\ isAnythingWritten \in [Writers -> BOOLEAN]
    /\ nWriters \in 0..2
    /\ given \in [Writers -> Nat] /\ puts \in 0..MaxPuts /\ answers \in 0..MaxAnswers
    /\ busy \in Writers \cup {"none"} /\ stage \in {"put", "eof", "end", "last"}
    /\ finish \in {"no", "err", "out", "done", "never"} /\ close \in BOOLEAN
    /\ cleared \in SUBSET Writers

\* Padding cannot overflow the buffer (fcgiapp.c:1391-1394), and the lengths
\* put in the header pass the assertions of MakeHeader.
PaddingFits == \A w \in Writers :
    /\ Len(buf[w]) <= stop[w] /\ stop[w] <= bufLen[w]
    /\ ~rawWrite[w] => /\ Len(buf[w]) + PadLen(buf[w]) <= bufLen[w]
                       /\ ContentLen(buf[w]) \in 0..MaxLength
                       /\ PadLen(buf[w]) \in 0..255

Failed(w) == FCGI_errno[w] \/ w \in cleared
NoError == \A w \in Writers : ~Failed(w)

\* s from p on begins with one whole record.
IsHead(cell) == cell[1] = "head"
Starts(s) == {p \in DOMAIN s : IsHead(s[p]) /\ s[p][5] = 1}
Length(s, p) == HeaderLen + s[p][3] + s[p][4]
HoldsContent(cell, t) == CASE t \in Writers -> cell[1] = "data" /\ cell[2] = t
                           [] t = "END"     -> cell[1] = "body"
                           [] t = "ANSWER"  -> cell[1] = "answer"
RecordAt(s, p) ==
    LET t == s[p][2]  len == s[p][3]  pad == s[p][4] IN
    /\ p + Length(s, p) - 1 <= Len(s)
    /\ SubSeq(s, p, p + HeaderLen - 1) = MakeHeader(t, len, pad)
    /\ \A k \in 0..len-1 : HoldsContent(s[p + HeaderLen + k], t)
    /\ \A k \in 0..pad-1 : s[p + HeaderLen + len + k] = Pad
    /\ p + Length(s, p) \in Starts(s) \cup {Len(s) + 1}

WellFormed(s) == /\ s # <<>> => 1 \in Starts(s)
                 /\ \A p \in Starts(s) : RecordAt(s, p)

DataBytes(w) == {"data"} \X {w} \X Nat
DataOf(s, w) == Selected(s, DataBytes(w))

\* Between the calls of the application the connection carries whole records,
\* each with the content its header announces, whatever was written by which
\* writer and however the close records fell on buffer boundaries.  What the
\* application wrote is on the connection or in the buffer, once and in order,
\* and on the connection when the request is finished.
WireFidelity == NoError =>
    /\ busy = "none" => WellFormed(wire)
    /\ \A w \in Writers :
          /\ DataOf(wire, w) \o DataOf(buf[w], w) = [k \in 1..given[w] |-> Data(w, k)]
          /\ finish = "done" => DataOf(wire, w) = [k \in 1..given[w] |-> Data(w, k)]

EofOf(w) == {p \in DOMAIN wire : IsHead(wire[p]) /\ wire[p][2] = w /\ wire[p][3] = 0 /\ wire[p][5] = HeaderLen}
EndOf == {p \in DOMAIN wire : wire[p] = Body(EndBodyLen)}

\* FCGI_END_REQUEST and the end of each stream are sent at most once, in
\* whatever order the application closes its streams and however often, and
\* FCGI_END_REQUEST has been sent when FCGX_Finish_r returns.  The lone writer of
\* FCGX_CreateWriter never sends it (fcgiapp.c:1911).
EndOnce ==
    /\ NoError => /\ Cardinality(EndOf) <= 1
                  /\ \A w \in Writers : Cardinality(EofOf(w)) <= 1
                  /\ finish = "done" => EndOf # {}
    /\ Created => EndOf = {}

\* A connection that carries a torn record is not kept for another request,
\* unless the application has cleared the error that FCGX_Finish_r looks at.
TornWireCloses == (finish = "done" /\ ~WellFormed(wire)) => close \/ cleared # {}

\* After an error the application's bytes reach the connection only with the one
\* attempt of FCGX_FClose, and no second end is written, also when the error was
\* cleared: what the comment of FCGX_ClearError fears (fcgiapp.c:978-987).
SilentAfterError ==
    [][\A w \in Writers : Failed(w) /\ ~(busy = w /\ stage = "last") =>
          DataOf(wire', w) = DataOf(wire, w) /\ EofOf(w)' = EofOf(w)]_vars

\* FCGX_Finish_r comes to an end also when every write fails.
FinishReturns == (finish \in Writers) ~> (finish = "done")

-----------------------------------------------------------------------------
(* What the server sees on the connection, as ResponseStream describes it. *)

Seen == INSTANCE ResponseStream WITH
    Main <- "out",
    content <- [w \in Writers |-> DataOf(wire, w)],
    eof <- [w \in Writers |-> EofOf(w) # {}],
    ended <- EndOf # {},
    broken <- ~NoError

\* The writers implement the abstract response.
ImplementsResponse == Seen!Spec

=============================================================================
