----------------------------- MODULE FcgxReader -----------------------------
(***************************************************************************)
(* The reader side of one FastCGI connection (libfcgi/fcgiapp.c):          *)
(* FillBuffProc and the handlers it calls, the part of FCGX_Accept_r that  *)
(* reads a request, and the calls an application makes on its input        *)
(* stream until FCGX_Finish_r.                                             *)
(*                                                                         *)
(* A byte is known by the record it belongs to and its place in it: the    *)
(* cell <<i, k>> is byte k of the i-th record of script, the conversation  *)
(* the web server is going to hold.  Pointers into data->buff are offsets  *)
(* into the byte stream of the connection.  The buffer is refilled only    *)
(* when it is empty, so offsets lose nothing and need no buffer contents.  *)
(***************************************************************************)
EXTENDS Integers, Sequences, FiniteSets, SequencesExt, SequenceOps

CONSTANTS
    Scripts,    \* the conversations a web server may hold (sequences of records)
    HeaderLen,  \* sizeof(FCGI_Header)
    BeginLen,   \* sizeof(FCGI_BeginRequestBody)
    PairLen,    \* bytes of one encoded name-value pair
    BufLen,     \* data->bufflen of a reader
    Faults,     \* what may go wrong: subset of FaultKinds
    Drains,     \* TRUE: the application reads its input to EOF before it finishes
    Pipelined   \* TRUE: the server may send a request before the last one ended

FaultKinds == {"timeout", "eof", "eintr", "werr", "seq"}

ASSUME SizesAssumption ==
    /\ HeaderLen \in Nat \ {0}
    /\ BeginLen \in Nat \ {0}
    /\ PairLen \in Nat \ {0}
    /\ BufLen \in Nat \ {0}

ASSUME ModeAssumption ==
    Faults \subseteq FaultKinds /\ Drains \in BOOLEAN /\ Pipelined \in BOOLEAN

Streams == {"PARAMS", "STDIN", "DATA"}
RecordTypes == Streams \cup {"BEGIN", "GET_VALUES", "OTHER"}
Roles == {"RESPONDER", "FILTER", "UNKNOWN"}

\* What a header and, for BEGIN, its body say; req is the request, counted
\* from 1 in the order of the BEGIN records, that the record belongs to.
Record == [type : RecordTypes, id : Nat, len : Nat, pad : Nat, req : Nat,
           role : Roles, keep : BOOLEAN]


ASSUME ScriptsAssumption == Scripts \subseteq Seq(Record)

StreamTypes == Streams \cup {"NONE"}
Errors == {"none", "OS", "PROTOCOL", "VERSION", "PARAMS", "CALL_SEQ"}

VARIABLES
    script,     \* the conversation of this behaviour
    wire,       \* the same, as the sequence of its bytes
    sent,       \* bytes of it that the server has handed to the connection
    serverShut, \* the server has closed its end
    replies,    \* indices of the records the library answered, in order
    rdNext, stop, buffStop, stopUnget,                  \* offsets
    contentLen, paddingLen, skip, eorStop, headerLen,   \* FCGX_Stream_Data
    isClosed, FCGI_errno, type,
    requestId, isBeginProcessed, role, keepConnection,  \* FCGX_Request
    begun,      \* index of the BEGIN record that requestId was taken from, or 0
    pc,         \* "idle" | "fill" | "use" | "closed"
    phase,      \* who reads: "begin" | "params" | "app"
    nested,     \* whose recursive read: "none" | "begin" | "values"
    taken,      \* bytes the recursive reader has of its body or pair
    pairPos,    \* bytes ReadParams has of the pair it is reading
    got,        \* the cells delivered to the consumer, per stream
    served,     \* requests finished on this connection
    wasFCloseCalled,    \* of the application's input stream
    cleared     \* the application has called FCGX_ClearError on an error

server  == <<script, wire, sent, serverShut>>
ptrs    == <<rdNext, stop, buffStop, stopUnget>>
record  == <<contentLen, paddingLen, skip, eorStop, headerLen>>
status  == <<isClosed, FCGI_errno, type>>
request == <<requestId, isBeginProcessed, role, keepConnection, begun>>
control == <<pc, phase, nested, taken, pairPos>>
calls   == <<wasFCloseCalled, cleared>>
vars == <<server, calls, ptrs, record, status, request, control, got, served, replies>>

-----------------------------------------------------------------------------
(* The conversation as bytes.                                              *)

Size(r) == HeaderLen + r.len + r.pad

Bytes(s) == FlattenSeq([i \in DOMAIN s |-> [k \in 1..Size(s[i]) |-> <<i, k>>]])

IsContent(cell) == LET r == script[cell[1]]
                   IN  cell[2] > HeaderLen /\ cell[2] <= HeaderLen + r.len

\* The header a reader finds in the HeaderLen bytes that end at offset p: that
\* of a record, or, when they are not exactly one header, bytes whose first
\* is not FCGI_VERSION_1.
AlignedHeader(p) == p >= HeaderLen /\ wire[p][2] = HeaderLen
HeaderAt(p) == script[wire[p][1]]

Smaller(a, b) == IF a < b THEN a ELSE b

-----------------------------------------------------------------------------
(* The web server.                                                         *)

\* A server that does not pipeline begins a request after the last one ended.
MaySend(i) == Pipelined \/ script[i].req <= served + 1

\* The rest of the current record, and no more, goes out.
ServerSend ==
    /\ ~serverShut
    /\ sent < Len(wire)
    /\ LET i == wire[sent+1][1] IN
        /\ MaySend(i)
        /\ sent' = sent + 1 + (Size(script[i]) - wire[sent+1][2])
    /\ UNCHANGED <<script, wire, serverShut, calls, ptrs, record, status, request,
                   control, got, served, replies>>

\* The server goes away, with its last record sent in part or whole.
ServerClose ==
    /\ "eof" \in Faults
    /\ ~serverShut
    /\ serverShut' = TRUE
    /\ sent' \in sent..Len(wire)
    /\ sent < sent' => MaySend(wire[sent'][1]) /\ wire[sent'][1] = wire[sent+1][1]
    /\ UNCHANGED <<script, wire, calls, ptrs, record, status, request, control, got,
                   served, replies>>

-----------------------------------------------------------------------------
(* SetError: the first error is kept and the stream is closed.             *)

SetError(e) ==
    /\ FCGI_errno' = IF FCGI_errno = "none" THEN e ELSE FCGI_errno
    /\ isClosed' = TRUE

-----------------------------------------------------------------------------
(* FillBuffProc.  One iteration of its loop is one step; an iteration that *)
(* leaves pc at "fill" is a continue, one that sets it to "use" a return.  *)

\* Mutant of ContentPart: min() forgotten, content is taken for present.
UncheckedContentPart == contentLen

\* Where the iteration stands after skipping unwanted content ...
Unread        == buffStop - rdNext
ContentPart   == Smaller(contentLen, Unread)
AfterContent  == rdNext + ContentPart
\* ... after the padding ...
PaddingPart   == Smaller(paddingLen, buffStop - AfterContent)
AfterPadding  == AfterContent + PaddingPart
\* ... and after the header bytes that are present.
HeaderPart    == Smaller(HeaderLen - headerLen, buffStop - AfterPadding)
AfterHeader   == AfterPadding + HeaderPart

Filling  == pc = "fill" /\ rdNext # buffStop
MustRead == pc = "fill" /\ rdNext = buffStop

OSRead ==
    /\ MustRead
    /\ \E n \in 1..Smaller(BufLen, sent - buffStop) : buffStop' = buffStop + n
    /\ UNCHANGED <<server, calls, rdNext, stop, stopUnget, record, status, request,
                   control, got, served, replies>>

\* Mutant of OSReadFails: a receive timeout, and a signal, is waited out.
PatientOSReadFails ==
    /\ MustRead
    /\ serverShut /\ sent = buffStop
    /\ SetError("OS")
    /\ headerLen' = 0
    /\ pc' = "use"
    /\ UNCHANGED <<server, calls, ptrs, contentLen, paddingLen, skip, eorStop, type,
                   request, phase, nested, taken, pairPos, got, served, replies>>

\* Mutant of OSReadFails: an interrupted read is taken for the end of the stream.
EndingOSReadFails ==
    /\ MustRead
    /\ \/ "eintr" \in Faults /\ SetError("none")
       \/ serverShut /\ sent = buffStop /\ SetError("OS")
    /\ headerLen' = 0
    /\ pc' = "use"
    /\ UNCHANGED <<server, calls, ptrs, contentLen, paddingLen, skip, eorStop, type,
                   request, phase, nested, taken, pairPos, got, served, replies>>

\* OS_Read hands back -1 for an error and for end of file alike; at end of
\* file errno is what an earlier call left there, possibly 0.
OSReadFails ==
    /\ MustRead
    /\ \/ /\ "eintr" \in Faults
          /\ SetError("OS")
       \/ /\ "timeout" \in Faults
          /\ sent = buffStop
          /\ ~serverShut
          /\ SetError("OS")
       \/ /\ serverShut
          /\ sent = buffStop
          /\ \E e \in {"OS", "none"} : SetError(e)
    /\ headerLen' = 0      \* a local variable of FillBuffProc
    /\ pc' = "use"
    /\ UNCHANGED <<server, calls, ptrs, contentLen, paddingLen, skip, eorStop, type,
                   request, phase, nested, taken, pairPos, got, served, replies>>

\* Content the client wants is handed out, all that is in the buffer.
DeliverContent ==
    /\ Filling
    /\ contentLen > 0
    /\ ~skip
    /\ contentLen' = contentLen - ContentPart
    /\ stop' = AfterContent
    /\ stopUnget' = rdNext        \* by GetChar or GetStr, on return
    /\ pc' = "use"
    /\ UNCHANGED <<server, calls, rdNext, buffStop, paddingLen, skip,
                   eorStop, headerLen, status, request, phase, nested, taken,
                   pairPos, got, served, replies>>

\* More content to skip than the buffer holds.
SkipContent ==
    /\ Filling
    /\ skip
    /\ contentLen > ContentPart
    /\ contentLen' = contentLen - ContentPart
    /\ rdNext' = AfterContent
    /\ UNCHANGED <<server, calls, stop, buffStop, stopUnget, paddingLen, skip, eorStop,
                   headerLen, status, request, control, got, served, replies>>

\* The content of the record is used up: what an iteration goes on to.
PastContent ==
    /\ Filling
    /\ contentLen = 0 \/ (skip /\ contentLen = ContentPart)
    /\ contentLen' = 0
    /\ skip' = (skip /\ contentLen = 0)
    /\ paddingLen' = paddingLen - PaddingPart

\* More padding than the buffer holds.
SkipPadding ==
    /\ PastContent
    /\ paddingLen > PaddingPart
    /\ rdNext' = AfterPadding
    /\ UNCHANGED <<server, calls, stop, buffStop, stopUnget, eorStop, headerLen, status,
                   request, control, got, served, replies>>

\* The recursive reader is told of the end of its record.
DeliverEndOfRecord ==
    /\ PastContent
    /\ paddingLen = PaddingPart
    /\ eorStop
    /\ rdNext' = AfterPadding
    /\ stop' = AfterPadding
    /\ isClosed' = TRUE
    /\ pc' = "use"
    /\ UNCHANGED <<server, calls, buffStop, stopUnget, eorStop, headerLen, FCGI_errno,
                   type, request, phase, nested, taken, pairPos, got, served,
                   replies>>

\* Part of a header.
GatherHeader ==
    /\ PastContent
    /\ paddingLen = PaddingPart
    /\ ~eorStop
    /\ headerLen + HeaderPart < HeaderLen
    /\ headerLen' = headerLen + HeaderPart
    /\ rdNext' = AfterHeader
    /\ UNCHANGED <<server, calls, stop, buffStop, stopUnget, eorStop, status, request,
                   control, got, served, replies>>

-----------------------------------------------------------------------------
(* ProcessHeader and its two handlers.                                     *)

\* The iteration completes a header; stop = rdNext while it is interpreted.
AtHeader ==
    /\ Filling
    /\ contentLen = 0 \/ (skip /\ contentLen = ContentPart)
    /\ paddingLen = PaddingPart
    /\ ~eorStop
    /\ headerLen + HeaderPart = HeaderLen
    /\ headerLen' = 0
    /\ rdNext' = AfterHeader
    /\ stop' = AfterHeader
    /\ UNCHANGED <<server, calls, buffStop, stopUnget, type, phase, pairPos, got, served>>

KeepSkip == skip' = (skip /\ contentLen = 0)

\* The header makes sense, and the lengths in it are noted.
Header == HeaderAt(AfterHeader)
\* Mutant of AtRecord: the padding length is not noted.
PaddingIgnored ==
    /\ AtHeader
    /\ AlignedHeader(AfterHeader)
    /\ contentLen' = Header.len
    /\ paddingLen' = 0

AtRecord ==
    /\ AtHeader
    /\ AlignedHeader(AfterHeader)
    /\ contentLen' = Header.len
    /\ paddingLen' = Header.pad

ContinueFill == pc' = "fill" /\ UNCHANGED <<eorStop, isClosed, FCGI_errno, nested, taken>>
ReturnError(e) == pc' = "use" /\ SetError(e) /\ UNCHANGED <<eorStop, nested, taken>>
Recurse(who)  == /\ pc' = "fill" /\ eorStop' = TRUE /\ nested' = who /\ taken' = 0
                 /\ UNCHANGED <<isClosed, FCGI_errno>>

\* Mutant of Answer: nothing is written.
NoAnswer(i) == UNCHANGED replies

\* write_it_all of an answer to the record: it goes out, or fails.
Answer(i) == replies' = Append(replies, i)
AnswerFails == "werr" \in Faults /\ UNCHANGED replies

UnsupportedVersion ==
    /\ AtHeader
    /\ ~AlignedHeader(AfterHeader)
    /\ contentLen' = 0 /\ paddingLen' = 0
    /\ KeepSkip
    /\ ReturnError("VERSION")
    /\ UNCHANGED <<request, replies>>

RefuseBegin ==
    /\ AtRecord
    /\ Header.type = "BEGIN"
    /\ Header.id = 0 \/ Header.len # BeginLen
    /\ KeepSkip
    /\ ReturnError("PROTOCOL")
    /\ UNCHANGED <<request, replies>>

\* FCGI_CANT_MPX_CONN: a second request while one is being served.
RefuseMultiplexing ==
    /\ AtRecord
    /\ Header.type = "BEGIN"
    /\ Header.id # 0 /\ Header.len = BeginLen
    /\ isBeginProcessed
    /\ \/ Answer(wire[AfterHeader][1]) /\ skip' = TRUE /\ ContinueFill
       \/ AnswerFails /\ KeepSkip /\ ReturnError("OS")
    /\ UNCHANGED request

BeginRequest ==
    /\ AtRecord
    /\ Header.type = "BEGIN"
    /\ Header.id # 0 /\ Header.len = BeginLen
    /\ ~isBeginProcessed
    /\ requestId' = Header.id
    /\ begun' = wire[AfterHeader][1]
    /\ KeepSkip
    /\ Recurse("begin")
    /\ UNCHANGED <<isBeginProcessed, role, keepConnection, replies>>

GetValues ==
    /\ AtRecord
    /\ Header.type = "GET_VALUES" /\ Header.id = 0
    /\ KeepSkip
    /\ Recurse("values")
    /\ UNCHANGED <<request, replies>>

\* FCGI_UNKNOWN_TYPE is sent and the loop goes on; the content is not read.
UnknownManagement ==
    /\ AtRecord
    /\ Header.type \notin {"BEGIN", "GET_VALUES"} /\ Header.id = 0
    /\ KeepSkip
    /\ \/ Answer(wire[AfterHeader][1]) /\ ContinueFill
       \/ AnswerFails /\ ReturnError("OS")
    /\ UNCHANGED request

\* Mutant of ForeignRecord: skip is not set.
DeliveredForeignRecord ==
    /\ AtRecord
    /\ Header.type # "BEGIN" /\ Header.id # 0
    /\ Header.id # requestId
    /\ KeepSkip
    /\ ContinueFill
    /\ UNCHANGED <<request, replies>>

ForeignRecord ==
    /\ AtRecord
    /\ Header.type # "BEGIN" /\ Header.id # 0
    /\ Header.id # requestId
    /\ skip' = TRUE
    /\ ContinueFill
    /\ UNCHANGED <<request, replies>>

UnexpectedType ==
    /\ AtRecord
    /\ Header.type # "BEGIN" /\ Header.id # 0
    /\ Header.id = requestId
    /\ Header.type # type
    /\ KeepSkip
    /\ ReturnError("PROTOCOL")
    /\ UNCHANGED <<request, replies>>

StreamRecord ==
    /\ AtRecord
    /\ Header.id # 0 /\ Header.id = requestId
    /\ Header.type = type /\ Header.len > 0
    /\ KeepSkip
    /\ ContinueFill
    /\ UNCHANGED <<request, replies>>

\* Mutant of EndOfStream: the end is not told, the loop goes on.
MissedEndOfStream ==
    /\ AtRecord
    /\ Header.id # 0 /\ Header.id = requestId
    /\ Header.type = type /\ Header.len = 0
    /\ KeepSkip
    /\ ContinueFill
    /\ UNCHANGED <<request, replies>>

EndOfStream ==
    /\ AtRecord
    /\ Header.id # 0 /\ Header.id = requestId
    /\ Header.type = type /\ Header.len = 0
    /\ KeepSkip
    /\ isClosed' = TRUE
    /\ pc' = "use"
    /\ UNCHANGED <<eorStop, FCGI_errno, nested, taken, request, replies>>

-----------------------------------------------------------------------------
(* The recursive reads of ProcessBeginRecord (FCGX_GetStr of the body) and *)
(* ProcessManagementRecord (ReadParams of the content).  Both consume what *)
(* FillBuffProc hands out as soon as it returns.                           *)

Available == stop - rdNext

Reading(who) == pc = "use" /\ nested = who

BeginBodyPart ==
    /\ Reading("begin")
    /\ ~isClosed
    /\ taken + Available < BeginLen
    /\ taken' = taken + Available
    /\ rdNext' = stop
    /\ pc' = "fill"
    /\ UNCHANGED <<server, calls, stop, buffStop, stopUnget, record, status, request,
                   phase, nested, pairPos, got, served, replies>>

\* The body is complete: FillBuffProc returns to FCGX_Accept_r.
BeginBodyDone ==
    /\ Reading("begin")
    /\ ~isClosed
    /\ taken + Available = BeginLen
    /\ rdNext' = stop
    /\ role' = HeaderAt(stop).role
    /\ keepConnection' = HeaderAt(stop).keep
    /\ isBeginProcessed' = TRUE
    /\ nested' = "none"
    /\ eorStop' = FALSE
    /\ taken' = 0
    /\ UNCHANGED <<server, calls, stop, buffStop, stopUnget, contentLen, paddingLen,
                   skip, headerLen, status, requestId, begun, pc, phase, pairPos,
                   got, served, replies>>

\* The recursive read ends with an error: FillBuffProc sets e and returns.
NestedError(e) ==
    /\ SetError(e)
    /\ nested' = "none"
    /\ eorStop' = FALSE
    /\ taken' = 0
    /\ UNCHANGED <<server, calls, ptrs, contentLen, paddingLen, skip, headerLen, type,
                   request, pc, phase, pairPos, got, served, replies>>

BeginBodyCut ==
    /\ Reading("begin")
    /\ isClosed
    /\ NestedError("PROTOCOL")

ValuesPart ==
    /\ Reading("values")
    /\ ~isClosed
    /\ taken' = (taken + Available) % PairLen
    /\ rdNext' = stop
    /\ pc' = "fill"
    /\ UNCHANGED <<server, calls, stop, buffStop, stopUnget, record, status, request,
                   phase, nested, pairPos, got, served, replies>>

ValuesComplete == FCGI_errno = "none" /\ taken = 0 /\ contentLen = 0

\* FCGI_GET_VALUES_RESULT is sent and FillBuffProc goes on to the next record.
ValuesDone ==
    /\ Reading("values")
    /\ isClosed
    /\ ValuesComplete
    /\ Answer(wire[rdNext][1])
    /\ isClosed' = FALSE
    /\ nested' = "none"
    /\ eorStop' = FALSE
    /\ taken' = 0
    /\ pc' = "fill"
    /\ UNCHANGED <<server, calls, ptrs, contentLen, paddingLen, skip, headerLen,
                   FCGI_errno, type, request, phase, pairPos, got, served>>

ValuesCut ==
    /\ Reading("values")
    /\ isClosed
    /\ \/ ~ValuesComplete /\ NestedError(IF taken = 0 THEN "PROTOCOL" ELSE "PARAMS")
       \/ ValuesComplete /\ AnswerFails /\ NestedError("OS")

-----------------------------------------------------------------------------
(* FCGX_Accept_r on the open connection.                                   *)

\* NewReader on an empty buffer: what the last reader still held is gone.
AcceptRequest ==
    /\ pc = "idle"
    /\ rdNext' = buffStop /\ stop' = buffStop /\ stopUnget' = buffStop
    /\ contentLen' = 0 /\ paddingLen' = 0 /\ headerLen' = 0
    /\ skip' = FALSE /\ eorStop' = FALSE
    /\ isClosed' = FALSE /\ FCGI_errno' = "none" /\ type' = "NONE"
    /\ isBeginProcessed' = FALSE
    /\ phase' = "begin" /\ pc' = "fill" /\ nested' = "none"
    /\ taken' = 0 /\ pairPos' = 0
    /\ got' = [t \in Streams |-> <<>>]
    /\ wasFCloseCalled' = FALSE /\ cleared' = FALSE
    /\ UNCHANGED <<server, buffStop, requestId, role, keepConnection, begun, served, replies>>

\* Mutant of SetReaderType: the new stream begins without the error of the last.
ForgivingSetReaderType(t) ==
    /\ type' = t
    /\ eorStop' = FALSE /\ skip' = FALSE
    /\ contentLen' = 0 /\ paddingLen' = 0
    /\ stop' = rdNext
    /\ isClosed' = FALSE /\ FCGI_errno' = "none"
    /\ UNCHANGED <<rdNext, buffStop, stopUnget, headerLen>>

SetReaderType(t) ==
    /\ type' = t
    /\ eorStop' = FALSE /\ skip' = FALSE
    /\ contentLen' = 0 /\ paddingLen' = 0
    /\ stop' = rdNext
    /\ isClosed' = FALSE
    /\ UNCHANGED <<rdNext, buffStop, stopUnget, headerLen, FCGI_errno>>

InAccept(where) == Reading("none") /\ phase = where

BeginDone ==
    /\ InAccept("begin")
    /\ isBeginProcessed /\ role # "UNKNOWN"
    /\ SetReaderType("PARAMS")
    /\ phase' = "params"
    /\ pc' = "fill"
    /\ UNCHANGED <<server, calls, request, nested, taken, pairPos, got, served, replies>>

\* TryAgain: the connection is closed.
GiveUp ==
    /\ \/ InAccept("begin") /\ (~isBeginProcessed \/ role = "UNKNOWN")
       \/ InAccept("params") /\ isClosed /\ pairPos # 0
    /\ pc' = "closed"
    /\ UNCHANGED <<server, calls, ptrs, record, status, request, phase, nested, taken,
                   pairPos, got, served, replies>>

\* m bytes from rdNext on go to the consumer of the stream.
Deliver(m) ==
    /\ got' = [got EXCEPT ![type] = @ \o SubSeq(wire, rdNext + 1, rdNext + m)]
    /\ rdNext' = rdNext + m

ParamsPart ==
    /\ InAccept("params")
    /\ ~isClosed
    /\ Deliver(Available)
    /\ pairPos' = (pairPos + Available) % PairLen
    /\ pc' = "fill"
    /\ UNCHANGED <<server, calls, stop, buffStop, stopUnget, record, status, request,
                   phase, nested, taken, served, replies>>

\* ReadParams returns 0 and FCGX_Accept_r succeeds.
ParamsDone ==
    /\ InAccept("params")
    /\ isClosed
    /\ pairPos = 0
    /\ SetReaderType("STDIN")
    /\ phase' = "app"
    /\ UNCHANGED <<server, calls, request, pc, nested, taken, pairPos, got, served, replies>>

-----------------------------------------------------------------------------
(* The application.                                                        *)

\* FCGX_GetChar, FCGX_GetStr, FCGX_GetLine: take what is there, or ask for more.
AppGet ==
    /\ InAccept("app")
    /\ ~isClosed
    /\ \E m \in 1..Available : Deliver(m)
    /\ UNCHANGED <<server, calls, stop, buffStop, stopUnget, record, status, request,
                   control, served, replies>>

AppFill ==
    /\ InAccept("app")
    /\ ~isClosed
    /\ rdNext = stop
    /\ pc' = "fill"
    /\ UNCHANGED <<server, calls, ptrs, record, status, request, phase, nested, taken,
                   pairPos, got, served, replies>>

\* FCGX_UnGetChar of a byte the application has been given.
AppUnGet ==
    /\ InAccept("app")
    /\ ~isClosed
    /\ rdNext # stopUnget
    /\ got[type] # <<>>
    /\ rdNext' = rdNext - 1
    /\ got' = [got EXCEPT ![type] = Front(@)]
    /\ UNCHANGED <<server, calls, stop, buffStop, stopUnget, record, status, request,
                   control, served, replies>>

AtEOF == isClosed /\ FCGI_errno = "none"

\* FCGX_StartFilterData; an application calls it at end of file on FCGI_STDIN,
\* or too early when Faults has "seq".
AppStartFilterData ==
    /\ InAccept("app")
    /\ "seq" \in Faults \/ (AtEOF /\ role = "FILTER" /\ type = "STDIN")
    /\ IF role = "FILTER" /\ isClosed /\ type = "STDIN"
       THEN SetReaderType("DATA")
       ELSE SetError("CALL_SEQ") /\ UNCHANGED <<ptrs, record, type>>
    /\ UNCHANGED <<server, calls, request, control, got, served, replies>>

\* FCGX_FClose by the application: what was handed out and not taken is dropped.
AppFClose ==
    /\ InAccept("app")
    /\ "seq" \in Faults
    /\ ~wasFCloseCalled
    /\ wasFCloseCalled' = TRUE
    /\ isClosed' = TRUE
    /\ stop' = rdNext
    /\ UNCHANGED <<server, cleared, rdNext, buffStop, stopUnget, record, FCGI_errno, type,
                   request, control, got, served, replies>>

\* FCGX_ClearError; the stream stays closed.
AppClearError ==
    /\ InAccept("app")
    /\ "seq" \in Faults
    /\ FCGI_errno # "none"
    /\ FCGI_errno' = "none"
    /\ cleared' = TRUE
    /\ UNCHANGED <<server, wasFCloseCalled, ptrs, record, isClosed, type, request, control,
                   got, served, replies>>

\* FCGX_Finish_r, as FCGX_Accept_r also calls it; FCGX_FClose of a writer may
\* fail.  A kept connection is ready for the next request.
AppFinish ==
    /\ InAccept("app")
    /\ Drains => isClosed /\ (AtEOF /\ role = "FILTER" => type = "DATA")
    /\ \/ keepConnection /\ FCGI_errno = "none" /\ pc' = "idle"
       \/ ~(keepConnection /\ FCGI_errno = "none") /\ pc' = "closed"
       \/ "werr" \in Faults /\ pc' = "closed"
    /\ served' = served + 1
    /\ UNCHANGED <<server, calls, ptrs, record, status, request, phase, nested, taken,
                   pairPos, got, replies>>

-----------------------------------------------------------------------------
\* The connection is closed, or waits on a server that has nothing to say.
Finished ==
    /\ pc = "closed" \/ (MustRead /\ sent = Len(wire) /\ buffStop = sent)
    /\ UNCHANGED vars

Init ==
    /\ script \in Scripts
    /\ wire = Bytes(script)
    /\ sent = 0 /\ serverShut = FALSE
    /\ rdNext = 0 /\ stop = 0 /\ buffStop = 0 /\ stopUnget = 0
    /\ contentLen = 0 /\ paddingLen = 0 /\ headerLen = 0
    /\ skip = FALSE /\ eorStop = FALSE
    /\ isClosed = FALSE /\ FCGI_errno = "none" /\ type = "NONE"
    /\ requestId = 0 /\ isBeginProcessed = FALSE
    /\ role = "UNKNOWN" /\ keepConnection = FALSE /\ begun = 0
    /\ pc = "idle" /\ phase = "begin" /\ nested = "none"
    /\ taken = 0 /\ pairPos = 0
    /\ got = [t \in Streams |-> <<>>]
    /\ served = 0 /\ replies = <<>>
    /\ wasFCloseCalled = FALSE /\ cleared = FALSE

Server == ServerSend \/ ServerClose

FillBuffProc ==
    \/ OSRead \/ OSReadFails \/ DeliverContent \/ SkipContent \/ SkipPadding
    \/ DeliverEndOfRecord \/ GatherHeader

ProcessHeader ==
    \/ UnsupportedVersion \/ RefuseBegin \/ RefuseMultiplexing \/ BeginRequest
    \/ GetValues \/ UnknownManagement \/ ForeignRecord \/ UnexpectedType
    \/ StreamRecord \/ EndOfStream

NestedRead ==
    \/ BeginBodyPart \/ BeginBodyDone \/ BeginBodyCut
    \/ ValuesPart \/ ValuesDone \/ ValuesCut

Accept == BeginDone \/ GiveUp \/ ParamsPart \/ ParamsDone

Library == FillBuffProc \/ ProcessHeader \/ NestedRead \/ Accept

App == AcceptRequest \/ AppGet \/ AppFill \/ AppUnGet \/ AppStartFilterData
       \/ AppFClose \/ AppClearError \/ AppFinish

Next == Server \/ Library \/ App \/ Finished

Spec == Init /\ [][Next]_vars

\* Library code that is called runs; the server and the application go on.
\* OSReadFails covers the receive timeout when Faults has "timeout".
Fairness == WF_vars(Library) /\ WF_vars(ServerSend)
AppFairness == /\ WF_vars(AcceptRequest) /\ WF_vars(AppGet \/ AppFill)
               /\ WF_vars(AppStartFilterData) /\ WF_vars(AppFinish)
LibrarySpec == Spec /\ WF_vars(Library)
FairSpec == Spec /\ Fairness /\ AppFairness

-----------------------------------------------------------------------------
(* Conversations the reader gets right: what its theorems assume of a web   *)
(* server, and of the application.                                         *)

\* Content of the stream with this id that the request begun by record b is to get.
ContentOf(s, b, i) ==
    s[i].type \in Streams /\ s[i].len > 0 /\ s[i].id = s[b].id /\ s[i].req = s[b].req

\* A server that begins request b with a BEGIN record ...
Begins(s, b) == s[b].type = "BEGIN" /\ s[b].id # 0

\* ... sends what belongs to it behind that record,
ContentBehindBegin(s) ==
    \A b \in DOMAIN s : \A i \in 1..b : Begins(s, b) => ~ContentOf(s, b, i)

\* asks nothing of unknown type that has content (fcgiapp.c:1506),
PlainManagement(s) ==
    \A i \in DOMAIN s : s[i].id = 0 /\ s[i].type \notin {"BEGIN", "GET_VALUES"} => s[i].len = 0

\* puts no empty record of another request before content (fcgiapp.c:1724),
NoEmptyForeign(s) ==
    \A b, i, j \in DOMAIN s :
        (b < i /\ i < j /\ Begins(s, b) /\ ContentOf(s, b, j)
           /\ s[i].type # "BEGIN" /\ s[i].id # 0 /\ s[i].len = 0) => s[i].id = s[b].id

\* uses the id again only for a request whose environment comes behind the
\* input of this one,
RequestsFollow(s) ==
    \A b, j \in DOMAIN s :
        (b < j /\ Begins(s, b) /\ s[j].type \in Streams /\ s[j].len > 0
           /\ s[j].id = s[b].id /\ s[j].req # s[b].req) =>
        \E k, l \in b+1..j : /\ k < l /\ s[k].id = s[b].id /\ s[l].id = s[b].id
                             /\ s[k].type = "STDIN" /\ s[l].type = "PARAMS"

\* sends nothing more on a stream that it has ended,
NothingBehindEnd(s) ==
    \A b, i, j \in DOMAIN s :
        (b < i /\ i < j /\ Begins(s, b) /\ ContentOf(s, b, j)
           /\ s[i].id = s[b].id /\ s[i].len = 0) => s[i].type # s[j].type

\* and pads neither a BEGIN nor an empty record (fcgiapp.c:1853).
PlainEnds(s) ==
    \A i \in DOMAIN s : s[i].type = "BEGIN" \/ s[i].len = 0 => s[i].pad = 0

Conforming(s) ==
    /\ ContentBehindBegin(s)
    /\ PlainManagement(s)
    /\ NoEmptyForeign(s)
    /\ RequestsFollow(s)
    /\ NothingBehindEnd(s)
    /\ PlainEnds(s)

\* The application makes the calls of fcgiapp.h in their order.
Calm == "seq" \notin Faults

\* No filter is served by an application that closes its input or clears errors:
\* FCGX_StartFilterData would go on with a reader that has lost its place.
InSequence == ~Calm => \A s \in Scripts : \A i \in DOMAIN s : s[i].role # "FILTER"

Premises == (\A s \in Scripts : Conforming(s)) /\ InSequence

\* Conversations in which one request follows another on a kept connection:
\* requests are numbered from 1, and once the last stream of a request that
\* keeps the connection has ended nothing more of the request comes.
Numbered(s) == \A i \in DOMAIN s : s[i].req > 0

LastStream(r) == IF r = "FILTER" THEN "DATA" ELSE "STDIN"

EndsWithInput(s) ==
    \A b, i, j \in DOMAIN s :
        (b < i /\ i < j /\ Begins(s, b) /\ s[b].keep
           /\ s[i].id = s[b].id /\ s[i].type = LastStream(s[b].role) /\ s[i].len = 0
           /\ \A a \in 1..b-1 : s[a].type = "BEGIN" => s[a].req # s[b].req) =>
        s[j].req # s[b].req

\* Such a server stays and does not pipeline, and the application reads its
\* input to the end; reads may time out or be interrupted, answers may fail.
Orderly ==
    /\ Premises
    /\ \A s \in Scripts : Numbered(s) /\ EndsWithInput(s)
    /\ Faults \cap {"eof", "seq"} = {} /\ Drains /\ ~Pipelined

-----------------------------------------------------------------------------
(* Properties.                                                             *)

\* Every variable has its type, and the pointers are in order.
TypeOK ==
    /\ script \in Scripts /\ wire = Bytes(script)
    /\ sent \in 0..Len(wire) /\ serverShut \in BOOLEAN
    /\ replies \in Seq(DOMAIN script)
    /\ rdNext \in Nat /\ stop \in Nat /\ stopUnget \in Nat
    /\ buffStop \in 0..sent /\ rdNext <= buffStop /\ stop <= buffStop
    /\ contentLen \in Nat /\ paddingLen \in Nat /\ headerLen \in 0..HeaderLen-1
    /\ skip \in BOOLEAN /\ eorStop \in BOOLEAN
    /\ isClosed \in BOOLEAN /\ FCGI_errno \in Errors /\ type \in StreamTypes
    /\ requestId \in Nat /\ isBeginProcessed \in BOOLEAN
    /\ role \in Roles /\ keepConnection \in BOOLEAN /\ begun \in {0} \cup DOMAIN script
    /\ pc \in {"idle", "fill", "use", "closed"}
    /\ phase \in {"begin", "params", "app"}
    /\ nested \in {"none", "begin", "values"}
    /\ taken \in Nat /\ pairPos \in 0..PairLen-1
    /\ got \in [Streams -> Seq(Nat \X Nat)]
    /\ served \in Nat /\ wasFCloseCalled \in BOOLEAN /\ cleared \in BOOLEAN

InProgress == pc \in {"fill", "use"}

\* The content the server sends on stream t of the request being served.
Wanted(cell, t) == LET r == script[cell[1]]
                   IN  /\ IsContent(cell) /\ r.type = t /\ r.id = requestId
                       /\ begun # 0 /\ r.req = script[begun].req
Expected(t) == Selected(wire, {cell \in Nat \X Nat : Wanted(cell, t)})

\* FillBuffProc hands each consumer exactly the content bytes of the records of
\* its request and its stream, each once and in the order sent: no header,
\* padding, byte of another stream or of another request, however the bytes
\* were split over reads.
StreamFidelity ==
    InProgress => \A t \in Streams : IsPrefix(got[t], Expected(t))

\* What contentLen, paddingLen and headerLen say is left of the record is
\* what is left of it in the byte stream: the reader never loses the framing.
Position == IF pc = "use" /\ ~isClosed THEN stop ELSE rdNext
Framing ==
    (InProgress /\ FCGI_errno = "none" /\ Position > 0) =>
        LET cell == wire[Position] IN
        IF headerLen > 0 THEN cell[2] = headerLen
        ELSE contentLen + paddingLen = Size(script[cell[1]]) - cell[2]

\* An end of file without an error code, as FCGX_HasSeenEOF and FCGX_GetError
\* show it to the application, means that the whole stream was delivered.
EndIsComplete ==
    (InAccept("app") /\ AtEOF) => got[type] = Expected(type)

\* As long as the server is there: no timeout, interrupted read or failing
\* answer of the library passes for the end of the stream, but where the
\* application has closed the stream or cleared its error itself; and when
\* FCGX_Accept_r succeeds with an environment cut short, the input stream carries
\* the error, so that FCGX_Finish_r will close the connection.
TruncationReported == ~serverShut /\ ~cleared =>
    /\ ~wasFCloseCalled => EndIsComplete
    /\ InAccept("app") /\ got["PARAMS"] # Expected("PARAMS") => FCGI_errno # "none"

\* Records that call for an answer: those with request id 0, and a BEGIN while
\* an earlier request of the connection is being served.
CallsForAnswer(i) ==
    \/ script[i].id = 0
    \/ script[i].type = "BEGIN" /\ \E j \in 1..i-1 :
          script[j].type = "BEGIN" /\ script[j].req = script[i].req
HeaderSeen(i) == \E p \in 1..rdNext : wire[p] = <<i, HeaderLen>>

\* Each management record and each attempt to multiplex is answered once, in
\* order, and by the time the reader has gone past its header.
Answered ==
    (InProgress /\ nested = "none" /\ FCGI_errno = "none") =>
        replies = Selected([i \in DOMAIN script |-> i],
                           {i \in DOMAIN script : CallsForAnswer(i) /\ HeaderSeen(i)})

\* FillBuffProc always comes back to its caller: a silent server cannot hold
\* the library for ever, as the receive timeout ends every read.
FillReturns == (pc = "fill") ~> (pc # "fill")

Requests == {script[i].req : i \in DOMAIN script}

\* Every request of a well-behaved connection is accepted, read and finished,
\* unless the application pushes bytes back for ever.
AllServed == []<><<AppUnGet>>_vars \/ <>(served = Cardinality(Requests))

\* A filter that reads FCGI_DATA and sees no error was given all of FCGI_STDIN.
\* FCGX_StartFilterData, called too early, with a byte pushed back or after a read
\* that failed, tests isClosed alone, which SetError sets as well: after an error it
\* does go on to FCGI_DATA, and then the error has to stay.  (Not so where the
\* application closed the stream or cleared the error itself.)
StreamsInSequence ==
    (InProgress /\ type = "DATA" /\ FCGI_errno = "none"
       /\ ~serverShut /\ ~wasFCloseCalled /\ ~cleared) =>
        got["STDIN"] = Expected("STDIN")

=============================================================================
