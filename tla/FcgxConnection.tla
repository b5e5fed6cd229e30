--------------------------- MODULE FcgxConnection ---------------------------
(***************************************************************************)
(* A connection between a web server and one thread of the library, from   *)
(* the first request on it to OS_Close, with the limited room of its two   *)
(* directions: FcgxReader and FcgxWriter put together, with cells in place *)
(* of bytes.  Where those modules split every header and every write,      *)
(* here a BEGIN record, an environment, the header of a FCGI_STDIN record  *)
(* and its content are a cell each, and so is every record of the response.*)
(*                                                                         *)
(* The library never reads while it writes and never writes while it waits *)
(* for input, except to answer a management record.                        *)
(***************************************************************************)
EXTENDS Integers, Sequences, FiniteSets, SequencesExt

CONSTANTS
    MaxRequests, \* bound: requests the server sends
    Settings,   \* what a behaviour is chosen from, see SettingsAssumption
    RoomIn,     \* cells on their way to the library
    RoomOut,    \* cells on their way to the server
    BufLen      \* cells of data->buff of a reader

ASSUME ConnectionAssumption ==
    MaxRequests \in Nat /\ {RoomIn, RoomOut, BufLen} \subseteq Nat \ {0}

\* The number of requests; what follows their environments; bound: the records the
\* application writes for a request; what fails; whether a request may be sent
\* before the last one has ended.
ASSUME SettingsAssumption == \A s \in Settings :
    /\ s.requests \in 0..MaxRequests /\ s.puts \in Nat
    /\ s.bodies \subseteq Seq({"STDIN", "MGMT"})
    /\ s.faults \subseteq {"timeout", "abort"} /\ s.pipelined \in BOOLEAN

Requests == 1..MaxRequests

VARIABLES
    setting,
    keep,       \* FCGI_KEEP_CONN in each request
    script,     \* the cells the server is going to send
    pos,        \* how many it has sent
    serverShut, \* it has closed its end
    toApp, toServer,    \* the cells under way
    seen,       \* the cells the server has received
    reset,      \* close(2) with input unread has destroyed output under way
    pc,         \* "accept" | "params" | "app" | "read" | "write" | "finish" | "drain" | "closed"
    back,       \* where a write returns to
    r,          \* the request being served, or the last one
    unread,     \* data->buff from rdNext on
    contentLen, \* cells of content to come: 0 or 1
    skip,       \* a record of another request has left this set
    isClosed, readError,    \* of request->in
    held,       \* content records in the buffer of request->out
    puts,       \* records the application has written for r
    pending,    \* what write_it_all has yet to write
    writeError, \* of request->out
    drained     \* the input of r was read to its end before FCGX_Finish_r

server == <<setting, keep, script, pos, serverShut>>
reader == <<unread, contentLen, skip, isClosed, readError>>
writer == <<held, puts, pending, writeError>>
vars == <<server, toApp, toServer, seen, reset, pc, back, r, reader, writer, drained>>

-----------------------------------------------------------------------------
(* The web server: it writes and reads as its two directions allow.        *)

Piece(kind, q) == IF kind = "STDIN" THEN <<<<"STDIN", q>>, <<"data", q>>>> ELSE <<<<"MGMT", q>>>>
Cells(q, body) == <<<<"BEGIN", q>>, <<"PARAMS", q>>>>
                  \o FlattenSeq([i \in DOMAIN body |-> Piece(body[i], q)]) \o <<<<"EOF", q>>>>

Received(kind, q) == \E i \in DOMAIN seen : seen[i] = <<kind, q>>

MaySend(cell) == cell[1] = "BEGIN" /\ cell[2] > 1 =>
    keep[cell[2] - 1] /\ (setting.pipelined \/ Received("END", cell[2] - 1))

\* What arrives at a descriptor that is closed resets the connection.
ServerSend ==
    /\ ~serverShut /\ pos < Len(script) /\ Len(toApp) < RoomIn
    /\ MaySend(script[pos + 1])
    /\ pos' = pos + 1
    /\ IF pc = "closed"
       THEN /\ reset' = (reset \/ toServer # <<>>)
            /\ toServer' = <<>> /\ UNCHANGED toApp
       ELSE toApp' = Append(toApp, script[pos + 1]) /\ UNCHANGED <<toServer, reset>>
    /\ UNCHANGED <<setting, keep, script, serverShut, seen, pc, back, r, reader, writer, drained>>

ServerReceive ==
    /\ ~serverShut /\ toServer # <<>>
    /\ seen' = Append(seen, Head(toServer))
    /\ toServer' = Tail(toServer)
    /\ UNCHANGED <<server, toApp, reset, pc, back, r, reader, writer, drained>>

\* The server closes its end when it sees the end of the response stream, or
\* goes away.
ServerClose ==
    /\ ~serverShut
    /\ "abort" \in setting.faults \/ (pc \in {"drain", "closed"} /\ toServer = <<>>)
    /\ serverShut' = TRUE
    /\ UNCHANGED <<setting, keep, script, pos, toApp, toServer, seen, reset, pc, back, r, reader,
                   writer, drained>>

-----------------------------------------------------------------------------
(* FillBuffProc, called by FCGX_Accept_r, ReadParams and the application.  *)

Reading == pc \in {"accept", "params", "read"} /\ unread = <<>>
At(where, kind) == pc = where /\ contentLen = 0 /\ unread # <<>> /\ Head(unread)[1] = kind
Consume == unread' = Tail(unread)

\* Mutant of OSRead: the buffer is filled behind what is unread.
AppendingRead ==
    /\ pc \in {"accept", "params", "read"}
    /\ \E n \in 1..BufLen : /\ n <= Len(toApp)
                            /\ unread' = unread \o SubSeq(toApp, 1, n)
                            /\ toApp' = SubSeq(toApp, n + 1, Len(toApp))
    /\ UNCHANGED <<server, toServer, seen, reset, pc, back, r, contentLen, skip, isClosed,
                   readError, writer, drained>>

OSRead ==
    /\ Reading
    /\ \E n \in 1..BufLen : /\ n <= Len(toApp)
                            /\ unread' = SubSeq(toApp, 1, n)
                            /\ toApp' = SubSeq(toApp, n + 1, Len(toApp))
    /\ UNCHANGED <<server, toServer, seen, reset, pc, back, r, contentLen, skip, isClosed,
                   readError, writer, drained>>

\* FCGX_Free(reqDataPtr, 1) begins: OS_Close shuts the sending side down.
BeginClose == pc' = "drain" /\ unread' = <<>> /\ contentLen' = 0 /\ skip' = FALSE

\* Mutant of OSReadFails: there is no receive timeout.
PatientRead ==
    /\ Reading /\ toApp = <<>> /\ serverShut
    /\ readError' = TRUE
    /\ \/ pc # "read" /\ BeginClose /\ isClosed' = TRUE
       \/ pc = "read" /\ pc' = "app" /\ isClosed' = TRUE /\ UNCHANGED <<unread, contentLen, skip>>
    /\ UNCHANGED <<server, toApp, toServer, seen, reset, back, r, writer, drained>>

\* TryAgain in FCGX_Accept_r; between two pairs ReadParams takes it for the end
\* of the environment; an error of the input stream elsewhere.
OSReadFails ==
    /\ Reading /\ toApp = <<>>
    /\ serverShut \/ "timeout" \in setting.faults
    /\ readError' = TRUE
    /\ \/ pc # "read" /\ BeginClose /\ isClosed' = TRUE /\ UNCHANGED writer
       \/ /\ pc = "params" /\ pc' = "app" /\ isClosed' = FALSE
          /\ held' = 0 /\ writeError' = FALSE
          /\ UNCHANGED <<unread, contentLen, skip, puts, pending>>
       \/ /\ pc = "read" /\ pc' = "app" /\ isClosed' = TRUE
          /\ UNCHANGED <<unread, contentLen, skip, writer>>
    /\ UNCHANGED <<server, toApp, toServer, seen, reset, back, r, drained>>

\* write_it_all is asked for cells.
Write(cells, then) == pending' = cells /\ back' = then /\ pc' = "write"

AnswerManagement ==
    /\ At("accept", "MGMT") \/ At("read", "MGMT")
    /\ Consume /\ skip' = FALSE
    /\ Write(<<<<"ANSWER", Head(unread)[2]>>>>, pc)
    /\ UNCHANGED <<server, toApp, toServer, seen, reset, r, contentLen, isClosed,
                   readError, held, puts, writeError, drained>>

-----------------------------------------------------------------------------
(* FCGX_Accept_r on the open connection.                                   *)

AcceptBegin ==
    /\ At("accept", "BEGIN") /\ ~skip
    /\ Consume
    /\ r' = Head(unread)[2]
    /\ pc' = "params"
    /\ isClosed' = FALSE /\ readError' = FALSE /\ puts' = 0
    /\ UNCHANGED <<server, toApp, toServer, seen, reset, back, contentLen, skip, held,
                   pending, writeError, drained>>

\* A record of a request whose BEGIN was lost with the buffer of the last reader.
Foreign == {"PARAMS", "STDIN", "EOF"}

AcceptSkips ==
    /\ \E kind \in Foreign : At("accept", kind)
    /\ Head(unread)[2] # r
    /\ Consume
    /\ contentLen' = IF Head(unread)[1] = "STDIN" THEN 1 ELSE 0
    /\ skip' = TRUE
    /\ UNCHANGED <<server, toApp, toServer, seen, reset, pc, back, r, isClosed, readError,
                   writer, drained>>

SkipContent ==
    /\ pc = "accept" /\ contentLen = 1 /\ unread # <<>>
    /\ Consume
    /\ contentLen' = 0 /\ skip' = FALSE
    /\ UNCHANGED <<server, toApp, toServer, seen, reset, pc, back, r, isClosed, readError,
                   writer, drained>>

\* The new reader finds what the last request left: content is no header, and
\* a record of the request that is over is a protocol error.  The body of a
\* BEGIN that is skipped is missing.  TryAgain.
AcceptRefuses ==
    /\ \/ At("accept", "data")
       \/ At("accept", "BEGIN") /\ skip
       \/ (\E kind \in Foreign : At("accept", kind)) /\ Head(unread)[2] = r
    /\ BeginClose
    /\ UNCHANGED <<server, toApp, toServer, seen, reset, back, r, isClosed,
                   readError, writer, drained>>

ReadEnvironment ==
    /\ At("params", "PARAMS")
    /\ Consume
    /\ pc' = "app"
    /\ held' = 0 /\ writeError' = FALSE
    /\ UNCHANGED <<server, toApp, toServer, seen, reset, back, r, contentLen, skip,
                   isClosed, readError, puts, pending, drained>>

-----------------------------------------------------------------------------
(* The application and what its calls do.                                  *)

AppRead ==
    /\ pc = "app" /\ ~isClosed
    /\ pc' = "read"
    /\ UNCHANGED <<server, toApp, toServer, seen, reset, back, r, reader, writer, drained>>

ReadHeader ==
    /\ At("read", "STDIN")
    /\ Consume
    /\ contentLen' = 1
    /\ UNCHANGED <<server, toApp, toServer, seen, reset, pc, back, r, skip, isClosed,
                   readError, writer, drained>>

ReadContent ==
    /\ pc = "read" /\ contentLen = 1 /\ unread # <<>>
    /\ Consume
    /\ contentLen' = 0
    /\ pc' = "app"
    /\ UNCHANGED <<server, toApp, toServer, seen, reset, back, r, skip, isClosed, readError,
                   writer, drained>>

\* What is left of an environment that was cut is of the wrong type.
ReadRefuses ==
    /\ At("read", "PARAMS")
    /\ Consume
    /\ isClosed' = TRUE /\ readError' = TRUE
    /\ pc' = "app"
    /\ UNCHANGED <<server, toApp, toServer, seen, reset, back, r, contentLen, skip,
                   writer, drained>>

ReadEnd ==
    /\ At("read", "EOF")
    /\ Consume
    /\ isClosed' = TRUE
    /\ pc' = "app"
    /\ UNCHANGED <<server, toApp, toServer, seen, reset, back, r, contentLen, skip,
                   readError, writer, drained>>

AppPut ==
    /\ pc = "app" /\ puts < setting.puts
    /\ puts' = puts + 1
    /\ held' = held + 1
    /\ UNCHANGED <<server, toApp, toServer, seen, reset, pc, back, r, reader, pending,
                   writeError, drained>>

Content == [i \in 1..held |-> <<"out", r>>]

\* FCGX_FFlush, or FCGX_PutStr of what does not fit.
AppFlush ==
    /\ pc = "app" /\ held > 0 /\ ~writeError
    /\ Write(Content, "app")
    /\ held' = 0
    /\ UNCHANGED <<server, toApp, toServer, seen, reset, r, reader, puts, writeError, drained>>

WriteCell ==
    /\ pc = "write" /\ pending # <<>> /\ ~serverShut
    /\ Len(toServer) < RoomOut
    /\ toServer' = Append(toServer, Head(pending))
    /\ pending' = Tail(pending)
    /\ UNCHANGED <<server, toApp, seen, reset, pc, back, r, reader, held, puts,
                   writeError, drained>>

\* EPIPE: SetError on request->in while a management record is answered, on
\* request->out elsewhere.
WriteFails ==
    /\ pc = "write" /\ pending # <<>> /\ serverShut
    /\ pending' = <<>>
    /\ CASE back = "accept" -> BeginClose /\ UNCHANGED <<isClosed, readError, writeError>>
         [] back = "read"   -> /\ isClosed' = TRUE /\ readError' = TRUE
                               /\ pc' = "app" /\ UNCHANGED <<unread, contentLen, skip, writeError>>
         [] OTHER           -> writeError' = TRUE /\ pc' = back /\ UNCHANGED reader
    /\ UNCHANGED <<server, toApp, toServer, seen, reset, back, r, held, puts, drained>>

WriteDone ==
    /\ pc = "write" /\ pending = <<>>
    /\ pc' = back
    /\ UNCHANGED <<server, toApp, toServer, seen, reset, back, r, reader, writer, drained>>

-----------------------------------------------------------------------------
(* FCGX_Finish_r.                                                          *)

\* Mutant of AppFinish: the request is ended before its output is flushed.
EagerFinish ==
    /\ pc = "app"
    /\ Write(<<<<"END", r>>>> \o Content, "finish")
    /\ held' = 0
    /\ drained' = (isClosed /\ ~readError)
    /\ UNCHANGED <<server, toApp, toServer, seen, reset, r, reader, puts, writeError>>

\* Mutant of AppFinish: no writer takes itself for the last.
EndlessFinish ==
    /\ pc = "app"
    /\ Write(Content \o <<<<"end out", r>>>>, "finish")
    /\ held' = 0
    /\ drained' = (isClosed /\ ~readError)
    /\ UNCHANGED <<server, toApp, toServer, seen, reset, r, reader, puts, writeError>>

\* FCGX_FClose of both writers.
AppFinish ==
    /\ pc = "app"
    /\ Write(Content \o <<<<"end out", r>>, <<"END", r>>>>, "finish")
    /\ held' = 0
    /\ drained' = (isClosed /\ ~readError)
    /\ UNCHANGED <<server, toApp, toServer, seen, reset, r, reader, puts, writeError>>

\* Mutant of Finish: the connection is closed after every request.
AlwaysClose ==
    /\ pc = "finish"
    /\ BeginClose
    /\ UNCHANGED <<server, toApp, toServer, seen, reset, back, r, isClosed, readError,
                   writer, drained>>

\* FCGX_Free: the reader goes, and what it has read with it.
Finish ==
    /\ pc = "finish"
    /\ IF ~keep[r] \/ writeError \/ readError
       THEN BeginClose
       ELSE pc' = "accept" /\ unread' = <<>> /\ contentLen' = 0 /\ skip' = FALSE
    /\ UNCHANGED <<server, toApp, toServer, seen, reset, back, r, isClosed, readError,
                   writer, drained>>

\* OS_Close reads and drops what the server still sends ...
Drain ==
    /\ pc = "drain" /\ toApp # <<>>
    /\ toApp' = <<>>
    /\ UNCHANGED <<server, toServer, seen, reset, pc, back, r, reader, writer, drained>>

\* Mutant of Close: nothing is drained.
HastyClose ==
    /\ pc = "drain"
    /\ pc' = "closed"
    /\ reset' = (reset \/ (toApp # <<>> /\ toServer # <<>>))
    /\ toServer' = IF toApp = <<>> THEN toServer ELSE <<>>
    /\ UNCHANGED <<server, toApp, seen, back, r, reader, writer, drained>>

\* ... until it closes its end or the receive timeout passes.
Close ==
    /\ pc = "drain" /\ toApp = <<>>
    /\ serverShut \/ "timeout" \in setting.faults
    /\ pc' = "closed"
    /\ UNCHANGED <<server, toApp, toServer, seen, reset, back, r, reader, writer, drained>>

-----------------------------------------------------------------------------

Init ==
    /\ setting \in Settings
    /\ keep \in [1..setting.requests -> BOOLEAN]
    /\ \E body \in [1..setting.requests -> setting.bodies] :
          script = FlattenSeq([q \in 1..setting.requests |-> Cells(q, body[q])])
    /\ pos = 0 /\ serverShut = FALSE
    /\ toApp = <<>> /\ toServer = <<>> /\ seen = <<>> /\ reset = FALSE
    /\ pc = "accept" /\ back = "app" /\ r = 0
    /\ unread = <<>> /\ contentLen = 0 /\ skip = FALSE /\ isClosed = FALSE /\ readError = FALSE
    /\ held = 0 /\ puts = 0 /\ pending = <<>> /\ writeError = FALSE
    /\ drained = TRUE

Server == ServerSend \/ ServerReceive \/ ServerClose

Library ==
    \/ OSRead \/ OSReadFails \/ AnswerManagement \/ AcceptBegin \/ AcceptSkips \/ SkipContent
    \/ AcceptRefuses \/ ReadEnvironment \/ ReadHeader \/ ReadContent \/ ReadRefuses \/ ReadEnd
    \/ WriteCell \/ WriteFails \/ WriteDone \/ Finish \/ Drain \/ Close

App == AppRead \/ AppPut \/ AppFlush \/ AppFinish

\* The connection is closed, or both sides wait for the other to go on.
Idle == /\ pc = "accept" /\ unread = <<>> /\ toApp = <<>> /\ toServer = <<>>
        /\ pos < Len(script) => ~MaySend(script[pos + 1])

Over == pc = "closed" \/ Idle

Next == Server \/ Library \/ App \/ (Over /\ UNCHANGED vars)

Spec == Init /\ [][Next]_vars

\* The library runs; the server sends what it began, takes what comes and closes
\* when it is told to; the application finishes what it serves.
FairSpec == /\ Spec /\ WF_vars(Library) /\ WF_vars(ServerSend) /\ WF_vars(ServerReceive)
            /\ WF_vars(ServerClose /\ pc \in {"drain", "closed"}) /\ WF_vars(AppFinish)

-----------------------------------------------------------------------------

\* The types; the sockets and the buffer of the reader never hold more than
\* their room.
TypeOK ==
    /\ keep \in [1..setting.requests -> BOOLEAN] /\ pos \in 0..Len(script) /\ r \in 0..MaxRequests
    /\ Len(toApp) <= RoomIn /\ Len(toServer) <= RoomOut /\ Len(unread) <= BufLen
    /\ pc \in {"accept", "params", "app", "read", "write", "finish", "drain", "closed"}
    /\ back \in {"accept", "app", "read", "finish"}
    /\ contentLen \in 0..1 /\ held \in 0..puts /\ puts \in 0..setting.puts
    /\ {serverShut, reset, skip, isClosed, readError, writeError, drained} \subseteq BOOLEAN

\* A connection that the server asked to keep is given up only by a server that
\* has gone, a timeout, a request that was sent too early, or a request whose
\* input was not read to its end: FCGX_Finish_r and the accept loop find nothing
\* else to close it for (fcgiapp.c:2010, 2208).
KeptWhenDrained ==
    [][pc # "drain" /\ pc' = "drain" =>
          \/ serverShut \/ "timeout" \in setting.faults \/ setting.pipelined
          \/ ~keep[r] \/ ~drained]_vars

\* A server that has seen FCGI_END_REQUEST has all that the application wrote:
\* FCGX_Finish_r flushes before the last writer ends the request (fcgiapp.c:1344).
\* And without a timeout OS_Close never destroys a response by closing with input
\* unread, which is what its drain is for (os_unix.c:757).
ResponseWhole ==
    /\ r > 0 /\ Received("END", r) =>
          Cardinality({i \in DOMAIN seen : seen[i] = <<"out", r>>}) = puts
    /\ "timeout" \notin setting.faults => ~reset

Log == INSTANCE RequestLog WITH
    state <- [q \in Requests |-> IF Received("END", q) THEN "ended"
                                 ELSE IF \E i \in 1..pos : script[i] = <<"BEGIN", q>> THEN "open"
                                 ELSE "new"],
    content <- [q \in Requests |-> Cardinality({i \in DOMAIN seen : seen[i] = <<"out", q>>})],
    orderly <- ~setting.pipelined,
    dropped <- serverShut

\* The connection implements a log of requests answered in the order sent, each
\* with its own content and one end, whatever fails and whatever is sent early.
ImplementsLog == Log!Spec

\* Every request that was begun is ended, or the connection closes: no response
\* is waited for forever, by way of full sockets, a request lost with a buffer
\* or a drain.  A request that is sent too early and lost with the buffer of the
\* last reader is waited for until the receive timeout (fcgiapp.c:1996).
EveryRequestEnds ==
    \A q \in Requests :
        (/\ \E i \in 1..pos : script[i] = <<"BEGIN", q>>
         /\ setting.pipelined => "timeout" \in setting.faults)
        ~> (Received("END", q) \/ serverShut \/ pc = "closed")

=============================================================================
