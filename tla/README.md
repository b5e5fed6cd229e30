# A TLA+ model of the FastCGI application library

This directory specifies, model-checks and partly proves the C library in
`libfcgi/` (with its C++ and Perl layers): what happens between a web server
that speaks FastCGI over a connection and an application that calls
`FCGX_Accept_r`, reads an input stream, writes two output streams and calls
`FCGX_Finish_r`. Line numbers below refer to `src/`.

## 1. Inventory

| Component | Source | State | Operations |
|---|---|---|---|
| Input stream | `libfcgi/fcgiapp.c` (96-268, 1440-1857, 2151-2287), `os_unix.c` `OS_Read` | `rdNext`, `stop`, `buffStop`, `stopUnget`; `contentLen`, `paddingLen`, `skip`, `eorStop`; `isClosed`, `FCGI_errno`; the request's id, role, `isBeginProcessed`, `keepConnection` | `FillBuffProc` with `ProcessHeader`, `ProcessBeginRecord`, `ProcessManagementRecord`, `ReadParams`, `SetReaderType`; `FCGX_GetChar`, `GetStr`, `GetLine`, `UnGetChar`, `HasSeenEOF`, `StartFilterData`, `FClose`, `ClearError` |
| Output streams | `fcgiapp.c` (270-341, 869-929, 1192-1430, 2002-2037) | buffer and `wrNext`, `isAnythingWritten`, `rawWrite`, `wasFCloseCalled`, `FCGI_errno`, `nWriters` of the request | `FCGX_CreateWriter`, `FCGX_PutStr`, `FFlush`, `FClose`, `ClearError`, `EmptyBuffProc`, `WriteCloseRecords`, `FCGX_Finish_r` |
| Connection | both of these and `OS_Close` (`os_unix.c` 713-800) | the two directions of a socket, with limited room | what one thread and the web server do on it over several requests |
| Accepting, shutdown, descriptors | `fcgiapp.c` `FCGX_Accept_r`, `FCGX_Free`; `os_unix.c` `OS_Accept`, `OS_Close`, `OS_ShutdownPending` and the signal handlers | `shutdownPending`, `ipcFd` and `keepConnection` of each request, the descriptors of the process | as listed; threads share the listening socket, the flag and the descriptor table |
| Initialisation | `fcgiapp.c` `FCGX_Init`, `FCGX_InitRequest`, `FCGX_IsCGI`; `os_unix.c` `OS_LibInit` | the two `libInitialized`, `asyncIoTable`, the signal handlers, `webServerAddressList`, `the_request`, `isFastCGI` | called by any thread, before or while others accept |
| Standard I/O layer | `libfcgi/fcgi_stdio.c` | `acceptCalled`, `isCGI`, the three `FCGI_FILE`s, `environ`, `the_request` | `FCGI_Accept`, `FCGI_Finish`, `FCGI_fclose`, `FCGI_freopen`, `FCGI_clearerr`, `FCGI_SetExitStatus`, `FCGI_StartFilterData`, the wrappers |
| C++ stream buffer | `libfcgi/fcgio.cpp` | get and put area, `bufsize`, the `FCGX_Stream` | `overflow`, `sync`, `uflow`, `underflow`, `setbuf`, `attach`, `xsgetn`, `xsputn`, destructor |
| Perl binding | `perl/FCGI.c` | `accepted`, `bound`, the tied handles, the Perl objects that hold stream pointers | `FCGI::Accept`, `Finish`, `Attach`, `Detach`, `DESTROY`, the methods of tied handles |
| Environment (`Params`) | `fcgiapp.c` 1004-1190 | a growing vector of strings, `envp`, the `response[64]` of an answer | `NewParams`, `PutParam`, `FreeParams`, `FCGX_GetParam`; `ReadParams`, `ProcessManagementRecord` |
| Formatted output | `fcgiapp.c` 350-866 | `buff`, `auxBuffPtr`, `fmtBuff`, the argument list | `FCGX_VFPrintF` |
| Asynchronous I/O table | `os_unix.c` 60-260, 560-830 | `asyncIoTable`, `fd_set`s, `maxFd` | `OS_AsyncRead`, `OS_AsyncReadStdin`, `OS_AsyncWrite`, `GrowAsyncTable`, `OS_Close`, `OS_CloseRead`, `OS_LibInit`, `OS_LibShutdown` |
| Sockets and processes | `os_unix.c` 260-560, 1170-1226 | the descriptors of each process, `isFastCGI` | `OS_CreateLocalIpcFd`, `FCGX_OpenSocket`, `OS_FcgiConnect`, `OS_SpawnChild`, `OS_IsFcgi`, `FCGX_IsCGI` |
| Example server, tests | `main.cpp`, `test/` | - | loops of `FCGX_Accept_r` and `FCGX_Finish_r` |

How they interact. A connection is a byte stream in each direction.
`OS_Accept` gives a thread a descriptor, which `FCGX_Accept_r` stores in the
request and reads from with a reader stream; the same reader later is the
application's input. Management records are answered by the reader itself, by
a direct `write(2)` on the connection that the writers use. The writers share
`nWriters`: the last one to be closed puts `FCGI_END_REQUEST` into its own
buffer. `FCGX_Finish_r` closes the writers, looks at the error codes of the
streams, and decides whether the connection is kept for the next
`FCGX_Accept_r`. The stdio layer, the stream buffer and the Perl binding hold
pointers to streams that `FCGX_Finish_r` frees.

What is hard here, and what correctness means in each component:

* **Input stream.** Records are split over reads at any byte, while the parser
  recurses into itself through the same stream for `FCGI_BEGIN_REQUEST` and
  `FCGI_GET_VALUES`. It must never lose the framing, must deliver exactly the
  content of its own request and stream, must answer what calls for an answer,
  must tell a truncation from an end, and must come back to its caller.
* **Output streams.** Padding is put behind the content without a test for
  room; a string may be longer than the buffer; either writer may be closed
  first, by the application or by `FCGX_Finish_r`; a write may fail in the
  middle of a record. The server must see whole records, the content once and
  in order, one end per stream and one `FCGI_END_REQUEST`, or the end of the
  connection.
* **Connection.** Reader and writers wait for a server that waits for them, over
  sockets of limited room; what is still unread when a request is over must
  neither hold the close up for ever nor destroy the response.
* **Accepting.** Several threads, a flag set by a signal at any moment, errors
  of `accept(2)`, clients that are not allowed, and descriptors whose numbers
  are used again. A thread must use and close its own descriptor only, none may
  be lost, and a shutdown must be noticed.
* **Initialisation, sockets and processes.** Flags that are tested and set without
  a lock, an allocation that fails in one of two threads, and descriptors that
  change their numbers and meaning between a parent and its children. Whoever
  accepts must find the library set up, a child must find its socket.
* **Params, formatted output, asynchronous table.** Storage that grows while
  pointers into it are kept, and bounds that are computed before the data is
  there. Nothing may be written behind the end, freed twice or lost.
* **Stdio layer, stream buffer, Perl binding.** Any order of calls, over
  several requests. No file or handle may reach a freed stream, each request
  must have its own streams, the server must learn of the end of every request,
  and characters must be neither lost nor invented.

`PROJECT.json` lists every hazard at its line, with the properties that cover it.

## 2. Modules

| Module | What it is |
|---|---|
| `FcgxReader` | one connection from the reader's side: the server's bytes, `FillBuffProc`, `FCGX_Accept_r`, the calls on the input stream |
| `MCFcgxReader` | the conversations that TLC runs `FcgxReader` on |
| `FcgxReaderInvariants`, `FcgxReaderProofs` | the inductive invariants of `FcgxReader`, and theorems about it |
| `FcgxWriter` | the two writers of one request, up to `FCGX_Finish_r` |
| `ResponseStream` | the abstract response: content of each stream, its end, the end of the request, or a break |
| `FcgxWriterProofs` | theorems about `FcgxWriter`, with the refinement of `ResponseStream` |
| `SequenceOps`, `SequenceOpsProofs` | sums over a sequence and what is selected from it, and lemmas about them and about flattened sequences |
| `FcgxConnection`, `MCFcgxConnection` | reader, writers, `OS_Close` and a web server on one connection, and bodies of requests for TLC |
| `RequestLog` | the abstract connection: requests answered one after the other |
| `FcgxConnectionProofs` | theorems about `FcgxConnection`, with the refinement of `RequestLog` |
| `FcgxAccept` | the threads, the listening socket, the descriptors and the shutdown flag |
| `FcgxAcceptProofs` | theorems about `FcgxAccept` |
| `FcgxInit` | `FCGX_Init` and the loops of the threads, until they accept |
| `Params` | the vectors of `name=value` strings |
| `VFPrintF` | `FCGX_VFPrintF` |
| `FcgiStdio`, `FcgiStdioProofs` | the stdio layer over several requests, and theorems about it |
| `FcgiStreambuf` | `fcgi_streambuf` over one or more `FCGX_Stream`s |
| `PerlRequest` | request objects and file handles of a Perl program |
| `PerlStream` | the methods of a tied handle |
| `AsyncTable` | the table of asynchronous operations |
| `Processes` | the descriptors of an application's processes |
| `MCLayers` | instances of `FcgiStdio`, `PerlRequest`, `PerlStream` and `FcgiStreambuf` |
| `LayersProofs` | theorems about `PerlRequest`, `PerlStream` and `FcgiStreambuf`, and about `MCLayers` |
| `MCParts` | instances of `FcgxInit`, `Params`, `VFPrintF`, `AsyncTable` and `Processes` |
| `PartsProofs` | theorems about each of these five, and about `MCParts` |

Each module starts by saying what it stands for, and `"map"` in `PROJECT.json`
gives the source lines of every definition. Operators whose comment begins with
"Mutant of" are not part of the specifications: each is a plausible bug, which
makes the property it belongs to fail.

The components of `MCLayers` share no state with each other, and neither do those
of `MCParts`. A behaviour of these modules is one of one component, which is chosen
at the beginning (`layer`, `part`) while the others stay as they begin: TLC
explores each by itself. For this the definitions of a component carry its name
where the source's would be ambiguous (`ParamsInit`, `TableInit`, `PerlFinish`).

Where a component has several properties that belong together, one invariant is
their conjunction (`RequestsServed`, `RequestsReleased`, `CharactersKept`,
`StartupSafe`, `ParamsSafe`, `PrintfSafe`, `AsyncSafe`, `ProcessesSafe`); its
conjuncts are stated, and explained, one by one in the module of the component.

### FcgxReader

A byte is the cell `<<i, k>>`: byte `k` of the `i`-th record of the server's
script. The pointers of the stream are offsets into the byte stream of the
connection; the code refills its buffer only when it is empty, so nothing is
lost by that. One pass of the loop in `FillBuffProc` is one action, in the
order of the code: read when the buffer is empty (`OSRead`, `OSReadFails`),
deliver or skip content (`DeliverContent`, `SkipContent`), skip padding
(`SkipPadding`), stop at the end of the record (`DeliverEndOfRecord`), gather a
header (`GatherHeader`), and interpret it (`UnsupportedVersion` to
`EndOfStream`). `pc = "fill"` means that control is in the loop, `"use"` that it
is with the caller; `phase` tells which caller (`FCGX_Accept_r` before or in
`ReadParams`, or the application) and `nested` whether the caller is a handler
that reads a body recursively.

Abstractions: header and body lengths are parameters; a header read at the wrong offset
is one with a bad version (its bytes are those of something else); name-value pairs have
one length; the role `AUTHORIZER`, which the reader treats like `RESPONDER`, is left
out; `FCGX_GetLine` is a sequence of `FCGX_GetChar`; `FCGX_UnGetChar` gives back only
bytes the application was given; `FCGX_GetChar` and `GetStr` set `stopUnget` in the same
step in which `FillBuffProc` returns to them; that closing the writers may fail in
`FCGX_Finish_r` is the fault `"werr"`. `AppFClose` and `AppClearError` are `FCGX_FClose`
and `FCGX_ClearError` of the reader (fault `"seq"`: calls that an ordinary application
does not make).

`begun` is the record that the current request was begun with. What belongs to a
request is told by it, and not by counting: a server that pipelines
(`PipelinedScripts`) may lose a request with the buffer of the reader before it, so
that the second that is served is the third that was sent. `Conforming` and
`Premises` say which conversations the reader gets right; TLC evaluates the first on
all scripts of the passing runs (`ScriptsConform`), and finds it false of the script of
`reader_foreign`. `Orderly` adds what lets one reader go on where the one before it
stopped: requests are numbered from 1 (`Numbered`), nothing of a request that keeps the
connection comes behind the end of its last stream (`EndsWithInput`), the server stays
and does not pipeline, and the application reads its input to the end. `ScriptsConform`
evaluates the two about scripts also; the constants of `reader_served` meet the rest.

The application may call `FCGX_StartFilterData` at any time with the fault `"seq"`: it goes
on to `FCGI_DATA` whenever `isClosed` is set, by an error too. `StreamsInSequence` says
that the error then stays, so that a filter without one has had all of `FCGI_STDIN`.

### FcgxWriter and ResponseStream

Buffers are sequences of labelled bytes, so that what is written can be
compared with what was asked for. `AppPut` is a call of `FCGX_PutStr`; while it
does not fit, the steps `PutMore`, `PutLast` and `PutFails` follow one
`EmptyBuffProc` each. `AppClose` and `FCGX_Finish_r` run
`WriteCloseRecords`, which may itself overflow the buffer. `WriteAll` is
`write_it_all`: it succeeds, or stops after a number of bytes in `CutAt`.
`finish = "never"` (`Created`) stands for the one writer that
`FCGX_CreateWriter` makes, which has no request and never ends one. `AppClear`
is `FCGX_ClearError`; `cleared` remembers it for the properties, which cannot
hold of an application that hides a failed write from `FCGX_Finish_r`.
`ReaderAnswer` is the answer to a management record that the reader writes on
the same connection between two calls on the writers. A mapping from the bytes on
the wire (`Seen`) shows that the writers implement `ResponseStream`.

### FcgxConnection and RequestLog

`FcgxReader` and `FcgxWriter` put together on one connection, coarser than either: a
cell stands for a record, or for the header and the content of one on the input side,
where content may be skipped by itself. The server is an actor: it writes while there is
room (`RoomIn`), receives, and closes when it has seen the end. The library reads only
when its buffer is empty, writes a cell when there is room (`RoomOut`), and drains in
`OS_Close`. `setting` says which server a behaviour has (`MCFcgxConnection`): one that
obeys the protocol, one that may go away, be slower than the receive timeout and send
its requests at once, or one that sends early requests so short that one fits behind the
other in the reader's buffer. `Finish` is the decision of `FCGX_Finish_r` and of
`FCGX_Free`, which throws unread input away with the reader; `AcceptSkips` and
`AcceptRefuses` are what the next reader makes of the remains of a request. An arriving
cell at a descriptor that is closed resets the connection and takes the output under way
with it (`reset`). `Log` maps the connection to `RequestLog`, by what the server has
sent and seen. What `RequestLog` promises depends on `orderly`: to a server that waits
for the end of a request before it begins the next, every request is answered in turn;
one that does not wait may find a request passed over for good, when it was lost with
the buffer of the reader before it, but what is answered is still answered in the order
sent.

### FcgxAccept

A thread is a `pc` that goes through `Call`, the loop of `OS_Accept` (`CheckShutdown`,
`AcceptConn` or `AcceptFails`, `TestRetry`, `TestError`, `TestOK`, `TestReject`), the
reading of a request, and `Finish`. Between any two steps other threads, servers and
signals run. `accept(2)` gives the lowest free descriptor. A connection that is kept
takes any number of requests; `MaxUnread` bounds only how many the server has sent and
the thread has not read yet. `mine` is the connection that a thread believes it has,
kept for the properties only. The loop of the application is that of
`test/common.hpp:64`, which ends at a negative result.

### FcgxInit

A thread goes through `FCGX_Init` one shared access at a time (`TestInitialized`,
`ResetTheRequest`, `LibInit` or `LibInitFails`, `ReadAddresses`, `SetInitialized`), then
its loop: `RequestReady` or `AskIsCGI`, `BeginAccept` with the `FCGX_Finish_r` at its
start, `AcceptRequest` or `AcceptFails`, `TestResult`, `Serve`. `Finish` is
`FCGX_Finish_r` with `FCGX_Free`: it closes a connection that is not to be kept, or one
of whose streams has an error, and the second call, at the start of `FCGX_Accept_r`,
finds no stream and leaves a connection that was kept alone. `Begun` is what
`FCGI_BEGIN_REQUEST` says of the connection. `program` is one of three: `"threads"`, as
in `test/common.hpp`; `"mixed"`, whose `main` calls `FCGX_Init` first and where threads
of `Stdio` use `FCGI_Accept` on `the_request`; `"example"`, with the test of
`main.cpp:44`.

### Params

`PutParam` is the function of the code on a structure of slots and a cursor.
Two owners have one: the request, and a management record that comes at any
point of it (`GetValues`, `ValuesDone`, `ValuesCut`). `heap` holds the strings
allocated, `moves` counts how often the vector of the request was moved, so that
`envp` can be seen to be of the current one.

### VFPrintF

Text has only a length. An item of a format says which conversion it is, its flags,
width and precision, whether these are arguments, and how long what is printed
is. `FastPath`, `GiveUpFastPath` and `SlowPath` are the three ways through the
loop; `Formatted` is what `sprintf` writes, `BuffReqd` the bound the code
computes before it. Left out: the pointer that `%n` writes through, and
`abs` of `INT_MIN`.

### AsyncTable

`Begin` is the head of `OS_AsyncRead`, `OS_AsyncReadStdin` and `OS_AsyncWrite`,
`GrowAsyncTable` one pass of their loop, `Enter` the rest; `Close`, `CloseRead`,
`TableInit` and `TableShutdown` are `OS_Close`, `OS_CloseRead`, `OS_LibInit` and
`OS_LibShutdown`. `pending` is what
the caller believes is under way, `fault` that an entry was looked up which the
table does not have. The half that would complete an operation
(`OS_DoIo`) is not in the repository; `readFdSetPost` and `writeFdSetPost` are
never set and are left out. `TableShutdown` leaves `asyncIoInUse` set.

### Processes

The descriptor tables of a parent and its children. Making a socket (unlink, bind,
listen) is one step, as is what the child does between `fork` and `execl`
(`ChildFds`); a descriptor is the lowest that is free. `known` is what the application was
told of, `inherited` the socket that `OS_SpawnChild` made descriptor 0 of a
child. A name is a path, one that is too long, or a port of some host, as the
branches of the code tell them apart; a text before the colon is a host only
if what follows is a port, so that `host:65536` is a path. Not modelled: other
descriptors a child inherits are its own business, and that `getpeername` says
`ENOTCONN` also of a connection that was reset.

### FcgiStdio

One process, CGI or FastCGI. A stream is known by its request; for each file
the module keeps `stdio_stream` and `fcgx_stream`. `AcceptRequest`,
`AcceptFails`, `AcceptCGI` and `AcceptCGIAgain` are the branches of
`FCGI_Accept`; `FCGI_clearerr` and `FCGI_StartFilterData` are calls on one file;
`Exit` is the call of `FCGI_Finish` by `exit(3)`. The variables
`ended`, `hungUp`, `wanted`, `moved` and `cleared` record history for the properties.
`FCGI_popen`, `FCGI_pclose` and the files an application opens by itself are left
out: they have nothing to do with requests.

### FcgiStreambuf

Characters are numbers. The put area is a sequence, the get area the buffer
`hold` with the offsets `gptr` and `egptr`; the base class and the streams above
it are modelled as the C++ library has them (`sgetc` does not call `underflow`
while there is something to get, and an `istream` that has failed does not call
its buffer unless the application clears its state, which is `Retries`).
A peek without a buffer consumes a character, as `fcgio.h` warns; it is left
out, and so is `attach` of a buffer that reads.

### PerlRequest

The three handles of a request are tied and untied together and are one handle
here. `magic` says to whose stream objects a handle is tied, `sv` to which
`FCGX_Streams` these objects point, `streams` which of those exist. That
`sv_magic` does nothing on a handle which is tied already, and that `sv_unmagic`
unties it whoever tied it, is the interpreter's doing. `FCGI_Accept` is two steps, for
what the first leaves behind is what a program is in while it waits: `Accept` finishes the
request that is still being served, and `Accepted` or `PerlAcceptFails` is what becomes of
`FCGX_Accept_r`. The environment hash
and the SFIO variant are not modelled; a process run as a CGI program ties nothing.

### PerlStream

`WRITE`, `PRINT`, `READ`, `GETC` and `CLOSE` of a tied handle, over a stream that takes or
gives bytes. Lengths and offsets of `WRITE` are ints (`Ints`) that are compared with an
unsigned `STRLEN` (`ToSize`, `ToInt`), in widths of four and five bits; in general
the widths are such that a `STRLEN` holds every int that is not negative
(`WidthsAssumption`). Left
out: scalars longer than `INT_MAX`, negative offsets and lengths of `READ`, and a
`READ` beyond the end of its scalar, which leaves a gap of what was there.

## 3. Runs

| Run | Bounds | What it shows |
|---|---|---|
| `reader_served` | scripts of one or two requests, of 5 to 11 records; headers and bodies of 2 bytes, buffer of 4 | with conforming servers: `TypeOK`, `StreamFidelity`, `Framing`, `Answered`, and `AllServed` under fairness |
| `reader_faults` | the same and refused requests; buffer of 3; timeouts, `EINTR`, failing answers, a server that goes away anywhere, `StartFilterData`, `FClose` and `ClearError` at any time | `StreamFidelity`, `TruncationReported`, `StreamsInSequence`, and `FillReturns` under fairness |
| `reader_foreign` | one script | *violation* of `EndIsComplete`: an empty record of another request makes the next record of this one disappear |
| `writer_response` | both writers of a request, or the lone one of `FCGX_CreateWriter`; 2 strings of 3 or 21 bytes, buffers of 32 or 40 bytes, writes that fail after 5 bytes, one answer by the reader | `TypeOK`, `PaddingFits`, `WireFidelity`, `EndOnce`, `TornWireCloses`, `SilentAfterError`, `ImplementsResponse`, and `FinishReturns` under fairness |
| `accept_inet` | 2 threads, 3 connections, 1 descriptor, one client barred, signals | `TypeOK`, `OwnDescriptor`, `NoLeak`, and `BacklogDrains` under fairness, for a server that may send requests on a kept connection without end |
| `accept_shutdown` | 2 threads, 2 connections, any number of requests, a shutdown at any time, AF_UNIX | `AtMostOneLate`, and `LeavesAccept` under fairness |
| `accept_stale` | TCP, a barred client and a shutdown | *violation* of `OwnDescriptor`: a descriptor that was closed is used again |
| `connection` | 4 cells of room in, 1 out, a buffer of 4; an orderly server: 2 requests, 2 writes, bodies of none, three records, or one behind a management record; a faulty one: 3 requests that may be sent at once, timeouts, a server that goes away; an early one: 3 requests without a body sent at once, timeouts | `TypeOK`, `ResponseWhole`, `KeptWhenDrained`, `ImplementsLog`, and `EveryRequestEnds` under fairness |
| `layers` | stdio: 2 requests, 2 statuses. Perl: 3 requests, 2 of them with the same handles, 2 accepts; 2 calls on a tied handle, ints of 4 bits, `STRLEN` of 5, scalars of up to 7 bytes, 3 bytes of input. C++: 4 characters, a buffer of 2 or none, 2 streams | `LayersTypeOK`, `LiveStreams`, `RequestsServed`, `HandlesLive`, `RequestsReleased`, `CharactersKept` |
| `stdio_status` | 2 requests | *violation* of `OwnStatus`: the status of the last request is told for this one |
| `streambuf_retry` | 2 characters, a buffer of 2 | *violation* of `NoCharacterInvented`: reading on after the end |
| `parts` | startup: 2 threads, 1 failing `malloc`, 3 tables, 3 accepts. Params: vectors of 2 slots, 4 pairs of 2 names, 4 questions, one unknown record. Formats of up to 3 items of `MCItems`. A table of 2 entries, 6 descriptors, 3 operations, 2 initialisations. A parent and 2 children, 4 descriptors each, 3 sockets, 1 close | `PartsTypeOK`, `StartupSafe`, `ParamsSafe`, `PrintfSafe`, `AsyncSafe`, `ProcessesSafe` |

Why the bounds are enough. The reader's control depends on comparisons between
what is in the buffer and what is left of a header, of content or of padding.
With headers, bodies and pairs of 2 bytes, records of 0 to 2 content and 0 or 1
padding bytes and buffers of 3 and 4, each of these can end before, at and
behind the end of the buffer, and every read may return any number of bytes.
The scripts put each kind of interjection at each place of a request. A second
request is there to show what a kept connection inherits.

The writers' buffers are of 40 bytes, or of 32 where the allocation is not
aligned. Two strings of 21 do not fit, a string of 3 needs padding, and two
writes and any number of flushes leave every kind of room for the close
records, from too little for the first to enough for both. A failing write
stops after 5 bytes, within the first header, so that every write may fail;
where a record is torn makes no difference to the code.

A connection of one cell out and four in, with a buffer of four, makes each side
wait for the other: a request with three records of content is longer than the
socket and the buffer together, and so is the response. A buffer that holds a whole
request behind the end of the one before it, and three pipelined requests, let one be
lost with the buffer of the last reader and another be found behind it.

Two threads are the least for a descriptor to change hands, and three connections the
least for one to be rejected, one held and one waiting. One free descriptor gives
`EMFILE`. `accept_shutdown` leaves `OwnDescriptor` and `NoLeak` to the theorems of
section 4, which cover it (an AF_UNIX socket meets their condition). For stdio
everything a request inherits comes from the one before it, and both outcomes of
`FCGI_Accept` occur before and after a served request. Two threads in `FCGX_Init` are
the least for a race, and a failing `malloc` may hit either. A vector of two slots grows
twice with four pairs. The formats of `MCItems` lie on each side of the 100 bytes of the
fixed buffer and of what it has allocated before. A table of two entries grows twice for
six descriptors. A grandchild and a second listening socket are what two children and
three sockets allow. For Perl two requests with the same handles and one without are the
two cases; after two accepts an object has gone through every order of attaching and
finishing. In `PerlStream` every length and offset of an int is tried on every scalar.

`MaxRequests`, `MaxUnread`, `MaxPuts`, `MaxAnswers`, `MaxChars`, `MaxAccepts`, `MaxTables`,
`MallocFailures`, `MaxPairs`, `MaxUnknown`, `MaxItems`, `MaxAsyncFd`, `MaxOps`,
`MaxInits`, `MaxFd`, `MaxSockets`, `MaxCloses`, `MaxCalls`, `MaxStrings`,
`InputLength` and the sizes of the sets are bounds of the instances, not of the
code.

`CHECK_DEADLOCK` is on in every run: where the system may rest, the modules
say when, by a step that changes nothing (`Finished`, `Quiet`, `Exited`,
`Stopped`, `Over`, `Rest`, `AllWait`, and the end of `FCGX_Finish_r`). In
`Processes` that step (`DoNothing`) is always possible, since an application may do
nothing.

### Fairness

* *The library's code, once called, runs* (`WF_vars(Library)` in the reader and
  in the writer): its threads are scheduled, and a loop pass has no reason to
  wait but a read. A read ends because the server sends, goes away, or the
  receive timeout that `OS_Accept` sets on AF_INET sockets passes; for
  `FillReturns`, which says that a silent server cannot hold the library, the
  timeout is among the faults. On AF_UNIX connections no timeout is set
  (`os_unix.c:1114`), and there the property does not hold.
* *On a connection* (`FcgxConnection`) the library runs, the server sends what
  it began, receives what arrives and closes its end once it is told to, and the
  application finishes what it serves. Nothing makes the application read, or the
  server begin another request.
* *The server goes on sending and the application goes on reading*, only for
  `AllServed`, which is about a connection on which both behave.
* *Threads are scheduled and applications finish what they serve*
  (`WF_vars(Thread(t))`), for `BacklogDrains` and `LeavesAccept`. Nothing is assumed
  of signals, of new connections or of requests on them; on AF_INET sockets a read of a
  request that never comes ends by the timeout (`ReadFails`). `BacklogDrains` needs one
  thread that is not taken up for good (`TakenUp`): `FCGX_Accept_r` goes back to
  `OS_Accept` only when its connection is closed (`fcgiapp.c:2193`), so that servers
  which keep every thread busy on its kept connection hold off all others for ever, as
  do threads that have left their loops. Without this premise TLC finds that
  behaviour.

## 4. Proofs

TLC decides the small instances; the theorems hold for every value of the
constants, given the named assumptions of the modules (finite sets of threads
and connections, lengths that are natural numbers, and the like). Every invariant
and every safety property of the passing runs is the statement of a theorem, for
the specification the run checks.

| Theorem | Property | For all |
|---|---|---|
| `FcgxReaderProofs!ReaderTypes` | `TypeOK` | conversations, lengths and faults |
| `ReaderFaithful` | `StreamFidelity` | conversations, lengths and faults with `Premises` |
| `ReaderReports` | `TruncationReported` | the same |
| `ReaderInSequence` | `StreamsInSequence` | the same; with them no filter calls `FCGX_StartFilterData` out of turn, and only the run covers one that does |
| `ReaderKeepsFraming`, `ReaderAnswers` | `Framing`, `Answered` | conversations and lengths, reads that time out or are interrupted, failing answers, with `Orderly` |
| `FcgxWriterProofs!WriterTypes`, `PaddingAlwaysFits` | `TypeOK`, `PaddingFits` | buffer lengths, strings, ways a write fails |
| `WireIsFaithful`, `EndIsSentOnce`, `TornWireIsClosed` | `WireFidelity`, `EndOnce`, `TornWireCloses` | the same |
| `ErrorsSilence` | `SilentAfterError` | the same |
| `WritersAnswer` | `ImplementsResponse` | the same: the refinement of `ResponseStream` |
| `FcgxConnectionProofs!ConnectionTypes`, `ResponsesAreWhole`, `KeptConnections` | `TypeOK`, `ResponseWhole`, `KeptWhenDrained` | rooms of the sockets, buffer lengths, bodies, numbers of requests, servers |
| `ConnectionIsALog` | `ImplementsLog` | the same: the refinement of `RequestLog` |
| `FcgxAcceptProofs!AcceptTypes`, `OneLateConnection` | `TypeOK`, `AtMostOneLate` | threads, connections, descriptors |
| `DescriptorsOwned`, `NoneLeaked` | `OwnDescriptor`, `NoLeak` | the same, with `Sound` |
| `FcgiStdioProofs!FilesLive`, `EveryRequestServed` | `LiveStreams`, `RequestsServed` | numbers of requests, statuses |
| `LayersProofs!TiedHandlesLive`, `NothingLeftBehind` | `HandlesLive`, `RequestsReleased` | requests and handles, shared or not |
| `LayersTypes`, `CharactersPass` | `LayersTypeOK`, `CharactersKept` | all constants of the layers, with `~Retries` |
| `PartsProofs!PartsTypes` | `PartsTypeOK` | all constants of the parts |
| `StartupIsSafe`, `EnvironmentSafe`, `FormattedSafely`, `TableAgrees`, `ChildrenServe` | `StartupSafe`, `ParamsSafe`, `PrintfSafe`, `AsyncSafe`, `ProcessesSafe` | threads; vectors, names and questions; formats; descriptors and operations; children and sockets |

### The arguments

**Reader.** `ReaderTypes` needs nothing but the shape of the pointers and of the
bytes (`Typed`). The next three follow from one inductive invariant,
`ReaderInv = Typed /\ Control /\ NoFilter /\ Tracked /\ Beginning /\ ServingInv`:

* `Control`: which combinations of `pc`, `nested`, `eorStop`, `headerLen`, `skip`
  and `phase` the loop can be in.
* `Tracked`: after the bytes of a header that were gathered, the reader is either
  where `contentLen` and `paddingLen` say it is (`Framed`), or inside a record and
  looking for a header (`Stray`), and then an error, the end of the connection or a
  call out of order is to blame. `StreamFidelity` says nothing of lengths, but a
  reader that has lost its place delivers anything.
* `Beginning`: what a reader knows while it reads the body of `FCGI_BEGIN_REQUEST`.
* `ServingInv`: while a request is served, `Settled` holds. What was handed out is
  the content that the reader has gone past (`Delivered`); what is in hand is wanted
  and what is skipped is not (`Handed`, `Skipping`); the streams come in order
  (`InOrder`), nothing of a later one has gone past (`Future`), the earlier ones are
  parts from the front of what was sent (`Past`), or all of it when nothing went
  wrong (`Complete`); the request is that of `begun` (`Identified`).

The premises are about the server and the application, and each is one that the
code makes necessary. `Conforming`: content of a request comes behind its
`FCGI_BEGIN_REQUEST`, its id is used again only for a request that comes behind it,
and nothing comes on a stream that has ended (the protocol); management
records of unknown type have no content (`fcgiapp.c:1506`); no empty record
of another request comes before content (1724, the violation
`reader_foreign`); and a record that ends a stream has no padding (1853).
`InSequence`: an application that calls `FCGX_FClose` or `FCGX_ClearError` on its
input (fault `"seq"`) serves no filters, for `FCGX_StartFilterData` would go on
with a reader that has lost its place. `reader_served`, which has no such calls, meets
them; `reader_faults` has both and goes beyond the theorems there: TLC finds no violation.

`Framing` and `Answered` are about a whole connection: a reader starts with
`contentLen`, `paddingLen` and `headerLen` set to 0 and an empty buffer, which is right
only if the one before it stopped at the end of a record. `ReaderInv` says nothing of
that; they follow from it together with
`OrderlyInv = Sending /\ Between /\ (InProgress /\ FCGI_errno = "none" => OnTrack)`:

* `Sending`: the server has sent whole records, none of a request that is to come.
* `Between`: while no request is read the buffer ends where a record ends, the
  records before that place are those of the requests served, those behind it of later
  ones, and what was answered is what called for it so far.
* `OnTrack`, while a request is read without an error: `Framed`; whose turn it is
  (`Turn`: `begun` is the `FCGI_BEGIN_REQUEST` of the first request not served, and role
  and `keepConnection` are what it says); that before it begins all content is skipped
  (`Waiting`); that a stream which is closed ended with the current record
  (`StreamEnded`), which is why the next reader starts at a header; and which records
  were answered (`Answering`), where the current one counts only once its body was
  collected, if it has one.

With any one of what `Orderly` adds to `Premises` dropped, but for the numbering, which
only labels records, TLC finds `Framing` violated on some conversation. A
server that goes away inside a header ends the stream without an error and with bytes
of the header gathered; what was pipelined, or what an application left unread, is partly in
the buffer of a reader that is thrown away, so that the next one starts inside a record;
an application that clears an error goes on with a place that was lost; and
records of a request behind the end of its input are read, or half lost, by the reader of the
next one. `Answered` is violated where a record that calls for an answer is lost
with a buffer, behind the end of the input or pipelined; for an application that does
not read its input, and for the faults `"eof"` and `"seq"`, TLC finds no violation of it, and
the theorem takes them as premises only because its invariant needs the reader's
place. Failing answers and timeouts are allowed: what fails is the request, and the
connection with it.

**Writers.** Padding is written behind the content without a test; that it fits
follows from the buffer length being a multiple of 8 (or 8 less after alignment),
from content starting at a multiple of 8, and from the length of what is in the
buffer. `Inv = TypeOK /\ Buffers /\ Mode /\ Counted` is the shape of the buffer in
each mode of a stream, what a caller may be in the middle of, and that `nWriters`
counts the writers that were not closed. `WriterInv` adds what the bytes are:
`Strings` (a buffer holds bytes of its own stream only), who has closed what
(`Closed`, `Finishing`, `Lone`), and `Clean`: while no error has occurred,
`Orderly(Sent)`, `Ends` and `Content`. `Sent` is the connection together with
the close records on their way to it: which stream ends the request is decided by `nWriters`
before the records are written, and they may be split over two writes, so that a
statement about the connection alone is not inductive. The
refinement uses what follows from it for the connection alone (`WireOrder`).

**Connection.** `ConnectionInv` is `TypeOK` with: `Streams` and `Phases`, what the
sequences consist of and what a request has of them in each phase; `Position`, that what is
under way to the library, in the socket or the buffer, is a part of the script up to what was
sent; `Answered`, about what the server has seen, what will reach it and what is being
written taken as one (`Output`), that each request has its answers together and in turn, and
its end behind all that the application wrote; `Waited`, that an orderly server has
the end of every request before the one it begins; `Drained`, where the reader stands when a request
is read to its end; and `Unharmed`, that without a timeout no close destroys
output.

**Accepting.** The invariant says where in its loop a thread may hold a descriptor
(`Placed`), and that what it holds, `socket` between `accept(2)` and the tests or
`ipcFd` afterwards, is its own connection and nobody else's (`Owner`).
`OwnDescriptor` alone does not say what a thread holds between two requests. The condition
`Sound`, that an AF_INET socket with barred clients does not meet a shutdown, is
necessary: without it `accept_stale` is a counterexample. `OneLateConnection`
ties the count to the place from which a thread cannot come back to `accept(2)`.

**Standard I/O.** `LiveStreams` says nothing while `FCGI_Accept` has failed; the
invariant adds that a CGI program, which may go on from there, never had a stream.
`RequestsServed` is about requests that are over; until the last writer is closed the
invariant says which file still has to end the request, and with which status.

**Layers.** For Perl, `PerlInv` adds that a request is bound only while it is
accepted and that a handle is tied only to a request that is bound and was created with
it: this makes finishing a request untie all that is tied to it, also when handles
are shared. `ReleaseInv` adds that a bound request which shares its handles with no other
has them tied to itself; the other parts of `RequestsReleased` are inductive with it. For
the stream buffer, `OutInv` adds to `OutputFidelity` that the put area holds characters
behind all that was given before, and `InInv` that the get area holds the last
characters taken from the stream (`GetArea`). The input side needs `~Retries`, that nobody reads on
behind an end of file; `streambuf_retry` is the counterexample otherwise. The output
side needs no premise.

**Parts.** `EnvironmentSafe` rests on an exact account of the heap: which strings
the two vectors hold, and that none is in both. `FormattedSafely` shows for every
conversion that what is printed is shorter than the bound which chooses the
buffer. `StartupIsSafe` needs that a thread which accepts has been through
`FCGX_Init`, or has found it done, which is true although the flag is tested without a lock.
A connection that `Finish` keeps stays counted for its request while the thread waits for
the next one.
`TableAgrees` relates `maxFd` and the sets to the table while it grows.

**Compositions.** `LayersTypes`, `CharactersPass` and `PartsTypes` are about behaviours of
all components at once, and follow from those of each: a step of the composition
is a step of one component and a stutter of the others (`LayersAlone`, `PartsAlone`).

### How, and what the proofs changed

`SequenceOpsProofs` has what the proofs need about sequences: how many, which and in
what order (`Total`, `Selected`, `FlattenSeq`). These functions are recursive, and
induction is done on the least number for which a statement fails (`LeastNatural`),
since the induction theorems of the library cannot be instantiated. The models say
`Selected` and not `SelectSeq`, of which the prover has no definition.

Some proofs failed for a reason in a model, which was corrected: what belongs to a
request was counted by `served`, which is wrong for pipelined requests that were lost,
hence `begun`; `RequestLog` promised an early request an answer; a precedence in
`PrintfTypeOK` made a part of it say nothing; the assumptions on the programs of
`FcgxInit` and on the widths of `PerlStream` were implicit.

### Only model-checked

* Liveness (`AllServed`, `FillReturns`, `FinishReturns`, `BacklogDrains`,
  `LeavesAccept`, `EveryRequestEnds`) and everything about `ENABLED`.
* The violations: a run shows each on one instance, which is all that a
  counterexample needs.

## 5. Where the code differs from what it says

Four differences have a run of their own (section 3) and an entry under
`"findings"`: an empty foreign record, the stale descriptor after a
rejected client, the exit status that outlives its request, and the get pointer
that moves past the end. Others are part of the models, or were found on the
way, and explain the guards of some properties:

* On AF_UNIX connections a read can block for ever: no receive timeout is set
  (`os_unix.c:1114`), while the comment at `os_unix.c:461` counts on one.
  `FillReturns` is checked with the timeout.
* `main.cpp:44` compares the result of `FCGX_Accept_r` with -1, while it is
  `-errno` or -9999, and goes on with a request it has not got; `ServesAccepted`
  promises nothing to this program after a failure.
* The bound that `FCGX_VFPrintF` computes for a conversion (`fcgiapp.c:636`) has no place
  for the NUL when the width decides it, and none for a negative width;
  `Covered`, the guard of `OutputFits`, names the widths it does cover.
* `OS_Close` looks the entries of any descriptor up, also of one the table has not
  grown for (`os_unix.c:739`), and so does `OS_CloseRead` (`os_unix.c:803`). `AsyncTable`
  records that in `fault`.
* `OS_SpawnChild` closes descriptor 0 before it moves the listening socket there,
  also when the socket is descriptor 0 (`os_unix.c:526`); the child then starts
  without one. `ChildListens` is about the other sockets.
* `FCGI_StartFilterData` does not test whether the file has a stream
  (`fcgi_stdio.c:215`); once `FCGI_stdin` is closed the call ends the process
  (`call = "crashed"`).
* After `FCGI_UNKNOWN_TYPE` the content of the management record is delivered
  as content of the current stream (`fcgiapp.c:1506`); the scripts have such
  records without content.
* `SetReaderType` forgets the padding of the record that ended a stream
  (`fcgiapp.c:1853`), so that it is read as a header; `FCGI_PARAMS` and
  `FCGI_STDIN` end without padding in the scripts.
* A record read with `eorStop` that ends exactly with the buffer is told to
  end only after one more read (`fcgiapp.c:1635`).
* A timeout between two pairs ends the environment without an error from
  `FCGX_Accept_r` (`fcgiapp.c:1144`). The input stream shows the error, which
  is the second part of `TruncationReported`.
* When the server goes away `OS_Read` returns -1 with whatever `errno` was,
  and a truncated input may look complete (`os_unix.c:466`);
  `TruncationReported` is about connections on which the server is there.
* `FCGX_StartFilterData` succeeds after an error, also that of an earlier call which was
  rejected, as the error has set `isClosed` (`fcgiapp.c:2280`), though it is to fail until
  `FCGI_STDIN` has been read to its end (`fcgiapp.c:2263`). The error stays
  (`StreamsInSequence`).
* `FCGX_ClearError` is to "clear the stream error code and end-of-file indication"
  (`fcgiapp.c:973`, `fcgiapp.h:576`); it clears the error code only and leaves `isClosed` set,
  as its own comment at 979 admits. A reader or writer that is closed stays closed;
  `SilentAfterError` is about what a writer then does, no property about readers
  depends on it.
* `FCGX_FClose` writes the buffer again after a failed write
  (`fcgiapp.c:918`, 1418); the connection is closed then (`TornWireCloses`).
* After a rejected client and a shutdown a thread never leaves `OS_Accept`
  (`os_unix.c:1088`), the other side of `accept_stale`; `LeavesAccept` is
  checked without barred clients.
* Between the test of the flag and `accept(2)` one connection per thread may
  still be accepted (`AtMostOneLate`), and requests on kept connections are
  served without regard to the flag (`fcgiapp.c:2193`).
* After `FCGX_ClearError` or `FCGI_clearerr` of a writer whose write failed,
  `FCGX_Finish_r` does not know of it and may keep the connection with a torn
  or missing end (`fcgiapp.c:978`); `TornWireCloses` and `AnswerOrHangUp`
  leave these requests out.
* A management record of unknown type leaks its `Params` (`fcgiapp.c:1457`,
  1493). `response[64]` is not tested: `ResponseFits` is about servers that
  ask for each variable once (`fcgiapp.c:1459`).
* Unless `main` has run it before, `FCGX_Init` of one thread resets
  `the_request` while `FCGX_Accept` uses it, two that run at once leak a
  table, and a `malloc` that fails in one sets the table of the other to NULL
  (`fcgiapp.c:2081`); `Undisturbed` and `ReadyWhenAccepting` say where.
  `shutdownNow` (`os_unix.c:104`) is never set.
* `OS_CreateLocalIpcFd` unlinks a path before it binds to it, also that of a server
  which is running; the port is read into a `short`.
* `OS_LibShutdown` does not close descriptors, as its description says, and
  leaves `asyncIoInUse` set.
* `WRITE` of a tied handle returns the character whose number is the count, not the
  count (`perl/FCGI.c:1007`).
* Once `FCGI_stdin` is closed, `FCGI_SetExitStatus` has no effect
  (`fcgi_stdio.c:235`).
* A Perl request that is destroyed leaves a kept connection open
  (`perl/FCGI.c:364`), and `FCGI_fwrite` divides the -1 of an error as an
  unsigned number (`fcgi_stdio.c:681`).

## 6. Plan

Modelled, in this order: `FcgxReader` and its scripts; `FcgxWriter` and
`ResponseStream`; `FcgxAccept`; the proofs of descriptor ownership and of
the room for padding; `FcgiStdio`, `FcgiStreambuf`, `PerlRequest`; the proofs of
`LiveStreams` and `HandlesLive`; the missing calls of reader, writers and stdio; the
composition `FcgxConnection` with `RequestLog`; `Params`, `VFPrintF`,
`FcgxInit`, `Processes`, `AsyncTable`, `PerlStream`.

Proved, in this order: descriptors, padding, `LiveStreams` and `HandlesLive`; the parts that
stand alone (`PartsProofs`); the writers and their refinement; the connection and its
refinement; stdio; the reader; the C++ and Perl layers and the two compositions; what one
reader leaves to the next (`Framing`, `Answered`).

Of the safety properties nothing is left to prove; liveness stays with TLC (section 4).

### Not modelled

* The lock around `accept(2)` (`fcgiapp.c` with `USE_LOCKING`), which
  `fcgi_config.h:121` leaves undefined.
* `FCGI_popen`, `FCGI_pclose`, `FCGI_perror` and the files an application opens by
  itself: wrappers that hold no state of the library.
* The environment hash of the Perl binding and its SFIO variant, which the
  build does not use.
* `OS_SetFlags`, address parsing beyond the cases that the code tells apart,
  what `main.cpp` does to the limits of its process.
* The test drivers, declarations and build files.
