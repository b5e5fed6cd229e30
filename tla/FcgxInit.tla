------------------------------ MODULE FcgxInit ------------------------------
(***************************************************************************)
(* How a process comes to accept requests: FCGX_Init and OS_LibInit,       *)
(* which several threads may run at once, FCGX_IsCGI, and the loops of     *)
(* the threads around FCGX_Accept_r.  Three programs do so: "threads",     *)
(* whose threads call FCGX_Init themselves, as in test/common.hpp;         *)
(* "mixed", in which main calls it first and the threads of Stdio run the  *)
(* loop of FCGI_Accept on the_request; and "example", which is main.cpp.   *)
(* What a request and its connection are is FcgxWriter, FcgxReader,        *)
(* FcgxAccept.                                                             *)
(***************************************************************************)
EXTENDS Integers, FiniteSets

CONSTANTS
    Threads,
    Stdio,          \* those that use FCGI_Accept in the mixed program
    MallocFailures, \* bound: allocations of asyncIoTable that fail
    MaxTables,      \* bound: allocations that succeed
    MaxAccepts      \* bound: connections accepted

Main == "main"
Callers == Threads \cup {Main}
Shared == "the_request"

\* FCGX_Accept, which works on the_request, is not for several threads (fcgiapp.h:247).
ASSUME InitAssumption ==
    /\ IsFiniteSet(Threads) /\ {Main, Shared} \cap Threads = {}
    /\ Stdio \subseteq Threads /\ \A s, t \in Stdio : s = t
    /\ {MallocFailures, MaxTables, MaxAccepts} \subseteq Nat

Requests == Threads \cup {Shared}

VARIABLES
    program,                \* "threads" | "mixed" | "example"
    libInitialized,         \* of fcgiapp.c
    osInitialized,          \* libInitialized of os_unix.c
    asyncTable, tables,     \* asyncIoTable, 0 for NULL; tables allocated
    sigusr1,                \* handler: "default" | "application" | "library"
    webServerAddressList,   \* "unset" | "read"
    isFcgi,                 \* isFastCGI: -1 | 0 | 1
    fastCGI,                \* FCGI_LISTENSOCK_FILENO is a listening socket
    failures, accepts,
    in, envp, connected,    \* of each FCGX_Request: the streams, the vector, ipcFd >= 0,
    keepConnection,         \* and what FCGI_BEGIN_REQUEST has said of the connection
    open,                   \* the connections of the process
    pc, result              \* of each thread

lib == <<libInitialized, osInitialized, asyncTable, tables, sigusr1, webServerAddressList>>
process == <<program, fastCGI>>
cgi == <<isFcgi, process>>
requests == <<in, envp, connected, keepConnection, open>>
startupVars == <<lib, cgi, failures, accepts, requests, pc, result>>

\* Only the mixed program has threads of FCGI_Accept.
UsesStdio(t) == program = "mixed" /\ t \in Stdio
Own(t) == IF UsesStdio(t) THEN Shared ELSE t

Goto(t, where) == pc' = [pc EXCEPT ![t] = where]
Returns(t, rc) == result' = [result EXCEPT ![t] = rc]

-----------------------------------------------------------------------------
(* FCGX_Init and OS_LibInit, called by t and going on at "ready".          *)

\* Mutant of TestInitialized: the flag is set before the work is done.
HastyInit(t) ==
    /\ pc[t] = "init"
    /\ IF libInitialized THEN Goto(t, "ready") /\ Returns(t, "0")
                         ELSE Goto(t, "reset") /\ UNCHANGED result
    /\ libInitialized' = TRUE
    /\ UNCHANGED <<osInitialized, asyncTable, tables, sigusr1, webServerAddressList,
                   cgi, failures, accepts, requests>>

TestInitialized(t) ==
    /\ pc[t] = "init"
    /\ IF libInitialized THEN Goto(t, "ready") /\ Returns(t, "0")
                         ELSE Goto(t, "reset") /\ UNCHANGED result
    /\ UNCHANGED <<lib, cgi, failures, accepts, requests>>

\* FCGX_InitRequest: memset, ipcFd = -1.
InitRequest(r) ==
    /\ in' = [in EXCEPT ![r] = FALSE]
    /\ keepConnection' = [keepConnection EXCEPT ![r] = FALSE]
    /\ envp' = [envp EXCEPT ![r] = "NULL"]
    /\ connected' = [connected EXCEPT ![r] = FALSE]
    /\ UNCHANGED open

ResetTheRequest(t) ==
    /\ pc[t] = "reset"
    /\ InitRequest(Shared)
    /\ Goto(t, IF osInitialized THEN "list" ELSE "table")
    /\ UNCHANGED <<lib, cgi, failures, accepts, result>>

\* The table, the sets of descriptors and the signal handlers; a handler the
\* application has set is left alone.
LibInit(t) ==
    /\ pc[t] = "table"
    /\ tables < MaxTables
    /\ tables' = tables + 1
    /\ asyncTable' = tables'
    /\ sigusr1' = IF sigusr1 = "default" THEN "library" ELSE sigusr1
    /\ osInitialized' = TRUE
    /\ Goto(t, "list")
    /\ UNCHANGED <<libInitialized, webServerAddressList, cgi, failures, accepts,
                   requests, result>>

\* malloc fails: FCGX_Init returns ENOMEM.
LibInitFails(t) ==
    /\ pc[t] = "table"
    /\ failures < MallocFailures
    /\ failures' = failures + 1
    /\ asyncTable' = 0
    /\ Goto(t, "ready")
    /\ Returns(t, "ENOMEM")
    /\ UNCHANGED <<libInitialized, osInitialized, tables, sigusr1, webServerAddressList,
                   cgi, accepts, requests>>

ReadAddresses(t) ==
    /\ pc[t] = "list"
    /\ webServerAddressList' = "read"
    /\ Goto(t, "flag")
    /\ UNCHANGED <<libInitialized, osInitialized, asyncTable, tables, sigusr1,
                   cgi, failures, accepts, requests, result>>

SetInitialized(t) ==
    /\ pc[t] = "flag"
    /\ libInitialized' = TRUE
    /\ Goto(t, "ready")
    /\ Returns(t, "0")
    /\ UNCHANGED <<osInitialized, asyncTable, tables, sigusr1, webServerAddressList,
                   cgi, failures, accepts, requests>>

-----------------------------------------------------------------------------
(* The threads.                                                            *)

\* The application installs a handler of its own, before it calls the library.
SetHandler ==
    /\ \A t \in Callers : pc[t] = "start"
    /\ sigusr1 = "default"
    /\ sigusr1' = "application"
    /\ UNCHANGED <<libInitialized, osInitialized, asyncTable, tables,
                   webServerAddressList, cgi, failures, accepts, requests, pc, result>>

\* FCGX_Init is called in main, in the thread, or by FCGX_IsCGI in FCGI_Accept.
Start(t) ==
    /\ pc[t] = "start"
    /\ program # "threads" => t = Main \/ pc[Main] = "end"
    /\ program = "threads" => t # Main
    /\ Goto(t, IF program = "example" /\ t # Main THEN "ready" ELSE "init")
    /\ UNCHANGED <<lib, cgi, failures, accepts, requests, result>>

\* main goes on, as the threads do, whatever FCGX_Init returned; without a
\* listening socket the process ends.
MainReady ==
    /\ pc[Main] = "ready"
    /\ Goto(Main, "end") \/ pc' = [c \in Callers |-> "end"]
    /\ UNCHANGED <<lib, cgi, failures, accepts, requests, result>>

RequestReady(t) ==
    /\ ~UsesStdio(t)
    /\ pc[t] = "ready"
    /\ InitRequest(t)
    /\ Goto(t, "accept")
    /\ UNCHANGED <<lib, cgi, failures, accepts, result>>

\* FCGX_IsCGI in FCGI_Accept: the process exits without the library; a CGI
\* process serves one request with the stdio of the system.
AskIsCGI(t) ==
    /\ UsesStdio(t)
    /\ pc[t] = "ready"
    /\ IF result[t] = "ENOMEM"
       THEN pc' = [c \in Callers |-> "end"] /\ UNCHANGED isFcgi
       ELSE /\ isFcgi' = IF isFcgi = -1 THEN IF fastCGI THEN 1 ELSE 0 ELSE isFcgi
            /\ Goto(t, IF isFcgi' = 1 THEN "accept" ELSE "end")
    /\ UNCHANGED <<lib, process, failures, accepts, requests, result>>

\* FCGX_Accept_r without FCGX_Init.
NotInitialized(t) ==
    /\ pc[t] = "accept"
    /\ ~libInitialized
    /\ Returns(t, "-9998")
    /\ Goto(t, "test")
    /\ UNCHANGED <<lib, cgi, failures, accepts, requests>>

\* FCGX_Finish_r: the streams and the parameters are freed, envp keeps its value.
\* The connection is closed when it is not to be kept, or, while there are streams,
\* when one has an error; called once more, as FCGX_Accept_r does, it stays kept.
Finish(r) ==
    /\ in' = [in EXCEPT ![r] = FALSE]
    /\ envp' = [envp EXCEPT ![r] = IF @ = "live" THEN "freed" ELSE @]
    /\ UNCHANGED keepConnection
    /\ \/ /\ keepConnection[r]
          /\ UNCHANGED <<connected, open>>
       \/ /\ ~keepConnection[r] \/ in[r]
          /\ connected' = [connected EXCEPT ![r] = FALSE]
          /\ open' = IF connected[r] THEN open - 1 ELSE open

BeginAccept(t) ==
    /\ pc[t] = "accept"
    /\ libInitialized
    /\ Finish(Own(t))
    /\ Goto(t, "wait")
    /\ UNCHANGED <<lib, cgi, failures, accepts, result>>

\* A request is read from the connection that was kept or is accepted, and says
\* whether it is to be kept.
Begun(r) == \E keep \in BOOLEAN : keepConnection' = [keepConnection EXCEPT ![r] = keep]

AcceptRequest(t) ==
    /\ pc[t] = "wait"
    /\ accepts < MaxAccepts
    /\ accepts' = accepts + 1
    /\ in' = [in EXCEPT ![Own(t)] = TRUE]
    /\ envp' = [envp EXCEPT ![Own(t)] = "live"]
    /\ Begun(Own(t))
    /\ connected' = [connected EXCEPT ![Own(t)] = TRUE]
    /\ open' = IF connected[Own(t)] THEN open ELSE open + 1
    /\ Returns(t, "0")
    /\ Goto(t, "test")
    /\ UNCHANGED <<lib, cgi, failures>>

\* TryAgain closes a kept connection, on which a request may have begun; accept(2)
\* fails, with EPERM = 1 or another.
AcceptFails(t) ==
    /\ pc[t] = "wait"
    /\ Begun(Own(t))
    /\ connected' = [connected EXCEPT ![Own(t)] = FALSE]
    /\ open' = IF connected[Own(t)] THEN open - 1 ELSE open
    /\ \E rc \in {"-1", "-errno", "-9999"} : Returns(t, rc)
    /\ Goto(t, "test")
    /\ UNCHANGED <<lib, cgi, failures, accepts, in, envp>>

\* The loop goes on: == -1 ends it in main.cpp, < 0 elsewhere.
Accepted(t) == IF program = "example" THEN result[t] # "-1" ELSE result[t] = "0"

TestResult(t) ==
    /\ pc[t] = "test"
    /\ Goto(t, IF Accepted(t) THEN "serve" ELSE "end")
    /\ UNCHANGED <<lib, cgi, failures, accepts, requests, result>>

\* FCGX_GetParam, FCGX_PutStr, and FCGX_Finish_r; FCGI_Accept finishes by itself.
Serve(t) ==
    /\ pc[t] = "serve"
    /\ IF UsesStdio(t) THEN UNCHANGED requests ELSE Finish(Own(t))
    /\ Goto(t, "accept")
    /\ UNCHANGED <<lib, cgi, failures, accepts, result>>

\* Nothing is left to do within the bounds: a thread waits for a connection.
AllWait ==
    /\ \A t \in Callers : pc[t] \in {"end", "wait"} \/ t = Main
    /\ UNCHANGED startupVars

-----------------------------------------------------------------------------

StartupInit ==
    /\ program \in {"threads", "mixed", "example"}
    /\ libInitialized = FALSE /\ osInitialized = FALSE
    /\ asyncTable = 0 /\ tables = 0
    /\ sigusr1 = "default" /\ webServerAddressList = "unset"
    /\ isFcgi = -1 /\ fastCGI \in BOOLEAN
    /\ failures = 0 /\ accepts = 0 /\ open = 0
    /\ in = [r \in Requests |-> FALSE]
    /\ envp = [r \in Requests |-> "NULL"]
    /\ connected = [r \in Requests |-> FALSE]
    /\ keepConnection = [r \in Requests |-> FALSE]
    /\ pc = [t \in Callers |-> "start"] /\ result = [t \in Callers |-> "0"]

FCGX_Init(t) == \/ TestInitialized(t) \/ ResetTheRequest(t) \/ LibInit(t) \/ LibInitFails(t)
                \/ ReadAddresses(t) \/ SetInitialized(t)

FCGX_Accept_r(t) == NotInitialized(t) \/ BeginAccept(t) \/ AcceptRequest(t) \/ AcceptFails(t)

Loop(t) == RequestReady(t) \/ AskIsCGI(t) \/ TestResult(t) \/ Serve(t)

StartupNext ==
    \/ \E t \in Callers : Start(t) \/ FCGX_Init(t)
    \/ \E t \in Threads : FCGX_Accept_r(t) \/ Loop(t)
    \/ MainReady \/ SetHandler \/ AllWait

StartupSpec == StartupInit /\ [][StartupNext]_startupVars

-----------------------------------------------------------------------------
(* Properties.                                                             *)

StartupTypeOK ==
    /\ program \in {"threads", "mixed", "example"}
    /\ {libInitialized, osInitialized, fastCGI} \subseteq BOOLEAN
    /\ tables \in 0..MaxTables /\ asyncTable \in 0..tables
    /\ sigusr1 \in {"default", "application", "library"}
    /\ webServerAddressList \in {"unset", "read"} /\ isFcgi \in {-1, 0, 1}
    /\ failures \in 0..MallocFailures /\ accepts \in 0..MaxAccepts /\ open \in 0..MaxAccepts
    /\ in \in [Requests -> BOOLEAN] /\ connected \in [Requests -> BOOLEAN]
    /\ envp \in [Requests -> {"NULL", "live", "freed"}]
    /\ keepConnection \in [Requests -> BOOLEAN]
    /\ pc \in [Callers -> {"start", "init", "reset", "table", "list", "flag", "ready",
                           "accept", "wait", "test", "serve", "end"}]
    /\ result \in [Callers -> {"0", "ENOMEM", "-1", "-errno", "-9998", "-9999"}]

\* Whoever accepts finds the library set up, also when it was another thread,
\* or two threads at once, that ran FCGX_Init, and when a first attempt failed:
\* the addresses that may connect, a handler for SIGUSR1, and the table, but where
\* a thread's malloc failed after another's table was in use: its NULL stays.
ReadyWhenAccepting == \A t \in Threads :
    pc[t] \in {"wait", "serve"} /\ libInitialized =>
        webServerAddressList = "read" /\ osInitialized /\ sigusr1 # "default"
        /\ (asyncTable # 0 \/ failures > 0)

\* the_request is safe from the FCGX_Init of other threads: nobody uses it, or
\* main's FCGX_Init, which ran first, has not failed.
Undisturbed == program = "mixed" => result[Main] = "0"

\* A thread works only on a request that was accepted: its streams are there and
\* its environment is not freed.  Not so in main.cpp after a failure: it takes every
\* one but -1 for a request (main.cpp:44).
ServesAccepted == Undisturbed => \A t \in Threads : pc[t] = "serve" =>
    \/ in[Own(t)] /\ envp[Own(t)] = "live"
    \/ program = "example" /\ result[t] # "0"

\* FCGX_Init of one thread loses no connection of another, and each open
\* connection is that of one request, also one that is kept while no request is
\* served, between the FCGX_Finish_r of the loop and the next FCGI_BEGIN_REQUEST.
ConnectionsHeld == Undisturbed => open = Cardinality({r \in Requests : connected[r]})

\* A process that several threads set up at once accepts only when it is ready,
\* serves only what it accepted, and holds every connection it has open.
StartupSafe == ReadyWhenAccepting /\ ServesAccepted /\ ConnectionsHeld

=============================================================================
