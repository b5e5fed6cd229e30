------------------------------ MODULE FcgiStdio ------------------------------
(***************************************************************************)
(* The standard I/O layer (libfcgi/fcgi_stdio.c) of a single-threaded      *)
(* application: FCGI_Accept, FCGI_Finish, the three FCGI_FILEs and what    *)
(* they stand for, over FCGX_Accept and FCGX_Finish of the_request.        *)
(*                                                                         *)
(* A FCGX_Stream is known by the number of its request; its FCGI_FILE says *)
(* which of the three streams it is.  What goes through a stream is        *)
(* FcgxReader's and FcgxWriter's subject; here it works or it fails.       *)
(***************************************************************************)
EXTENDS Integers, Sequences

CONSTANTS
    MaxRequests,    \* bound: requests the web server sends
    Statuses        \* values given to FCGI_SetExitStatus

ASSUME StdioAssumption == MaxRequests \in Nat /\ Statuses \subseteq Int

Std     == {"in", "out", "err"}     \* FCGI_stdin, FCGI_stdout, FCGI_stderr
Writers == {"out", "err"}
Numbers == 1..MaxRequests

VARIABLES
    invokedAs,      \* "CGI" | "FastCGI": how the process was started
    acceptCalled, isCGI,
    stdio,          \* stdio_stream of each file: "NULL" | "process" | "opened"
    fcgx,           \* fcgx_stream of each file: a request, 0 for NULL
    environ,        \* "process" | "NULL" | "envp" of the request envpOf
    envpOf,
    current,        \* the request whose streams the_request holds, 0 for none
    keepConnection, connected, appStatus,   \* of the_request
    fclosed,        \* streams of the current request FCGX_FClose was called on
    failed,         \* streams of the current request with an error code
    accepted,       \* requests accepted so far
    ended,          \* appStatus of the FCGI_END_REQUESTs sent, per request
    hungUp,         \* requests whose connection has been closed
    wanted,         \* <<status last set>> in each request, <<>> if none was
    cleared,        \* requests in which the error of a closed file was cleared
    moved,          \* files closed or reopened since the request was accepted
    call            \* what FCGI_Accept last did: "none" | "ok" | "failed" |
                    \* "finished" (by FCGI_Finish) | "exited" | "crashed"

files   == <<stdio, fcgx, environ, envpOf>>
request == <<current, keepConnection, connected, appStatus, fclosed, failed>>
history == <<accepted, ended, hungUp, wanted, cleared, moved>>
vars == <<invokedAs, acceptCalled, isCGI, files, request, history, call>>

Running == call \notin {"exited", "crashed"}

-----------------------------------------------------------------------------
(* FCGX_FClose of streams of the current request.                          *)

Unclosed(F) == (F \cap Writers) \ fclosed

\* The close of the last writer writes FCGI_END_REQUEST.  FCGX_Finish_r closes
\* err first.
LastWriter(F) == IF "out" \in Unclosed(F) THEN "out" ELSE "err"
Ends(F) == Unclosed(F) # {} /\ Writers \subseteq fclosed \cup F

\* Closing F, of which G fails.
EndRequests(F, G) ==
    ended' = IF Ends(F) /\ LastWriter(F) \notin G
             THEN [ended EXCEPT ![current] = Append(@, appStatus)] ELSE ended

FClose(f) ==
    /\ \E G \in SUBSET Unclosed({f}) : EndRequests({f}, G) /\ failed' = failed \cup G
    /\ fclosed' = fclosed \cup {f}

-----------------------------------------------------------------------------
(* FCGX_Finish and FCGX_Accept of the_request.                             *)

\* Mutant of MustClose: the errors of the streams are not looked at.
CarelessMustClose(G) == ~keepConnection

\* close in FCGX_Finish_r, where the writers in G fail to close.
MustClose(G) == ~keepConnection \/ (current # 0 /\ failed \cup G # {})

\* Which writers FCGX_Finish_r may fail to close.
Failures == IF current = 0 THEN {{}} ELSE SUBSET Unclosed(Writers)

\* FCGX_Finish_r; G are the writers that fail.
FinishStreams(G) ==
    /\ IF current = 0 THEN ended' = ended ELSE EndRequests(Writers, G)
    /\ current' = 0 /\ fclosed' = {} /\ failed' = {}

Closed(n) == IF n = 0 THEN hungUp ELSE hungUp \cup {n}

FCGX_Finish ==
    \E G \in Failures :
        /\ FinishStreams(G)
        /\ connected' = (connected /\ ~MustClose(G))
        /\ hungUp' = IF MustClose(G) THEN Closed(accepted) ELSE hungUp
        /\ UNCHANGED <<keepConnection, appStatus, accepted>>

\* FCGX_Accept_r: the old request is finished, a kept connection is read from
\* first, and when that fails, or there is none, a new one is accepted.  The
\* structure is not reset: appStatus is what it was.
AcceptNext ==
    \E G \in Failures, k \in BOOLEAN, sameConn \in BOOLEAN :
        /\ sameConn => connected /\ ~MustClose(G)
        /\ IF current = 0 THEN ended' = ended ELSE EndRequests(Writers, G)
        /\ accepted' = accepted + 1
        /\ current' = accepted + 1
        /\ keepConnection' = k
        /\ connected' = TRUE
        /\ fclosed' = {} /\ failed' = {}
        /\ hungUp' = IF sameConn THEN hungUp ELSE Closed(accepted)
        /\ UNCHANGED appStatus

\* OS_Accept fails, after the old request was finished and freed and its
\* connection closed or lost.
AcceptNone ==
    \E G \in Failures, k \in BOOLEAN :
        /\ FinishStreams(G)
        /\ connected' = FALSE
        /\ hungUp' = Closed(accepted)
        /\ keepConnection' = k
        /\ UNCHANGED <<appStatus, accepted>>

-----------------------------------------------------------------------------
(* FCGI_Accept and FCGI_Finish.                                            *)

\* The first call finds a CGI program: the files stand for the process's own.
AcceptCGI ==
    /\ Running
    /\ ~acceptCalled /\ invokedAs = "CGI"
    /\ acceptCalled' = TRUE /\ isCGI' = TRUE
    /\ stdio' = [f \in Std |-> "process"]
    /\ fcgx' = [f \in Std |-> 0]
    /\ call' = "ok"
    /\ UNCHANGED <<invokedAs, environ, envpOf, request, history>>

\* The second call of a CGI program returns EOF at once.
AcceptCGIAgain ==
    /\ call \in {"ok", "failed"}
    /\ acceptCalled /\ isCGI
    /\ call' = "failed"
    /\ UNCHANGED <<invokedAs, acceptCalled, isCGI, files, request, history>>

FastCGICall ==
    /\ Running
    /\ invokedAs = "FastCGI"
    /\ acceptCalled' = TRUE
    /\ UNCHANGED <<invokedAs, isCGI>>

\* A stdio_stream left by FCGI_freopen is forgotten, not closed.
AcceptRequest ==
    /\ FastCGICall
    /\ accepted < MaxRequests
    /\ AcceptNext
    /\ stdio' = [f \in Std |-> "NULL"]
    /\ fcgx' = [f \in Std |-> current']
    /\ environ' = "envp" /\ envpOf' = current'
    /\ moved' = {}
    /\ call' = "ok"
    /\ UNCHANGED <<wanted, cleared>>

\* Returns early: the files and environ keep pointing at what was freed.
AcceptFails ==
    /\ FastCGICall
    /\ AcceptNone
    /\ call' = "failed"
    /\ UNCHANGED <<files, wanted, cleared, moved>>

\* Mutant of ForgetStreams: the files keep their streams.
KeepStreams == UNCHANGED fcgx /\ environ' = "NULL" /\ UNCHANGED <<stdio, envpOf>>

ForgetStreams ==
    /\ fcgx' = [f \in Std |-> 0]
    /\ environ' = "NULL"
    /\ UNCHANGED <<stdio, envpOf>>

\* FCGI_Finish, called by the application, or by exit(3) once FCGI_Accept has
\* registered it.
Finish(next) ==
    /\ Running
    /\ call' = next
    /\ IF ~acceptCalled \/ isCGI
       THEN UNCHANGED <<files, request, history>>
       ELSE FCGX_Finish /\ ForgetStreams /\ UNCHANGED <<wanted, cleared, moved>>
    /\ UNCHANGED <<invokedAs, acceptCalled, isCGI>>

FCGI_Finish == Finish(IF acceptCalled /\ ~isCGI THEN "finished" ELSE call)

Exit == Finish("exited")

-----------------------------------------------------------------------------
(* The files.  An application whose FCGI_Accept failed is to exit, and does *)
(* not use them any more.                                                  *)

Usable == call \in {"none", "ok", "finished"}

\* What a call on a file goes to: stdio_stream, if there is one, is preferred.
Dispatch(f) == IF stdio[f] # "NULL" THEN "stdio"
               ELSE IF fcgx[f] # 0 THEN "fcgx" ELSE "EOF"

\* FCGI_fputs and the other calls that write; a write(2) may fail.
PutFails(f) ==
    /\ Usable /\ f \in Writers
    /\ Dispatch(f) = "fcgx" /\ f \notin fclosed
    /\ failed' = failed \cup {f}
    /\ UNCHANGED <<invokedAs, acceptCalled, isCGI, files, current, keepConnection,
                   connected, appStatus, fclosed, history, call>>

\* FCGI_fgetc and the other calls that read; a read(2) may fail.
GetFails ==
    /\ Usable
    /\ Dispatch("in") = "fcgx" /\ "in" \notin fclosed
    /\ failed' = failed \cup {"in"}
    /\ UNCHANGED <<invokedAs, acceptCalled, isCGI, files, current, keepConnection,
                   connected, appStatus, fclosed, history, call>>

FCGI_fclose(f) ==
    /\ Usable
    /\ CASE Dispatch(f) = "stdio" ->
              /\ stdio' = [stdio EXCEPT ![f] = "NULL"]
              /\ UNCHANGED <<fcgx, request, ended>>
         [] Dispatch(f) = "fcgx" ->
              /\ FClose(f)
              /\ fcgx' = [fcgx EXCEPT ![f] = 0]
              /\ UNCHANGED <<stdio, current, keepConnection, connected, appStatus>>
         [] OTHER -> UNCHANGED <<stdio, fcgx, request, ended>>
    /\ moved' = moved \cup {f}
    /\ UNCHANGED <<invokedAs, acceptCalled, isCGI, environ, envpOf, accepted,
                   hungUp, wanted, cleared, call>>

\* FCGI_freopen; the file may or may not be opened.  A stdio_stream that could
\* not be reopened stays, as freopen(3) leaves it, closed.
FCGI_freopen(f) ==
    /\ Usable
    /\ Dispatch(f) # "EOF"
    /\ \/ /\ Dispatch(f) = "stdio"
          /\ stdio' \in {stdio, [stdio EXCEPT ![f] = "opened"]}
          /\ UNCHANGED <<fcgx, request, ended>>
       \/ /\ Dispatch(f) = "fcgx"
          /\ FClose(f)
          /\ \/ /\ stdio' = [stdio EXCEPT ![f] = "opened"]
                /\ fcgx' = [fcgx EXCEPT ![f] = 0]
             \/ UNCHANGED <<stdio, fcgx>>
          /\ UNCHANGED <<current, keepConnection, connected, appStatus>>
    /\ moved' = moved \cup {f}
    /\ UNCHANGED <<invokedAs, acceptCalled, isCGI, environ, envpOf, accepted,
                   hungUp, wanted, cleared, call>>

\* FCGI_clearerr: the error of the stream, not what was lost with it.
FCGI_clearerr(f) ==
    /\ Usable
    /\ Dispatch(f) = "fcgx"
    /\ failed' = failed \ {f}
    /\ cleared' = IF f \in fclosed \cap failed THEN cleared \cup {current} ELSE cleared
    /\ UNCHANGED <<invokedAs, acceptCalled, isCGI, files, current, keepConnection,
                   connected, appStatus, fclosed, accepted, ended, hungUp, wanted, moved, call>>

\* FCGI_StartFilterData, for a request of any role, at any time while it is served:
\* unlike the other calls it goes to the stream without a test that there is one.
FCGI_StartFilterData ==
    /\ call = "ok"
    /\ stdio["in"] = "NULL"
    /\ IF fcgx["in"] = 0 THEN call' = "crashed" /\ UNCHANGED failed
       ELSE failed' \in {failed, failed \cup {"in"}} /\ UNCHANGED call
    /\ UNCHANGED <<invokedAs, acceptCalled, isCGI, files, current, keepConnection,
                   connected, appStatus, fclosed, history>>

\* Without effect when FCGI_stdin is no stream of a request.  A status set
\* after both writers were closed comes too late for FCGI_END_REQUEST.
FCGI_SetExitStatus(s) ==
    /\ Usable
    /\ fcgx["in"] # 0
    /\ appStatus' = s
    /\ wanted' = IF Writers \subseteq fclosed THEN wanted
                 ELSE [wanted EXCEPT ![fcgx["in"]] = <<s>>]
    /\ UNCHANGED <<invokedAs, acceptCalled, isCGI, files, current, keepConnection,
                   connected, fclosed, failed, accepted, ended, hungUp, cleared, moved, call>>

-----------------------------------------------------------------------------
Exited == ~Running /\ UNCHANGED vars

Init ==
    /\ invokedAs \in {"CGI", "FastCGI"}
    /\ acceptCalled = FALSE /\ isCGI = FALSE
    /\ stdio = [f \in Std |-> "NULL"] /\ fcgx = [f \in Std |-> 0]
    /\ environ = "process" /\ envpOf = 0
    /\ current = 0 /\ keepConnection = FALSE /\ connected = FALSE /\ appStatus = 0
    /\ fclosed = {} /\ failed = {}
    /\ accepted = 0
    /\ ended = [n \in Numbers |-> <<>>] /\ hungUp = {}
    /\ wanted = [n \in Numbers |-> <<>>] /\ cleared = {} /\ moved = {}
    /\ call = "none"

FCGI_Accept == AcceptCGI \/ AcceptCGIAgain \/ AcceptRequest \/ AcceptFails

Use == \/ \E f \in Std : PutFails(f) \/ FCGI_fclose(f) \/ FCGI_freopen(f) \/ FCGI_clearerr(f)
       \/ GetFails \/ FCGI_StartFilterData
       \/ \E s \in Statuses : FCGI_SetExitStatus(s)

Next == FCGI_Accept \/ FCGI_Finish \/ Exit \/ Use \/ Exited

Spec == Init /\ [][Next]_vars

-----------------------------------------------------------------------------
(* Properties.                                                             *)

\* Every variable has its type; what is said of streams is said of those of a
\* current request.
TypeOK ==
    /\ invokedAs \in {"CGI", "FastCGI"} /\ acceptCalled \in BOOLEAN
    /\ isCGI \in BOOLEAN /\ (isCGI => invokedAs = "CGI")
    /\ stdio \in [Std -> {"NULL", "process", "opened"}]
    /\ accepted \in 0..MaxRequests
    /\ fcgx \in [Std -> 0..accepted] /\ current \in {0, accepted}
    /\ environ \in {"process", "NULL", "envp"} /\ envpOf \in 0..accepted
    /\ keepConnection \in BOOLEAN /\ connected \in BOOLEAN
    /\ appStatus \in Statuses \cup {0}
    /\ fclosed \subseteq Std /\ failed \subseteq Std
    /\ (current = 0 => fclosed = {} /\ failed = {})
    /\ ended \in [Numbers -> Seq(Statuses \cup {0})] /\ hungUp \subseteq Numbers
    /\ wanted \in [Numbers -> Seq(Statuses)] /\ cleared \subseteq Numbers /\ moved \subseteq Std
    /\ call \in {"none", "ok", "failed", "finished", "exited", "crashed"}

\* Unless FCGI_Accept has failed, no file and no environ points at a stream or
\* an environment that FCGX_Finish_r has freed, whatever was finished, closed
\* or reopened in which order.
LiveStreams ==
    call # "failed" =>
        /\ \A f \in Std : fcgx[f] \in {0, current}
        /\ environ = "envp" => current # 0 /\ envpOf = current

\* After a successful FCGI_Accept a file that was not closed or reopened since
\* is the stream of the request accepted last, or in a CGI program the
\* process's own, whatever was done to it while other requests were served.
DispatchHome ==
    call = "ok" => \A f \in Std \ moved :
        IF isCGI THEN stdio[f] = "process"
        ELSE Dispatch(f) = "fcgx" /\ fcgx[f] = accepted

\* The server learns of the end of each request: FCGI_END_REQUEST is sent, at
\* most once, or the connection is closed, by the time of the next FCGI_Accept,
\* of FCGI_Finish or of the end of the process; but where the application cleared
\* the error of a writer that FCGI_freopen had closed, which FCGX_Finish_r cannot
\* see then.
AnswerOrHangUp ==
    \A n \in (1..accepted) \ cleared :
        /\ Len(ended[n]) <= 1
        /\ (n # current \/ call = "exited") => Len(ended[n]) = 1 \/ n \in hungUp

\* When FCGI_SetExitStatus was called for a request, the status of the last call
\* before its end is the one the server is told.
StatusTold ==
    \A n \in 1..accepted :
        (wanted[n] # <<>> /\ ended[n] # <<>>) => Head(ended[n]) = Head(wanted[n])

\* What every request gets whatever was done in those before it: its own files,
\* one end, and the status it set.
RequestsServed == DispatchHome /\ AnswerOrHangUp /\ StatusTold

\* The status the server is told is that of the request's own calls of
\* FCGI_SetExitStatus: a request without one ends with 0, as an application
\* run as a CGI program would.
OwnStatus ==
    \A n \in 1..accepted :
        (wanted[n] = <<>> /\ ended[n] # <<>>) => Head(ended[n]) = 0

=============================================================================
