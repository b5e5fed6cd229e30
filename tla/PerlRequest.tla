----------------------------- MODULE PerlRequest -----------------------------
(***************************************************************************)
(* The request objects of the Perl binding (perl/FCGI.c): how FCGI::Accept,*)
(* Finish, Attach, Detach, Flush and DESTROY tie a program's file handles  *)
(* to the streams of the request being served and untie them again.  The   *)
(* three handles of a request are tied and untied together and count as    *)
(* one; several request objects may have been given the same handles.      *)
(*                                                                         *)
(* External: sv_magic does nothing when a handle is tied already, and      *)
(* sv_unmagic unties it whoever tied it.                                   *)
(***************************************************************************)
EXTENDS Integers

CONSTANTS
    Requests,   \* the FCGP_Request objects of the program
    Handles,    \* file handles
    gv,         \* the handle each request was created with
    NoOne,      \* not a request
    MaxAccepts  \* bound: requests accepted by one object

ASSUME PerlAssumption ==
    gv \in [Requests -> Handles] /\ NoOne \notin Requests /\ MaxAccepts \in Nat

VARIABLES
    exists,     \* FALSE once DESTROY has run
    isAccepted, bound,        \* of FCGP_Request
    magic,      \* the request whose stream objects a handle is tied to
    n,          \* number of the last request accepted by the object
    streams,    \* the request whose FCGX_Streams exist, 0 when they are freed
    sv,         \* the request whose FCGX_Streams svin, svout and sverr point at
    keepsConnection, isConnected,      \* of the FCGX_Request
    outcome,    \* of the last request: "none" | "open" | "ended" | "hungup"
    accepting   \* the object whose FCGI_Accept waits in FCGX_Accept_r, or NoOne

perlVars == <<exists, isAccepted, bound, magic, n, streams, sv, keepsConnection,
          isConnected, outcome, accepting>>

-----------------------------------------------------------------------------
(* The functions of the binding, as what they make of the variables.       *)

\* FCGI_UndoBinding
Untied(r) == [magic EXCEPT ![gv[r]] = NoOne]

\* Mutant of UndoneByFinish: the handle stays tied.
TiedByFinish(r) == magic

\* What FCGI_Finish leaves of the handle.
UndoneByFinish(r) == IF isAccepted[r] /\ bound[r] THEN Untied(r) ELSE magic

\* FCGI_Bind
Tied(m, r) == IF m[gv[r]] = NoOne THEN [m EXCEPT ![gv[r]] = r] ELSE m

\* Mutant of Ending: a detached request keeps its connection.
KeptEnding(r, failure) ==
    IF ~isAccepted[r] THEN [outcome |-> outcome[r], connected |-> isConnected[r]]
    ELSE IF bound[r] THEN [outcome |-> IF failure THEN "hungup" ELSE "ended",
                           connected |-> isConnected[r] /\ keepsConnection[r] /\ ~failure]
    ELSE [outcome |-> "open", connected |-> isConnected[r]]

\* FCGX_Finish_r of a request that is bound, which ends it, or fails to and
\* closes the connection; FCGX_Free of one that is detached, which closes the
\* connection without a word.
Ending(r, failure) ==
    IF ~isAccepted[r] THEN [outcome |-> outcome[r], connected |-> isConnected[r]]
    ELSE IF bound[r] THEN [outcome |-> IF failure THEN "hungup" ELSE "ended",
                           connected |-> isConnected[r] /\ keepsConnection[r] /\ ~failure]
    ELSE [outcome |-> "hungup", connected |-> FALSE]

\* FCGI_Finish
Finished(r, failure) ==
    /\ outcome' = [outcome EXCEPT ![r] = Ending(r, failure).outcome]
    /\ isConnected' = [isConnected EXCEPT ![r] = Ending(r, failure).connected]
    /\ isAccepted' = [isAccepted EXCEPT ![r] = FALSE]
    /\ bound' = [bound EXCEPT ![r] = @ /\ ~isAccepted[r]]
    /\ streams' = [streams EXCEPT ![r] = IF isAccepted[r] THEN 0 ELSE @]

-----------------------------------------------------------------------------
(* The methods of a request.  An interpreter runs one at a time.           *)

Callable(r) == exists[r] /\ accepting = NoOne

\* FCGI_Accept as far as FCGX_Accept_r: the request that is still being served
\* is finished first.
Accept(r) ==
    /\ Callable(r)
    /\ \E failure \in BOOLEAN : Finished(r, failure)
    /\ magic' = UndoneByFinish(r)
    /\ accepting' = r
    /\ UNCHANGED <<exists, n, sv, keepsConnection>>

\* FCGX_Accept_r succeeds, on the connection that was kept or on another one,
\* and the handles are bound.
Accepted(r) ==
    /\ accepting = r
    /\ n[r] < MaxAccepts
    /\ n' = [n EXCEPT ![r] = @ + 1]
    /\ streams' = [streams EXCEPT ![r] = n'[r]]
    /\ sv' = [sv EXCEPT ![r] = n'[r]]
    /\ magic' = Tied(magic, r)
    /\ bound' = [bound EXCEPT ![r] = TRUE]
    /\ isAccepted' = [isAccepted EXCEPT ![r] = TRUE]
    /\ outcome' = [outcome EXCEPT ![r] = "open"]
    /\ isConnected' = [isConnected EXCEPT ![r] = TRUE]
    /\ \E k \in BOOLEAN : keepsConnection' = [keepsConnection EXCEPT ![r] = k]
    /\ accepting' = NoOne
    /\ UNCHANGED exists

\* FCGX_Accept_r fails, maybe after requests it had to give up: nothing is tied.
PerlAcceptFails(r) ==
    /\ accepting = r
    /\ isConnected' = [isConnected EXCEPT ![r] = FALSE]
    /\ \E k \in BOOLEAN : keepsConnection' = [keepsConnection EXCEPT ![r] = k]
    /\ accepting' = NoOne
    /\ UNCHANGED <<exists, isAccepted, bound, magic, n, streams, sv, outcome>>

\* FCGI::Finish
PerlFinish(r) ==
    /\ Callable(r)
    /\ \E failure \in BOOLEAN : Finished(r, failure)
    /\ magic' = UndoneByFinish(r)
    /\ UNCHANGED <<exists, n, sv, keepsConnection, accepting>>

\* FCGI::Detach
Detach(r) ==
    /\ Callable(r)
    /\ isAccepted[r] /\ bound[r]
    /\ magic' = Untied(r)
    /\ bound' = [bound EXCEPT ![r] = FALSE]
    /\ UNCHANGED <<exists, isAccepted, n, streams, sv, keepsConnection, isConnected,
                   outcome, accepting>>

\* FCGI::Attach
Attach(r) ==
    /\ Callable(r)
    /\ isAccepted[r] /\ ~bound[r]
    /\ magic' = Tied(magic, r)
    /\ bound' = [bound EXCEPT ![r] = TRUE]
    /\ UNCHANGED <<exists, isAccepted, n, streams, sv, keepsConnection, isConnected,
                   outcome, accepting>>

\* Mutant of Destroy: FCGI_Finish is not called.
UnfinishedDestroy(r) ==
    /\ Callable(r)
    /\ exists' = [exists EXCEPT ![r] = FALSE]
    /\ UNCHANGED <<isAccepted, bound, magic, n, streams, sv, keepsConnection, isConnected,
                   outcome, accepting>>

\* FCGI::DESTROY: FCGI_Release_Request.
Destroy(r) ==
    /\ Callable(r)
    /\ exists' = [exists EXCEPT ![r] = FALSE]
    /\ \E failure \in BOOLEAN : Finished(r, failure)
    /\ magic' = UndoneByFinish(r)
    /\ UNCHANGED <<n, sv, keepsConnection, accepting>>

\* Nothing is left that a program could call.
Over == (\A r \in Requests : ~exists[r]) /\ UNCHANGED perlVars

PerlInit ==
    /\ exists = [r \in Requests |-> TRUE]
    /\ isAccepted = [r \in Requests |-> FALSE] /\ bound = [r \in Requests |-> FALSE]
    /\ magic = [h \in Handles |-> NoOne]
    /\ n = [r \in Requests |-> 0]
    /\ streams = [r \in Requests |-> 0] /\ sv = [r \in Requests |-> 0]
    /\ keepsConnection = [r \in Requests |-> FALSE]
    /\ isConnected = [r \in Requests |-> FALSE]
    /\ outcome = [r \in Requests |-> "none"]
    /\ accepting = NoOne

PerlNext ==
    \/ \E r \in Requests : \/ Accept(r) \/ Accepted(r) \/ PerlAcceptFails(r) \/ PerlFinish(r)
                           \/ Detach(r) \/ Attach(r) \/ Destroy(r)
    \/ Over

PerlSpec == PerlInit /\ [][PerlNext]_perlVars

-----------------------------------------------------------------------------
(* Properties.                                                             *)

\* Every variable has its type; a request that is being served, or accepted, exists.
PerlTypeOK ==
    /\ exists \in [Requests -> BOOLEAN]
    /\ isAccepted \in [Requests -> BOOLEAN] /\ bound \in [Requests -> BOOLEAN]
    /\ magic \in [Handles -> Requests \cup {NoOne}]
    /\ n \in [Requests -> Nat]
    /\ streams \in [Requests -> Nat] /\ sv \in [Requests -> Nat]
    /\ keepsConnection \in [Requests -> BOOLEAN] /\ isConnected \in [Requests -> BOOLEAN]
    /\ outcome \in [Requests -> {"none", "open", "ended", "hungup"}]
    /\ \A r \in Requests : isAccepted[r] => exists[r]
    /\ accepting \in Requests \cup {NoOne}
    /\ accepting # NoOne => exists[accepting] /\ ~isAccepted[accepting]

\* What svin, svout and sverr of a request point at exists.
Live(r) == streams[r] # 0 /\ sv[r] = streams[r]

\* FCGI::Stream::PRINT and the other methods of a tied handle, and FCGI::Flush
\* of a bound request, never reach freed streams: in whatever order requests are
\* accepted, finished, attached, detached and destroyed, and whoever shares their
\* handles, a handle is tied to, and bound is set for, only the streams of a
\* request that is being served.
HandlesLive ==
    /\ \A h \in Handles : magic[h] # NoOne =>
         exists[magic[h]] /\ bound[magic[h]] /\ gv[magic[h]] = h /\ Live(magic[h])
    /\ \A r \in Requests : bound[r] => Live(r)

Unshared(r) == \A q \in Requests \ {r} : gv[q] # gv[r]

\* A request that shares its handles with no other finds them tied to itself
\* exactly while bound is set.  (One that shares them may not: sv_magic leaves
\* the tie of the other in place.)
OwnHandles == \A r \in Requests : Unshared(r) => (bound[r] <=> magic[gv[r]] = r)

\* The server learns of the end of a request: once it is not being served any
\* more, also because the object waits for the next one, it was ended with
\* FCGI_END_REQUEST or its connection is closed.
NoneLeftOpen == \A r \in Requests : outcome[r] = "open" <=> isAccepted[r]

\* A request object that serves no request, because it waits for one or is gone,
\* holds no connection, except one that the server wanted kept and on which the
\* last request was ended.  (One that is gone leaves it open for good.)
ConnectionReleased ==
    \A r \in Requests : ~isAccepted[r] /\ isConnected[r] =>
        keepsConnection[r] /\ outcome[r] = "ended"

\* Binding, unbinding and finishing in any order leave each request its own
\* handles and nothing open behind it.
RequestsReleased == OwnHandles /\ NoneLeftOpen /\ ConnectionReleased

=============================================================================
