--------------------------- MODULE FcgiStdioProofs ---------------------------
(***************************************************************************)
(* For every number of requests and every set of exit statuses: unless     *)
(* FCGI_Accept has failed, FCGI_stdin, FCGI_stdout, FCGI_stderr and environ*)
(* never point at what FCGX_Finish_r has freed (LiveStreams); and each     *)
(* request gets its own files, one end and the status it set               *)
(* (RequestsServed).                                                       *)
(*                                                                         *)
(* LiveStreams says nothing while FCGI_Accept has failed, and a CGI program*)
(* may go on from there without a change to the files; Inv adds that such  *)
(* a program never had a stream.  RequestsServed says nothing of the       *)
(* request being served; ServeInv adds that until its last writer is       *)
(* closed nothing was sent and the status to send is the one set last, and *)
(* that from then on it is ended or the error of the close is still there  *)
(* for FCGX_Finish_r to see, unless FCGI_clearerr took it away.            *)
(***************************************************************************)
EXTENDS FcgiStdio, TLAPS

NoStreams == (\A f \in Std : fcgx[f] = 0) /\ current = 0 /\ environ = "process"

Inv ==
    /\ fcgx \in [Std -> Nat] /\ current \in Nat /\ accepted \in Nat
    /\ LiveStreams
    /\ (~acceptCalled \/ isCGI) => NoStreams
    /\ invokedAs = "CGI" /\ acceptCalled => isCGI
    /\ isCGI => invokedAs = "CGI"

LEMMA InitInv == Init => Inv
BY DEF Init, Inv, LiveStreams, NoStreams

\* FCGI_Finish, called by the application or by exit(3).
LEMMA FinishInv ==
    ASSUME Inv, NEW next, Finish(next), next # "failed" \/ call = "failed"
    PROVE  Inv'
<1> USE DEF Inv, LiveStreams, NoStreams
<1>1. CASE ~acceptCalled \/ isCGI
  BY <1>1 DEF Finish, files, request, history
<1>2. CASE ~(~acceptCalled \/ isCGI)
  <2>1. FCGX_Finish /\ ForgetStreams
        /\ UNCHANGED <<invokedAs, acceptCalled, isCGI>>
    BY <1>2 DEF Finish
  <2>2. current' = 0 /\ accepted' = accepted
    BY <2>1 DEF FCGX_Finish, FinishStreams
  <2>3. fcgx' = [f \in Std |-> 0] /\ environ' = "NULL"
    BY <2>1 DEF ForgetStreams
  <2> QED BY <1>2, <2>1, <2>2, <2>3
<1> QED BY <1>1, <1>2

\* Calls on the files at most take a stream away from one of them.
LEMMA UseInv == Inv /\ Use => Inv'
<1> SUFFICES ASSUME Inv, Use PROVE Inv'
  OBVIOUS
<1> USE DEF Inv, LiveStreams, NoStreams
<1>1. ASSUME NEW f \in Std, PutFails(f) PROVE Inv'
  BY <1>1 DEF PutFails, files, history
<1>2. ASSUME NEW f \in Std, FCGI_fclose(f) PROVE Inv'
  <2>1. UNCHANGED <<invokedAs, acceptCalled, isCGI, environ, envpOf, accepted, call>>
    BY <1>2 DEF FCGI_fclose
  <2>2. current' = current /\ fcgx' \in {fcgx, [fcgx EXCEPT ![f] = 0]}
    <3>1. CASE Dispatch(f) = "stdio"
      BY <1>2, <3>1 DEF FCGI_fclose, request
    <3>2. CASE Dispatch(f) = "fcgx"
      BY <1>2, <3>2 DEF FCGI_fclose, request
    <3>3. CASE Dispatch(f) = "EOF"
      BY <1>2, <3>3 DEF FCGI_fclose, request
    <3> QED BY <3>1, <3>2, <3>3 DEF Dispatch
  <2> QED BY <2>1, <2>2
<1>3. ASSUME NEW f \in Std, FCGI_freopen(f) PROVE Inv'
  <2>1. UNCHANGED <<invokedAs, acceptCalled, isCGI, environ, envpOf, accepted, call>>
    BY <1>3 DEF FCGI_freopen
  <2>2. current' = current /\ fcgx' \in {fcgx, [fcgx EXCEPT ![f] = 0]}
    BY <1>3 DEF FCGI_freopen, request
  <2> QED BY <2>1, <2>2
<1>4. CASE GetFails
  BY <1>4 DEF GetFails, files, history
<1>5. ASSUME NEW s \in Statuses, FCGI_SetExitStatus(s) PROVE Inv'
  BY <1>5 DEF FCGI_SetExitStatus, files
<1>6. ASSUME NEW f \in Std, FCGI_clearerr(f) PROVE Inv'
  BY <1>6 DEF FCGI_clearerr, files, history
<1>7. CASE FCGI_StartFilterData
  <2>1. UNCHANGED <<invokedAs, acceptCalled, isCGI, files, current, accepted>>
    BY <1>7 DEF FCGI_StartFilterData, history
  <2>2. call # "failed"
    BY <1>7 DEF FCGI_StartFilterData
  <2> QED BY <2>1, <2>2 DEF files
<1> QED BY <1>1, <1>2, <1>3, <1>4, <1>5, <1>6, <1>7 DEF Use

\* FCGI_Accept points all files at the new request, or fails.
LEMMA AcceptInv == Inv /\ FCGI_Accept => Inv'
<1> SUFFICES ASSUME Inv, FCGI_Accept PROVE Inv'
  OBVIOUS
<1> USE DEF Inv, LiveStreams, NoStreams
<1>1. CASE AcceptCGI
  BY <1>1 DEF AcceptCGI, request, history
<1>2. CASE AcceptCGIAgain
  BY <1>2 DEF AcceptCGIAgain, files, request, history
<1>3. CASE AcceptRequest
  <2>1. accepted' = accepted + 1 /\ current' = accepted + 1
    BY <1>3 DEF AcceptRequest, AcceptNext
  <2>2. fcgx' = [f \in Std |-> current'] /\ envpOf' = current' /\ call' = "ok"
    BY <1>3 DEF AcceptRequest
  <2>3. invokedAs = "FastCGI" /\ acceptCalled' = TRUE /\ UNCHANGED <<invokedAs, isCGI>>
    BY <1>3 DEF AcceptRequest, FastCGICall
  <2> QED BY <2>1, <2>2, <2>3
<1>4. CASE AcceptFails
  <2>1. accepted' = accepted /\ current' = 0
    BY <1>4 DEF AcceptFails, AcceptNone, FinishStreams
  <2>2. fcgx' = fcgx /\ environ' = environ /\ call' = "failed"
    BY <1>4 DEF AcceptFails, files
  <2>3. invokedAs = "FastCGI" /\ acceptCalled' = TRUE /\ UNCHANGED <<invokedAs, isCGI>>
    BY <1>4 DEF AcceptFails, FastCGICall
  <2> QED BY <2>1, <2>2, <2>3
<1> QED BY <1>1, <1>2, <1>3, <1>4 DEF FCGI_Accept

LEMMA NextInv == Inv /\ [Next]_vars => Inv'
<1> SUFFICES ASSUME Inv, [Next]_vars PROVE Inv'
  OBVIOUS
<1>1. CASE FCGI_Accept
  BY <1>1, AcceptInv
<1>2. CASE FCGI_Finish
  BY <1>2, FinishInv DEF FCGI_Finish
<1>3. CASE Exit
  BY <1>3, FinishInv DEF Exit
<1>4. CASE Use
  BY <1>4, UseInv
<1>5. CASE Exited \/ UNCHANGED vars
  BY <1>5 DEF Exited, vars, files, request, history, Inv, LiveStreams, NoStreams
<1> QED BY <1>1, <1>2, <1>3, <1>4, <1>5 DEF Next

\* Unless FCGI_Accept has failed, no FCGI_FILE and no environ points at what was
\* freed, whatever FCGI_Finish, FCGI_fclose and FCGI_freopen did in between
\* (fcgi_stdio.c).
THEOREM FilesLive == Spec => []LiveStreams
<1>1. Inv => LiveStreams
  BY DEF Inv
<1>2. Spec => []Inv
  BY InitInv, NextInv, PTL DEF Spec
<1> QED BY <1>1, <1>2, PTL
-----------------------------------------------------------------------------
(* What each request gets.                                                 *)

\* FCGI_END_REQUEST is sent once, and the status of FCGI_SetExitStatus is one.
AtMostOne == \A n \in Numbers :
    /\ ended[n] # <<>> => \E s \in Statuses \cup {0} : ended[n] = <<s>>
    /\ wanted[n] # <<>> => \E s \in Statuses : wanted[n] = <<s>>

\* Nothing is known yet of a request that was not accepted.
Unseen == \A n \in Numbers : n > accepted => ended[n] = <<>> /\ wanted[n] = <<>>

\* What holds of the current request: before its last writer is closed it is not
\* ended, and the status to send is the one that was set; after that it is ended, or
\* the error of the close is still to be seen.
Underway ==
    current # 0 =>
        IF Writers \subseteq fclosed
        THEN ended[current] = <<>> => current \in cleared \/ failed \cap fclosed # {}
        ELSE ended[current] = <<>> /\ wanted[current] \in {<<>>, <<appStatus>>}

\* What holds of the requests before it.
Past == \A n \in (1..accepted) \ cleared :
            n # current => ended[n] # <<>> \/ n \in hungUp

\* Where a call is "ok" or "exited", what FCGI_Accept or exit(3) did before.
CallDone ==
    /\ call = "ok" => acceptCalled
    /\ call = "exited" => current = 0

ServeInv == AtMostOne /\ Unseen /\ Underway /\ Past /\ StatusTold /\ DispatchHome /\ CallDone

FullInv == Inv /\ TypeOK /\ ServeInv
LEMMA ServeInit == Init => TypeOK /\ ServeInv
<1> SUFFICES ASSUME Init PROVE TypeOK /\ ServeInv
  OBVIOUS
<1>1. TypeOK
  <2>1. /\ ended \in [Numbers -> Seq(Statuses \cup {0})]
        /\ wanted \in [Numbers -> Seq(Statuses)]
    BY DEF Init
  <2>2. /\ fcgx \in [Std -> 0..accepted] /\ stdio \in [Std -> {"NULL", "process", "opened"}]
        /\ accepted \in 0..MaxRequests
    BY StdioAssumption DEF Init
  <2>3. fclosed \subseteq Std /\ failed \subseteq Std /\ moved \subseteq Std
        /\ hungUp \subseteq Numbers /\ cleared \subseteq Numbers
    BY DEF Init
  <2>4. /\ invokedAs \in {"CGI", "FastCGI"} /\ acceptCalled \in BOOLEAN /\ isCGI \in BOOLEAN
        /\ ~isCGI /\ environ = "process" /\ current = 0
    BY DEF Init
  <2>5. envpOf \in 0..accepted
    BY DEF Init
  <2>6. /\ keepConnection \in BOOLEAN /\ connected \in BOOLEAN /\ appStatus = 0
        /\ fclosed = {} /\ failed = {} /\ call = "none"
    BY DEF Init
  <2> QED BY <2>1, <2>2, <2>3, <2>4, <2>5, <2>6 DEF TypeOK
<1>2. ServeInv
  BY <1>1 DEF Init, ServeInv, AtMostOne, Unseen, Underway, Past, StatusTold, DispatchHome,
              CallDone, Numbers
<1> QED BY <1>1, <1>2

\* What EndRequests makes of the current request: the close of the last writer ends it
\* with appStatus, unless that close fails.
LEMMA EndOfCurrent ==
    ASSUME TypeOK, Underway, current # 0, NEW F \in SUBSET Std,
           NEW G \in SUBSET Unclosed(F), EndRequests(F, G)
    PROVE  /\ \/ ended' = ended
              \/ /\ ended[current] = <<>> /\ wanted[current] \in {<<>>, <<appStatus>>}
                 /\ Writers \subseteq fclosed \cup F
                 /\ ended' = [ended EXCEPT ![current] = <<appStatus>>]
           /\ Writers \subseteq fclosed \cup F =>
                 ended'[current] # <<>> \/ current \in cleared \/ failed \cap fclosed # {} \/ G # {}
<1>0. current \in Numbers
  BY StdioAssumption DEF TypeOK, Numbers
<1>1. CASE Ends(F) /\ LastWriter(F) \notin G
  <2>1. ~(Writers \subseteq fclosed) /\ Writers \subseteq fclosed \cup F
    BY <1>1 DEF Ends, Unclosed
  <2>2. ended[current] = <<>> /\ wanted[current] \in {<<>>, <<appStatus>>}
    BY <2>1 DEF Underway
  <2>3. ended' = [ended EXCEPT ![current] = Append(ended[current], appStatus)]
    BY <1>1 DEF EndRequests
  <2>4. Append(ended[current], appStatus) = <<appStatus>>
    BY <2>2
  <2>5. ended' = [ended EXCEPT ![current] = <<appStatus>>]
    BY <2>3, <2>4
  <2>6. ended'[current] = <<appStatus>> /\ <<appStatus>> # <<>>
    BY <1>0, <2>5 DEF TypeOK
  <2> QED BY <2>1, <2>2, <2>5, <2>6
<1>2. CASE ~(Ends(F) /\ LastWriter(F) \notin G)
  <2>1. ended' = ended
    BY <1>2 DEF EndRequests
  <2>2. CASE Ends(F)
    BY <1>2, <2>1, <2>2
  <2>3. CASE ~Ends(F)
    <3>1. ASSUME Writers \subseteq fclosed \cup F PROVE Writers \subseteq fclosed
      BY <2>3, <3>1 DEF Ends, Unclosed
    <3> QED BY <2>1, <3>1 DEF Underway
  <2> QED BY <2>2, <2>3
<1> QED BY <1>1, <1>2

\* Ending the current request keeps what holds of all requests.
LEMMA EndKeeps ==
    ASSUME TypeOK, ServeInv, current # 0, NEW F \in SUBSET Std,
           NEW G \in SUBSET Unclosed(F), EndRequests(F, G), wanted' = wanted
    PROVE  /\ ended' \in [Numbers -> Seq(Statuses \cup {0})]
           /\ AtMostOne'
           /\ \A n \in Numbers : n > accepted => ended'[n] = <<>> /\ wanted'[n] = <<>>
           /\ \A n \in 1..accepted :
                 wanted'[n] # <<>> /\ ended'[n] # <<>> => Head(ended'[n]) = Head(wanted'[n])
           /\ \A n \in Numbers : ended[n] # <<>> => ended'[n] # <<>>
<1>1. CASE ended' = ended
  BY <1>1 DEF ServeInv, TypeOK, AtMostOne, Unseen, StatusTold
<1>2. CASE /\ ended[current] = <<>> /\ wanted[current] \in {<<>>, <<appStatus>>}
           /\ ended' = [ended EXCEPT ![current] = <<appStatus>>]
  <2>0. current \in Numbers /\ current = accepted /\ appStatus \in Statuses \cup {0}
        /\ 1..accepted \subseteq Numbers
    BY StdioAssumption DEF TypeOK, Numbers
  <2>1. <<appStatus>> \in Seq(Statuses \cup {0}) /\ <<appStatus>> # <<>>
    BY <2>0
  <2>2. ended'[current] = <<appStatus>> /\ \A n \in Numbers \ {current} : ended'[n] = ended[n]
    BY <1>2, <2>0 DEF TypeOK
  <2>3. ended' \in [Numbers -> Seq(Statuses \cup {0})]
    BY <1>2, <2>0, <2>1 DEF TypeOK
  <2>4. AtMostOne'
    BY <2>0, <2>2 DEF ServeInv, AtMostOne
  <2>5. \A n \in Numbers : n > accepted => ended'[n] = <<>> /\ wanted'[n] = <<>>
    BY <2>0, <2>2 DEF ServeInv, Unseen, Numbers
  <2>6. \A n \in 1..accepted :
           wanted'[n] # <<>> /\ ended'[n] # <<>> => Head(ended'[n]) = Head(wanted'[n])
    BY <1>2, <2>0, <2>2 DEF ServeInv, StatusTold
  <2> QED BY <2>1, <2>2, <2>3, <2>4, <2>5, <2>6
<1> QED BY <1>1, <1>2, EndOfCurrent DEF ServeInv

\* FCGX_Finish_r, in FCGX_Finish and at the start of FCGX_Accept_r: every request so far
\* is ended, or its connection is closed, or close is set for the last one.
LEMMA AllEnded ==
    ASSUME TypeOK, ServeInv, NEW G \in Failures,
           IF current = 0 THEN ended' = ended ELSE EndRequests(Writers, G),
           wanted' = wanted
    PROVE  /\ ended' \in [Numbers -> Seq(Statuses \cup {0})]
           /\ AtMostOne'
           /\ \A n \in Numbers : n > accepted => ended'[n] = <<>> /\ wanted'[n] = <<>>
           /\ \A n \in 1..accepted :
                 wanted'[n] # <<>> /\ ended'[n] # <<>> => Head(ended'[n]) = Head(wanted'[n])
           /\ \A n \in (1..accepted) \ cleared :
                 ended'[n] # <<>> \/ n \in hungUp \/ (n = accepted /\ MustClose(G))
<1>1. CASE current = 0
  BY <1>1 DEF ServeInv, TypeOK, AtMostOne, Unseen, StatusTold, Past
<1>2. CASE current # 0
  <2>1. G \in SUBSET Unclosed(Writers) /\ EndRequests(Writers, G) /\ Writers \in SUBSET Std
    BY <1>2 DEF Failures, Writers, Std
  <2>2. current = accepted /\ 1..accepted \subseteq Numbers
    BY <1>2, StdioAssumption DEF TypeOK, Numbers
  <2>3. ended'[current] # <<>> \/ current \in cleared \/ failed \cap fclosed # {} \/ G # {}
    BY <1>2, <2>1, EndOfCurrent DEF ServeInv
  <2>4. ended'[current] # <<>> \/ current \in cleared \/ MustClose(G)
    BY <1>2, <2>3 DEF MustClose
  <2>5. \A n \in Numbers : ended[n] # <<>> => ended'[n] # <<>>
    BY <1>2, <2>1, EndKeeps
  <2>6. \A n \in (1..accepted) \ cleared :
           ended'[n] # <<>> \/ n \in hungUp \/ (n = accepted /\ MustClose(G))
    BY <2>2, <2>4, <2>5 DEF ServeInv, Past
  <2> QED BY <1>2, <2>1, <2>6, EndKeeps
<1> QED BY <1>1, <1>2
\* FCGI_Accept that succeeds.
LEMMA AcceptServes == FullInv /\ AcceptRequest => TypeOK' /\ ServeInv'
<1> SUFFICES ASSUME FullInv, AcceptRequest PROVE TypeOK' /\ ServeInv'
  OBVIOUS
<1> USE StdioAssumption DEF FullInv
<1>1. PICK G \in Failures, k \in BOOLEAN, sameConn \in BOOLEAN :
        /\ sameConn => connected /\ ~MustClose(G)
        /\ IF current = 0 THEN ended' = ended ELSE EndRequests(Writers, G)
        /\ accepted' = accepted + 1
        /\ current' = accepted + 1
        /\ keepConnection' = k
        /\ connected' = TRUE
        /\ fclosed' = {} /\ failed' = {}
        /\ hungUp' = IF sameConn THEN hungUp ELSE Closed(accepted)
        /\ UNCHANGED appStatus
  BY DEF AcceptRequest, AcceptNext
<1>2. /\ accepted < MaxRequests /\ UNCHANGED <<wanted, cleared, invokedAs, isCGI>>
      /\ stdio' = [f \in Std |-> "NULL"] /\ fcgx' = [f \in Std |-> current']
      /\ environ' = "envp" /\ envpOf' = current' /\ moved' = {} /\ call' = "ok"
      /\ invokedAs = "FastCGI" /\ acceptCalled' = TRUE
  BY DEF AcceptRequest, FastCGICall
<1>3. /\ ended' \in [Numbers -> Seq(Statuses \cup {0})]
      /\ AtMostOne'
      /\ \A n \in Numbers : n > accepted => ended'[n] = <<>> /\ wanted'[n] = <<>>
      /\ \A n \in 1..accepted :
            wanted'[n] # <<>> /\ ended'[n] # <<>> => Head(ended'[n]) = Head(wanted'[n])
      /\ \A n \in (1..accepted) \ cleared :
            ended'[n] # <<>> \/ n \in hungUp \/ (n = accepted /\ MustClose(G))
  BY <1>1, <1>2, AllEnded
<1>4. accepted \in Nat /\ accepted' \in Numbers /\ (accepted # 0 => accepted \in Numbers)
  BY <1>1, <1>2 DEF TypeOK, Numbers
<1>5. hungUp' \subseteq Numbers
      /\ \A n \in (1..accepted) \ cleared : ended'[n] # <<>> \/ n \in hungUp'
  <2>1. CASE sameConn
    BY <1>1, <1>3, <2>1 DEF TypeOK
  <2>2. CASE ~sameConn
    <3>1. hungUp' = IF accepted = 0 THEN hungUp ELSE hungUp \cup {accepted}
      BY <1>1, <2>2 DEF Closed
    <3> QED BY <1>3, <1>4, <3>1 DEF TypeOK
  <2> QED BY <2>1, <2>2
<1>6. TypeOK'
  <2>1. fcgx' \in [Std -> 0..accepted'] /\ stdio' \in [Std -> {"NULL", "process", "opened"}]
        /\ accepted' \in 0..MaxRequests /\ current' \in {0, accepted'}
        /\ envpOf' \in 0..accepted'
    BY <1>1, <1>2, <1>4
  <2>2. isCGI' = isCGI /\ invokedAs' = invokedAs /\ acceptCalled' \in BOOLEAN
        /\ keepConnection' \in BOOLEAN /\ connected' \in BOOLEAN
        /\ fclosed' \subseteq Std /\ failed' \subseteq Std /\ moved' \subseteq Std
    BY <1>1, <1>2
  <2>3. appStatus' = appStatus /\ wanted' = wanted /\ cleared' = cleared
        /\ current' # 0
    BY <1>1, <1>2, <1>4
  <2> QED BY <2>1, <2>2, <2>3, <1>2, <1>3, <1>5 DEF TypeOK
<1>7. Unseen'
  BY <1>1, <1>3, <1>4 DEF Unseen
<1>8. Underway'
  BY <1>1, <1>3, <1>4 DEF Underway, Writers
<1>9. Past'
  BY <1>1, <1>2, <1>4, <1>5 DEF Past
<1>10. StatusTold'
  BY <1>1, <1>3, <1>4 DEF StatusTold
<1>11. DispatchHome'
  <2>1. ~isCGI'
    BY <1>2 DEF Inv
  <2>2. current' # 0 /\ current' = accepted'
    BY <1>1, <1>4
  <2> QED BY <1>2, <2>1, <2>2 DEF DispatchHome, Dispatch
<1>12. CallDone'
  BY <1>2 DEF CallDone
<1> QED BY <1>3, <1>6, <1>7, <1>8, <1>9, <1>10, <1>11, <1>12 DEF ServeInv

\* FCGI_Accept that fails: everything so far is ended or hung up on.
LEMMA AcceptFailsServes == FullInv /\ AcceptFails => TypeOK' /\ ServeInv'
<1> SUFFICES ASSUME FullInv, AcceptFails PROVE TypeOK' /\ ServeInv'
  OBVIOUS
<1> USE StdioAssumption DEF FullInv
<1>1. PICK G \in Failures, k \in BOOLEAN :
        /\ IF current = 0 THEN ended' = ended ELSE EndRequests(Writers, G)
        /\ current' = 0 /\ fclosed' = {} /\ failed' = {}
        /\ connected' = FALSE
        /\ hungUp' = Closed(accepted)
        /\ keepConnection' = k
        /\ UNCHANGED <<appStatus, accepted>>
  BY DEF AcceptFails, AcceptNone, FinishStreams
<1>2. /\ UNCHANGED <<stdio, fcgx, environ, envpOf, wanted, cleared, moved, invokedAs, isCGI>>
      /\ call' = "failed" /\ acceptCalled' = TRUE
  BY DEF AcceptFails, FastCGICall, files
<1>3. /\ ended' \in [Numbers -> Seq(Statuses \cup {0})]
      /\ AtMostOne'
      /\ \A n \in Numbers : n > accepted => ended'[n] = <<>> /\ wanted'[n] = <<>>
      /\ \A n \in 1..accepted :
            wanted'[n] # <<>> /\ ended'[n] # <<>> => Head(ended'[n]) = Head(wanted'[n])
      /\ \A n \in (1..accepted) \ cleared :
            ended'[n] # <<>> \/ n \in hungUp \/ (n = accepted /\ MustClose(G))
  BY <1>1, <1>2, AllEnded
<1>4. hungUp' \subseteq Numbers
      /\ \A n \in (1..accepted) \ cleared : ended'[n] # <<>> \/ n \in hungUp'
  BY <1>1, <1>3 DEF Closed, TypeOK, Numbers
<1>5. TypeOK'
  BY <1>1, <1>2, <1>3, <1>4 DEF TypeOK
<1>6. Unseen' /\ Past' /\ StatusTold'
  BY <1>1, <1>2, <1>3, <1>4 DEF Unseen, Past, StatusTold
<1>7. Underway' /\ DispatchHome' /\ CallDone'
  BY <1>1, <1>2 DEF Underway, DispatchHome, CallDone
<1> QED BY <1>3, <1>5, <1>6, <1>7 DEF ServeInv

\* FCGI_Finish, called by the application or by exit(3).
LEMMA FinishServes ==
    ASSUME FullInv, NEW next, Finish(next),
           next \in {"exited", IF acceptCalled /\ ~isCGI THEN "finished" ELSE call}
    PROVE  TypeOK' /\ ServeInv'
<1> USE StdioAssumption DEF FullInv
<1>1. CASE ~acceptCalled \/ isCGI
  <2>1. UNCHANGED <<files, request, history, invokedAs, acceptCalled, isCGI>>
        /\ call' = next /\ next \in {"exited", call} /\ current = 0
    BY <1>1 DEF Finish, Inv, NoStreams
  <2>2. TypeOK'
    BY <2>1 DEF TypeOK, files, request, history
  <2>3. AtMostOne' /\ Unseen' /\ Underway' /\ Past' /\ StatusTold'
    BY <2>1 DEF ServeInv, AtMostOne, Unseen, Underway, Past, StatusTold, request, history
  <2>4. DispatchHome' /\ CallDone'
    BY <2>1 DEF ServeInv, DispatchHome, CallDone, Dispatch, files, request, history
  <2> QED BY <2>2, <2>3, <2>4 DEF ServeInv
<1>2. CASE ~(~acceptCalled \/ isCGI)
  <2>1. FCGX_Finish /\ ForgetStreams
        /\ UNCHANGED <<wanted, cleared, moved, invokedAs, acceptCalled, isCGI>>
        /\ call' \in {"exited", "finished"}
    BY <1>2 DEF Finish
  <2>2. PICK G \in Failures :
          /\ IF current = 0 THEN ended' = ended ELSE EndRequests(Writers, G)
          /\ current' = 0 /\ fclosed' = {} /\ failed' = {}
          /\ connected' = (connected /\ ~MustClose(G))
          /\ hungUp' = IF MustClose(G) THEN Closed(accepted) ELSE hungUp
          /\ UNCHANGED <<keepConnection, appStatus, accepted>>
    BY <2>1 DEF FCGX_Finish, FinishStreams
  <2>3. /\ fcgx' = [f \in Std |-> 0] /\ environ' = "NULL" /\ UNCHANGED <<stdio, envpOf>>
    BY <2>1 DEF ForgetStreams
  <2>4. /\ ended' \in [Numbers -> Seq(Statuses \cup {0})]
        /\ AtMostOne'
        /\ \A n \in Numbers : n > accepted => ended'[n] = <<>> /\ wanted'[n] = <<>>
        /\ \A n \in 1..accepted :
              wanted'[n] # <<>> /\ ended'[n] # <<>> => Head(ended'[n]) = Head(wanted'[n])
        /\ \A n \in (1..accepted) \ cleared :
              ended'[n] # <<>> \/ n \in hungUp \/ (n = accepted /\ MustClose(G))
    BY <2>1, <2>2, AllEnded
  <2>5. hungUp' \subseteq Numbers
        /\ \A n \in (1..accepted) \ cleared : ended'[n] # <<>> \/ n \in hungUp'
    BY <2>2, <2>4 DEF Closed, TypeOK, Numbers
  <2>6. TypeOK'
    <3>1. fcgx' \in [Std -> 0..accepted] /\ connected' \in BOOLEAN
      BY <2>2, <2>3 DEF TypeOK
    <3> QED BY <2>1, <2>2, <2>3, <2>4, <2>5, <3>1 DEF TypeOK
  <2>7. Unseen' /\ Past' /\ StatusTold'
    BY <2>1, <2>2, <2>4, <2>5 DEF Unseen, Past, StatusTold
  <2>8. Underway' /\ DispatchHome' /\ CallDone'
    BY <2>1, <2>2 DEF Underway, DispatchHome, CallDone
  <2> QED BY <2>4, <2>6, <2>7, <2>8 DEF ServeInv
<1> QED BY <1>1, <1>2
\* A call on a file of the current request.
LEMMA DispatchCurrent ==
    ASSUME FullInv, Usable, NEW f \in Std, fcgx[f] # 0
    PROVE  fcgx[f] = current /\ current # 0 /\ current \in Numbers /\ current = accepted
BY StdioAssumption DEF FullInv, Inv, LiveStreams, Usable, TypeOK, Numbers

\* FCGX_FClose of a file's stream, in FCGI_fclose and FCGI_freopen.
LEMMA FCloseServes ==
    ASSUME FullInv, Usable, NEW f \in Std, fcgx[f] # 0, FClose(f),
           UNCHANGED <<current, accepted, appStatus, hungUp, wanted, cleared>>
    PROVE  /\ ended' \in [Numbers -> Seq(Statuses \cup {0})]
           /\ fclosed' \subseteq Std /\ failed' \subseteq Std /\ current # 0
           /\ AtMostOne' /\ Unseen' /\ Underway' /\ Past' /\ StatusTold'
<1> USE DEF FullInv
<1>1. PICK G \in SUBSET Unclosed({f}) : EndRequests({f}, G) /\ failed' = failed \cup G
  BY DEF FClose
<1>2. fclosed' = fclosed \cup {f} /\ G \subseteq {f} /\ {f} \in SUBSET Std
  BY <1>1 DEF FClose, Unclosed
<1>3. current # 0 /\ current \in Numbers
  BY DispatchCurrent
<1>4. /\ \/ ended' = ended
         \/ Writers \subseteq fclosed'
      /\ Writers \subseteq fclosed' =>
            ended'[current] # <<>> \/ current \in cleared \/ failed \cap fclosed # {} \/ G # {}
  BY <1>1, <1>2, <1>3, EndOfCurrent DEF ServeInv
<1>5. /\ ended' \in [Numbers -> Seq(Statuses \cup {0})]
      /\ AtMostOne'
      /\ \A n \in Numbers : n > accepted => ended'[n] = <<>> /\ wanted'[n] = <<>>
      /\ \A n \in 1..accepted :
            wanted'[n] # <<>> /\ ended'[n] # <<>> => Head(ended'[n]) = Head(wanted'[n])
      /\ \A n \in Numbers : ended[n] # <<>> => ended'[n] # <<>>
  BY <1>1, <1>2, <1>3, EndKeeps
<1>6. Underway'
  <2>1. CASE Writers \subseteq fclosed'
    <3>1. G # {} => failed' \cap fclosed' # {}
      BY <1>1, <1>2
    <3>2. failed \cap fclosed # {} => failed' \cap fclosed' # {}
      BY <1>1, <1>2
    <3> QED BY <1>4, <2>1, <3>1, <3>2 DEF Underway
  <2>2. CASE ~(Writers \subseteq fclosed')
    BY <1>2, <1>4, <2>2 DEF ServeInv, Underway
  <2> QED BY <2>1, <2>2
<1>7. Past'
  <2>1. 1..accepted \subseteq Numbers
    BY StdioAssumption DEF TypeOK, Numbers
  <2> QED BY <1>5, <2>1 DEF ServeInv, Past
<1>8. Unseen' /\ StatusTold'
  BY <1>5 DEF Unseen, StatusTold
<1> QED BY <1>1, <1>2, <1>3, <1>5, <1>6, <1>7, <1>8 DEF TypeOK

LEMMA FcloseServes ==
    ASSUME FullInv, NEW f \in Std, FCGI_fclose(f)
    PROVE  TypeOK' /\ ServeInv'
<1> USE DEF FullInv
<1>1. /\ UNCHANGED <<invokedAs, acceptCalled, isCGI, environ, envpOf, accepted,
                     hungUp, wanted, cleared, call>>
      /\ moved' = moved \cup {f} /\ Usable
  BY DEF FCGI_fclose
<1>2. CASE Dispatch(f) = "fcgx"
  <2>1. /\ FClose(f) /\ fcgx' = [fcgx EXCEPT ![f] = 0] /\ fcgx[f] # 0
        /\ UNCHANGED <<stdio, current, keepConnection, connected, appStatus>>
    BY <1>2 DEF FCGI_fclose, Dispatch
  <2>2. /\ ended' \in [Numbers -> Seq(Statuses \cup {0})]
        /\ fclosed' \subseteq Std /\ failed' \subseteq Std /\ current # 0
        /\ AtMostOne' /\ Unseen' /\ Underway' /\ Past' /\ StatusTold'
    BY <1>1, <2>1, FCloseServes
  <2>3. TypeOK'
    BY <1>1, <2>1, <2>2 DEF TypeOK
  <2>4. DispatchHome' /\ CallDone'
    BY <1>1, <2>1 DEF TypeOK, ServeInv, DispatchHome, CallDone, Dispatch
  <2> QED BY <2>2, <2>3, <2>4 DEF ServeInv
<1>3. CASE Dispatch(f) # "fcgx"
  <2>1. UNCHANGED <<fcgx, request, ended>> /\ stdio' \in {stdio, [stdio EXCEPT ![f] = "NULL"]}
    <3>1. CASE Dispatch(f) = "stdio"
      BY <3>1 DEF FCGI_fclose
    <3>2. CASE Dispatch(f) = "EOF"
      BY <3>2 DEF FCGI_fclose
    <3> QED BY <1>3, <3>1, <3>2 DEF Dispatch
  <2>2. TypeOK'
    BY <1>1, <2>1 DEF TypeOK, request
  <2>3. AtMostOne' /\ Unseen' /\ Underway' /\ Past' /\ StatusTold'
    BY <1>1, <2>1 DEF ServeInv, AtMostOne, Unseen, Underway, Past, StatusTold, request
  <2>4. DispatchHome' /\ CallDone'
    BY <1>1, <2>1 DEF TypeOK, ServeInv, DispatchHome, CallDone, Dispatch, request
  <2> QED BY <2>2, <2>3, <2>4 DEF ServeInv
<1> QED BY <1>2, <1>3

LEMMA FreopenServes ==
    ASSUME FullInv, NEW f \in Std, FCGI_freopen(f)
    PROVE  TypeOK' /\ ServeInv'
<1> USE DEF FullInv
<1>1. /\ UNCHANGED <<invokedAs, acceptCalled, isCGI, environ, envpOf, accepted,
                     hungUp, wanted, cleared, call>>
      /\ moved' = moved \cup {f} /\ Usable
  BY DEF FCGI_freopen
<1>2. CASE Dispatch(f) = "fcgx"
  <2>1. /\ FClose(f) /\ fcgx[f] # 0
        /\ UNCHANGED <<current, keepConnection, connected, appStatus>>
        /\ fcgx' \in {fcgx, [fcgx EXCEPT ![f] = 0]}
        /\ stdio' \in {stdio, [stdio EXCEPT ![f] = "opened"]}
    BY <1>2 DEF FCGI_freopen, Dispatch
  <2>2. /\ ended' \in [Numbers -> Seq(Statuses \cup {0})]
        /\ fclosed' \subseteq Std /\ failed' \subseteq Std /\ current # 0
        /\ AtMostOne' /\ Unseen' /\ Underway' /\ Past' /\ StatusTold'
    BY <1>1, <2>1, FCloseServes
  <2>3. TypeOK'
    BY <1>1, <2>1, <2>2 DEF TypeOK
  <2>4. DispatchHome' /\ CallDone'
    BY <1>1, <2>1 DEF TypeOK, ServeInv, DispatchHome, CallDone, Dispatch
  <2> QED BY <2>2, <2>3, <2>4 DEF ServeInv
<1>3. CASE Dispatch(f) # "fcgx"
  <2>1. UNCHANGED <<fcgx, request, ended>> /\ stdio' \in {stdio, [stdio EXCEPT ![f] = "opened"]}
    BY <1>3 DEF FCGI_freopen
  <2>2. TypeOK'
    BY <1>1, <2>1 DEF TypeOK, request
  <2>3. AtMostOne' /\ Unseen' /\ Underway' /\ Past' /\ StatusTold'
    BY <1>1, <2>1 DEF ServeInv, AtMostOne, Unseen, Underway, Past, StatusTold, request
  <2>4. DispatchHome' /\ CallDone'
    BY <1>1, <2>1 DEF TypeOK, ServeInv, DispatchHome, CallDone, Dispatch, request
  <2> QED BY <2>2, <2>3, <2>4 DEF ServeInv
<1> QED BY <1>2, <1>3
\* The calls that close nothing.
LEMMA UseServes ==
    ASSUME FullInv,
           \/ \E f \in Std : PutFails(f) \/ FCGI_clearerr(f)
           \/ GetFails \/ FCGI_StartFilterData
           \/ \E s \in Statuses : FCGI_SetExitStatus(s)
    PROVE  TypeOK' /\ ServeInv'
<1> USE DEF FullInv
<1>1. ASSUME NEW f \in Std, fcgx[f] # 0, Usable, failed' = failed \cup {f},
             call' \in {call, "crashed"},
             UNCHANGED <<invokedAs, acceptCalled, isCGI, files, current, keepConnection,
                         connected, appStatus, fclosed, history>>
      PROVE  TypeOK' /\ ServeInv'
  <2>1. current # 0
    BY <1>1, DispatchCurrent
  <2>2. TypeOK'
    BY <1>1, <2>1 DEF TypeOK, files, history
  <2>3. AtMostOne' /\ Unseen' /\ Underway' /\ Past' /\ StatusTold'
    BY <1>1 DEF ServeInv, AtMostOne, Unseen, Underway, Past, StatusTold, history
  <2>4. DispatchHome' /\ CallDone'
    BY <1>1 DEF ServeInv, DispatchHome, CallDone, Dispatch, files, history
  <2> QED BY <2>2, <2>3, <2>4 DEF ServeInv
<1>2. ASSUME NEW f \in Std, PutFails(f) PROVE TypeOK' /\ ServeInv'
  BY <1>1, <1>2 DEF PutFails, Dispatch
<1>3. ASSUME GetFails PROVE TypeOK' /\ ServeInv'
  BY <1>1, <1>3 DEF GetFails, Dispatch, Std
<1>4. ASSUME FCGI_StartFilterData PROVE TypeOK' /\ ServeInv'
  <2>1. CASE fcgx["in"] # 0 /\ failed' = failed \cup {"in"}
    BY <1>1, <1>4, <2>1 DEF FCGI_StartFilterData, Std, Usable
  <2>2. CASE ~(fcgx["in"] # 0 /\ failed' = failed \cup {"in"})
    <3>1. failed' = failed /\ call' \in {call, "crashed"}
          /\ UNCHANGED <<invokedAs, acceptCalled, isCGI, files, current, keepConnection,
                         connected, appStatus, fclosed, history>>
      BY <1>4, <2>2 DEF FCGI_StartFilterData
    <3>2. TypeOK'
      BY <3>1 DEF TypeOK, files, history
    <3>3. AtMostOne' /\ Unseen' /\ Underway' /\ Past' /\ StatusTold'
      BY <3>1 DEF ServeInv, AtMostOne, Unseen, Underway, Past, StatusTold, history
    <3>4. DispatchHome' /\ CallDone'
      BY <3>1 DEF ServeInv, DispatchHome, CallDone, Dispatch, files, history
    <3> QED BY <3>2, <3>3, <3>4 DEF ServeInv
  <2> QED BY <2>1, <2>2
<1>5. ASSUME NEW f \in Std, FCGI_clearerr(f) PROVE TypeOK' /\ ServeInv'
  <2>1. /\ failed' = failed \ {f} /\ fcgx[f] # 0 /\ Usable
        /\ cleared' = IF f \in fclosed \cap failed THEN cleared \cup {current} ELSE cleared
        /\ UNCHANGED <<invokedAs, acceptCalled, isCGI, files, current, keepConnection,
                       connected, appStatus, fclosed, accepted, ended, hungUp, wanted,
                       moved, call>>
    BY <1>5 DEF FCGI_clearerr, Dispatch
  <2>2. current # 0 /\ current \in Numbers
    BY <2>1, DispatchCurrent
  <2>3. TypeOK'
    BY <2>1, <2>2 DEF TypeOK, files
  <2>4. Underway'
    <3>1. CASE f \in fclosed \cap failed
      BY <2>1, <3>1 DEF ServeInv, Underway
    <3>2. CASE f \notin fclosed \cap failed
      <4>1. failed' \cap fclosed' = failed \cap fclosed
        BY <2>1, <3>2
      <4> QED BY <2>1, <3>2, <4>1 DEF ServeInv, Underway
    <3> QED BY <3>1, <3>2
  <2>5. AtMostOne' /\ Unseen' /\ Past' /\ StatusTold'
    BY <2>1 DEF ServeInv, AtMostOne, Unseen, Past, StatusTold
  <2>6. DispatchHome' /\ CallDone'
    BY <2>1 DEF ServeInv, DispatchHome, CallDone, Dispatch, files
  <2> QED BY <2>3, <2>4, <2>5, <2>6 DEF ServeInv
<1>6. ASSUME NEW s \in Statuses, FCGI_SetExitStatus(s) PROVE TypeOK' /\ ServeInv'
  <2>1. /\ Usable /\ fcgx["in"] # 0 /\ "in" \in Std /\ appStatus' = s
        /\ wanted' = IF Writers \subseteq fclosed THEN wanted
                     ELSE [wanted EXCEPT ![fcgx["in"]] = <<s>>]
        /\ UNCHANGED <<invokedAs, acceptCalled, isCGI, files, current, keepConnection,
                       connected, fclosed, failed, accepted, ended, hungUp, cleared, moved, call>>
    BY <1>6 DEF FCGI_SetExitStatus, Std
  <2>2. fcgx["in"] = current /\ current # 0 /\ current \in Numbers /\ current = accepted
    BY <2>1, DispatchCurrent
  <2>3. \/ wanted' = wanted /\ Writers \subseteq fclosed
        \/ /\ wanted' = [wanted EXCEPT ![current] = <<s>>]
           /\ ~(Writers \subseteq fclosed) /\ ended[current] = <<>>
    BY <2>1, <2>2 DEF ServeInv, Underway
  <2>4. wanted' \in [Numbers -> Seq(Statuses)]
    <3>1. <<s>> \in Seq(Statuses)
      BY <1>6
    <3> QED BY <2>2, <2>3, <3>1 DEF TypeOK
  <2>5. TypeOK'
    BY <2>1, <2>4 DEF TypeOK, files
  <2>6. AtMostOne' /\ Unseen' /\ Underway'
    BY <2>1, <2>2, <2>3 DEF TypeOK, ServeInv, AtMostOne, Unseen, Underway
  <2>7. Past' /\ StatusTold'
    <3>1. 1..accepted \subseteq Numbers
      BY StdioAssumption DEF TypeOK, Numbers
    <3> QED BY <2>1, <2>2, <2>3, <3>1 DEF TypeOK, ServeInv, Past, StatusTold
  <2>8. DispatchHome' /\ CallDone'
    BY <2>1 DEF ServeInv, DispatchHome, CallDone, Dispatch, files
  <2> QED BY <2>5, <2>6, <2>7, <2>8 DEF ServeInv
<1> QED BY <1>2, <1>3, <1>4, <1>5, <1>6

\* In a CGI program FCGI_Accept touches nothing of a request.
LEMMA AcceptCGIServes ==
    ASSUME FullInv, AcceptCGI \/ AcceptCGIAgain
    PROVE  TypeOK' /\ ServeInv'
<1> USE DEF FullInv
<1>1. CASE AcceptCGI
  <2>1. /\ acceptCalled' = TRUE /\ isCGI' = TRUE /\ call' = "ok" /\ invokedAs = "CGI"
        /\ stdio' = [f \in Std |-> "process"] /\ fcgx' = [f \in Std |-> 0]
        /\ UNCHANGED <<invokedAs, environ, envpOf, request, history>>
    BY <1>1 DEF AcceptCGI
  <2>2. TypeOK'
    <3>1. fcgx' \in [Std -> 0..accepted] /\ stdio' \in [Std -> {"NULL", "process", "opened"}]
      BY <2>1, StdioAssumption DEF TypeOK
    <3> QED BY <2>1, <3>1 DEF TypeOK, request, history
  <2>3. AtMostOne' /\ Unseen' /\ Underway' /\ Past' /\ StatusTold'
    BY <2>1 DEF ServeInv, AtMostOne, Unseen, Underway, Past, StatusTold, request, history
  <2>4. DispatchHome' /\ CallDone'
    BY <2>1 DEF DispatchHome, CallDone
  <2> QED BY <2>2, <2>3, <2>4 DEF ServeInv
<1>2. CASE AcceptCGIAgain
  <2>1. call' = "failed"
        /\ UNCHANGED <<invokedAs, acceptCalled, isCGI, files, request, history>>
    BY <1>2 DEF AcceptCGIAgain
  <2>2. TypeOK'
    BY <2>1 DEF TypeOK, files, request, history
  <2>3. AtMostOne' /\ Unseen' /\ Underway' /\ Past' /\ StatusTold'
    BY <2>1 DEF ServeInv, AtMostOne, Unseen, Underway, Past, StatusTold, request, history
  <2>4. DispatchHome' /\ CallDone'
    BY <2>1 DEF DispatchHome, CallDone
  <2> QED BY <2>2, <2>3, <2>4 DEF ServeInv
<1> QED BY <1>1, <1>2

LEMMA NextServes == FullInv /\ [Next]_vars => FullInv'
<1> SUFFICES ASSUME FullInv, [Next]_vars PROVE TypeOK' /\ ServeInv'
  BY NextInv DEF FullInv
<1>1. CASE FCGI_Accept
  BY <1>1, AcceptServes, AcceptFailsServes, AcceptCGIServes DEF FCGI_Accept
<1>2. CASE FCGI_Finish
  BY <1>2, FinishServes DEF FCGI_Finish
<1>3. CASE Exit
  BY <1>3, FinishServes DEF Exit
<1>4. CASE Use
  BY <1>4, FcloseServes, FreopenServes, UseServes DEF Use
<1>5. CASE Exited \/ UNCHANGED vars
  <2>1. UNCHANGED vars
    BY <1>5 DEF Exited
  <2>2. TypeOK'
    BY <2>1 DEF FullInv, TypeOK, vars, files, request, history
  <2>3. AtMostOne' /\ Unseen' /\ Underway' /\ Past' /\ StatusTold'
    BY <2>1 DEF FullInv, ServeInv, AtMostOne, Unseen, Underway, Past, StatusTold, vars,
                request, history
  <2>4. DispatchHome' /\ CallDone'
    BY <2>1 DEF FullInv, ServeInv, DispatchHome, CallDone, Dispatch, vars, files, request,
                history
  <2> QED BY <2>2, <2>3, <2>4 DEF ServeInv
<1> QED BY <1>1, <1>2, <1>3, <1>4, <1>5 DEF Next

LEMMA FullInvariant == Spec => []FullInv
BY InitInv, ServeInit, NextServes, PTL DEF Spec, FullInv

\* No call of fcgi_stdio.c breaks the types: a file stands for a stream of a request that
\* was accepted, and no stream is closed or failed while the_request holds none.
THEOREM StdioTypes == Spec => []TypeOK
<1>1. FullInv => TypeOK
  BY DEF FullInv
<1> QED BY FullInvariant, <1>1, PTL

\* For every number of requests: each gets its own files from FCGI_Accept, the server is
\* told of its end once or loses the connection, and the status it is told is the one
\* FCGI_SetExitStatus set (FCGI_Accept, FCGI_Finish, FCGI_fclose, FCGI_freopen and
\* FCGI_SetExitStatus of fcgi_stdio.c over FCGX_Finish_r and FCGX_FClose).
THEOREM EveryRequestServed == Spec => []RequestsServed
<1>1. FullInv => RequestsServed
  <2> SUFFICES ASSUME FullInv PROVE RequestsServed
    OBVIOUS
  <2>1. 1..accepted \subseteq Numbers
    BY StdioAssumption DEF FullInv, TypeOK, Numbers
  <2>2. AnswerOrHangUp
    <3> SUFFICES ASSUME NEW n \in (1..accepted) \ cleared
                 PROVE  /\ Len(ended[n]) <= 1
                        /\ (n # current \/ call = "exited") =>
                              Len(ended[n]) = 1 \/ n \in hungUp
      BY DEF AnswerOrHangUp
    <3>1. n \in Numbers /\ n # 0
      BY <2>1
    <3>2. CASE ended[n] = <<>>
      BY <3>1, <3>2 DEF FullInv, ServeInv, Past, CallDone
    <3>3. CASE ended[n] # <<>>
      <4>1. PICK s \in Statuses \cup {0} : ended[n] = <<s>>
        BY <3>1, <3>3 DEF FullInv, ServeInv, AtMostOne
      <4> QED BY <4>1
    <3> QED BY <3>2, <3>3
  <2> QED BY <2>2 DEF FullInv, ServeInv, RequestsServed
<1> QED BY FullInvariant, <1>1, PTL
=============================================================================
