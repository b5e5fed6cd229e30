------------------------------ MODULE LayersProofs ------------------------------
(***************************************************************************)
(* Proofs about the layers above the streams that MCLayers brings together,*)
(* for every value of their constants.                                     *)
(*                                                                         *)
(* Requests of the Perl binding (PerlRequest): however handles are shared, *)
(* a handle is never tied to streams that were freed (HandlesLive), and    *)
(* nothing is left open or tied behind a request (RequestsReleased).  The  *)
(* inductive invariant PerlInv adds to PerlTypeOK what links them: a       *)
(* request is bound only while it is accepted, and its streams exist while *)
(* it is accepted.  ReleaseInv adds that a bound request which shares its  *)
(* handles with no other has them tied to itself: what unbinding a request *)
(* leaves of the handles of the others depends on it.                      *)
(*                                                                         *)
(* The tied handles (PerlStream): WRITE sends the part of a scalar it was  *)
(* asked for (PartWritten) because an int that becomes negative, or too    *)
(* long, as a STRLEN is larger than the rest of the scalar (ClampedIs).    *)
(*                                                                         *)
(* The C++ stream buffer (FcgiStreambuf), writing: OutputFidelity becomes  *)
(* inductive with Behind, that the characters in the put area are later    *)
(* than those other streams were given: without it the drop of an area by  *)
(* attach could take back characters of another stream.  Reading:          *)
(* InputFidelity becomes inductive with GetArea, which places gptr, egptr  *)
(* and what the buffer holds in the stream.                                *)
(*                                                                         *)
(* A behaviour of MCLayers is one of each layer (LayersAlone).             *)
(***************************************************************************)
EXTENDS MCLayers, FcgiStdioProofs, SequenceOpsProofs

-----------------------------------------------------------------------------
(* Requests of the Perl binding (PerlRequest).                             *)

Served == \A r \in Requests : /\ bound[r] => isAccepted[r]
                              /\ isAccepted[r] => Live(r)

TiedToBound == \A h \in Handles : magic[h] # NoOne =>
                  bound[magic[h]] /\ gv[magic[h]] = h

PerlInv == PerlTypeOK /\ Served /\ TiedToBound

\* PerlTypeOK, Served and TiedToBound hold before the first call.
LEMMA PerlInitInv == PerlInit => PerlInv
BY PerlAssumption DEF PerlInit, PerlInv, PerlTypeOK, Served, TiedToBound, Live

\* What FCGI_Finish makes of a handle is a tie to another request than r.
LEMMA FinishUnties ==
    ASSUME PerlInv, NEW r \in Requests
    PROVE  /\ UndoneByFinish(r) \in [Handles -> Requests \cup {NoOne}]
           /\ \A h \in Handles : UndoneByFinish(r)[h] # NoOne =>
                 /\ UndoneByFinish(r)[h] = magic[h]
                 /\ UndoneByFinish(r)[h] # r
<1>1. gv[r] \in Handles
  BY PerlAssumption
<1>2. CASE isAccepted[r] /\ bound[r]
  BY <1>1, <1>2 DEF UndoneByFinish, Untied, PerlInv, PerlTypeOK, TiedToBound
<1>3. CASE ~(isAccepted[r] /\ bound[r])
  BY <1>3 DEF UndoneByFinish, PerlInv, PerlTypeOK, TiedToBound, Served
<1> QED BY <1>2, <1>3

\* FCGI_Finish leaves values of the right types, however it comes out.
LEMMA FinishTypes ==
    ASSUME PerlTypeOK, NEW r \in Requests, NEW failure \in BOOLEAN
    PROVE  /\ Ending(r, failure).outcome \in {"none", "open", "ended", "hungup"}
           /\ Ending(r, failure).connected \in BOOLEAN
BY DEF Ending, PerlTypeOK

LEMMA FinishedTypes ==
    ASSUME PerlTypeOK, NEW r \in Requests, NEW failure \in BOOLEAN, Finished(r, failure)
    PROVE  /\ outcome' \in [Requests -> {"none", "open", "ended", "hungup"}]
           /\ isConnected' \in [Requests -> BOOLEAN]
           /\ isAccepted' \in [Requests -> BOOLEAN] /\ ~isAccepted'[r]
           /\ bound' \in [Requests -> BOOLEAN] /\ streams' \in [Requests -> Nat]
           /\ \A q \in Requests \ {r} : isAccepted'[q] = isAccepted[q]
<1> DEFINE o == Ending(r, failure).outcome
           c == Ending(r, failure).connected
<1>1. o \in {"none", "open", "ended", "hungup"} /\ c \in BOOLEAN
  BY FinishTypes
<1>2. outcome' = [outcome EXCEPT ![r] = o] /\ isConnected' = [isConnected EXCEPT ![r] = c]
  BY DEF Finished
<1> HIDE DEF o, c
<1>3. outcome' \in [Requests -> {"none", "open", "ended", "hungup"}]
  BY <1>1, <1>2 DEF PerlTypeOK
<1>4. isConnected' \in [Requests -> BOOLEAN]
  BY <1>1, <1>2 DEF PerlTypeOK
<1>5. isAccepted' \in [Requests -> BOOLEAN] /\ ~isAccepted'[r]
      /\ \A q \in Requests \ {r} : isAccepted'[q] = isAccepted[q]
  BY DEF Finished, PerlTypeOK
<1>6. bound' \in [Requests -> BOOLEAN]
  BY DEF Finished, PerlTypeOK
<1>7. streams' \in [Requests -> Nat]
  BY DEF Finished, PerlTypeOK
<1> QED BY <1>3, <1>4, <1>5, <1>6, <1>7

\* FCGI_Finish leaves r unbound and the streams of the others alone.
LEMMA FinishServed ==
    ASSUME PerlInv, NEW r \in Requests, NEW failure \in BOOLEAN, Finished(r, failure),
           sv' = sv
    PROVE  Served'
<1> USE DEF PerlInv, PerlTypeOK
<1>1. bound' = [bound EXCEPT ![r] = FALSE]
  <2>1. bound[r] => isAccepted[r]
    BY DEF Served
  <2>2. (bound[r] /\ ~isAccepted[r]) = FALSE
    BY <2>1
  <2> QED BY <2>2 DEF Finished
<1>2. isAccepted' = [isAccepted EXCEPT ![r] = FALSE]
  BY DEF Finished
<1>3. \A q \in Requests \ {r} : streams'[q] = streams[q]
  BY DEF Finished
<1> QED BY <1>1, <1>2, <1>3 DEF Served, Live

\* No method of a request breaks the invariant.
LEMMA PerlNextInv == PerlInv /\ [PerlNext]_perlVars => PerlInv'
<1> SUFFICES ASSUME PerlInv, [PerlNext]_perlVars PROVE PerlInv'
  OBVIOUS
<1> USE PerlAssumption DEF PerlInv, PerlTypeOK, Served, TiedToBound, Live
<1>1. ASSUME NEW r \in Requests, Accepted(r) PROVE PerlInv'
  <2>1. n[r] + 1 \in Nat /\ n[r] + 1 # 0 /\ n'[r] = n[r] + 1
    BY <1>1 DEF Accepted
  <2>2. PerlTypeOK'
    BY <1>1, <2>1 DEF Accepted, Tied
  <2>3. Served'
    BY <1>1, <2>1 DEF Accepted
  <2>4. TiedToBound'
    BY <1>1 DEF Accepted, Tied
  <2> QED BY <2>2, <2>3, <2>4
<1>2. ASSUME NEW r \in Requests, PerlAcceptFails(r) PROVE PerlInv'
  BY <1>2 DEF PerlAcceptFails
<1>3. ASSUME NEW r \in Requests, Accept(r) \/ PerlFinish(r) PROVE PerlInv'
  <2>0. PICK failure \in BOOLEAN : Finished(r, failure)
    BY <1>3 DEF Accept, PerlFinish
  <2>a. /\ outcome' \in [Requests -> {"none", "open", "ended", "hungup"}]
        /\ isConnected' \in [Requests -> BOOLEAN]
        /\ isAccepted' \in [Requests -> BOOLEAN] /\ ~isAccepted'[r]
        /\ bound' \in [Requests -> BOOLEAN] /\ streams' \in [Requests -> Nat]
        /\ \A q \in Requests \ {r} : isAccepted'[q] = isAccepted[q]
    BY <2>0, FinishedTypes
  <2>b. /\ magic' = UndoneByFinish(r)
        /\ exists' = exists /\ n' = n /\ sv' = sv /\ keepsConnection' = keepsConnection
        /\ exists[r] /\ accepting' \in {r, NoOne}
    BY <1>3 DEF Accept, PerlFinish, Callable
  <2>c. \A q \in Requests : isAccepted'[q] => exists'[q]
    BY <2>a, <2>b
  <2>1. PerlTypeOK'
    BY <2>a, <2>b, <2>c, FinishUnties
  <2>2. Served'
    BY <2>0, <2>b, FinishServed
  <2>3. TiedToBound'
    BY <2>0, <2>b, FinishUnties DEF Finished
  <2> QED BY <2>1, <2>2, <2>3
<1>4. ASSUME NEW r \in Requests, Detach(r) PROVE PerlInv'
  BY <1>4 DEF Detach, Untied, Callable
<1>5. ASSUME NEW r \in Requests, Attach(r) PROVE PerlInv'
  BY <1>5 DEF Attach, Tied, Callable
<1>6. ASSUME NEW r \in Requests, Destroy(r) PROVE PerlInv'
  <2>0. PICK failure \in BOOLEAN : Finished(r, failure)
    BY <1>6 DEF Destroy
  <2>a. /\ outcome' \in [Requests -> {"none", "open", "ended", "hungup"}]
        /\ isConnected' \in [Requests -> BOOLEAN]
        /\ isAccepted' \in [Requests -> BOOLEAN] /\ ~isAccepted'[r]
        /\ bound' \in [Requests -> BOOLEAN] /\ streams' \in [Requests -> Nat]
        /\ \A q \in Requests \ {r} : isAccepted'[q] = isAccepted[q]
    BY <2>0, FinishedTypes
  <2>b. exists' \in [Requests -> BOOLEAN]
        /\ \A q \in Requests : isAccepted'[q] => exists'[q]
    BY <1>6, <2>a DEF Destroy
  <2>1. PerlTypeOK'
    BY <1>6, <2>a, <2>b, FinishUnties DEF Destroy, Callable
  <2>2. Served'
    BY <1>6, <2>0, FinishServed DEF Destroy
  <2>3. TiedToBound'
    BY <1>6, FinishUnties DEF Destroy, Finished
  <2> QED BY <2>1, <2>2, <2>3
<1>7. CASE Over \/ UNCHANGED perlVars
  BY <1>7 DEF Over, perlVars
<1> QED BY <1>1, <1>2, <1>3, <1>4, <1>5, <1>6, <1>7 DEF PerlNext

\* The inductive invariant holds in every state.
LEMMA PerlInvariant == PerlSpec => []PerlInv
BY PerlInitInv, PerlNextInv, PTL DEF PerlSpec

\* Neither the types nor the rule that a served request exists are ever broken
\* (FCGI_Accept, FCGI_Finish, Attach, Detach and DESTROY of perl/FCGI.c).
THEOREM PerlTypes == PerlSpec => []PerlTypeOK
<1>1. PerlInv => PerlTypeOK
  BY DEF PerlInv
<1> QED BY PerlInvariant, <1>1, PTL

\* A tied handle and a bound request always have streams that exist: PRINT and
\* Flush do not reach freed memory, for every number of requests that share
\* handles in every way.
THEOREM TiedHandlesLive == PerlSpec => []HandlesLive
<1>1. PerlInv => HandlesLive
  BY PerlAssumption DEF PerlInv, PerlTypeOK, Served, TiedToBound, HandlesLive
<1> QED BY PerlInvariant, <1>1, PTL
-----------------------------------------------------------------------------
(* What a request leaves behind.                                           *)

\* Of a request whose handles are its own, what bound says of them; the converse
\* is in TiedToBound.
TiedWhileBound == \A r \in Requests : Unshared(r) /\ bound[r] => magic[gv[r]] = r

ReleaseInv == TiedWhileBound /\ NoneLeftOpen /\ ConnectionReleased

\* How FCGI_Finish ends the request, and what it leaves of the connection, when the
\* request was served as outcome and isAccepted say.
LEMMA EndingReleases ==
    ASSUME PerlTypeOK, NoneLeftOpen, ConnectionReleased,
           NEW r \in Requests, NEW failure \in BOOLEAN
    PROVE  /\ Ending(r, failure).outcome # "open"
           /\ Ending(r, failure).connected =>
                 keepsConnection[r] /\ Ending(r, failure).outcome = "ended"
BY DEF Ending, PerlTypeOK, NoneLeftOpen, ConnectionReleased

\* FCGI_Finish leaves the request ended, its connection closed or kept, and the
\* others as they are.
LEMMA FinishReleases ==
    ASSUME PerlInv, ReleaseInv, NEW r \in Requests, NEW failure \in BOOLEAN,
           Finished(r, failure), keepsConnection' = keepsConnection
    PROVE  NoneLeftOpen' /\ ConnectionReleased'
<1> DEFINE o == Ending(r, failure).outcome
           c == Ending(r, failure).connected
<1>1. o # "open" /\ (c => keepsConnection[r] /\ o = "ended")
  BY EndingReleases DEF PerlInv, ReleaseInv
<1>2. /\ outcome' = [outcome EXCEPT ![r] = o]
      /\ isConnected' = [isConnected EXCEPT ![r] = c]
      /\ isAccepted' = [isAccepted EXCEPT ![r] = FALSE]
  BY DEF Finished
<1> HIDE DEF o, c
<1>3. NoneLeftOpen'
  BY <1>1, <1>2 DEF PerlInv, PerlTypeOK, ReleaseInv, NoneLeftOpen
<1>4. ConnectionReleased'
  BY <1>1, <1>2 DEF PerlInv, PerlTypeOK, ReleaseInv, ConnectionReleased
<1> QED BY <1>3, <1>4

\* Untying the handle of a request leaves the handles of the others tied, where they
\* have handles of their own.
LEMMA FinishKeepsTies ==
    ASSUME PerlInv, ReleaseInv, NEW r \in Requests,
           magic' = UndoneByFinish(r), bound' = [bound EXCEPT ![r] = @ /\ ~isAccepted[r]]
    PROVE  TiedWhileBound'
<1> SUFFICES ASSUME NEW q \in Requests, Unshared(q), bound'[q]
             PROVE  magic'[gv[q]] = q
  BY DEF TiedWhileBound, Unshared
<1>1. q # r /\ bound[q]
  BY DEF PerlInv, PerlTypeOK, Served
<1>2. gv[q] # gv[r] /\ gv[q] \in Handles
  BY <1>1, PerlAssumption DEF Unshared
<1>3. magic[gv[q]] = q
  BY <1>1 DEF ReleaseInv, TiedWhileBound
<1> QED BY <1>2, <1>3 DEF UndoneByFinish, Untied, PerlInv, PerlTypeOK

\* No method of a request leaves anything behind.
LEMMA PerlNextReleaseInv == PerlInv /\ ReleaseInv /\ [PerlNext]_perlVars => ReleaseInv'
<1> SUFFICES ASSUME PerlInv, ReleaseInv, [PerlNext]_perlVars PROVE ReleaseInv'
  OBVIOUS
<1> USE PerlAssumption DEF PerlInv, PerlTypeOK
<1>1. ASSUME NEW r \in Requests, Accepted(r) PROVE ReleaseInv'
  <2>1. TiedWhileBound'
    <3> SUFFICES ASSUME NEW q \in Requests, Unshared(q), bound'[q]
                 PROVE  magic'[gv[q]] = q
      BY DEF TiedWhileBound, Unshared
    <3>1. magic' = Tied(magic, r) /\ bound' = [bound EXCEPT ![r] = TRUE]
      BY <1>1 DEF Accepted
    <3>2. CASE q = r
      <4>1. ~bound[r]
        BY <1>1 DEF Accepted, Served
      <4>2. magic[gv[r]] = NoOne
        BY <3>2, <4>1 DEF TiedToBound, Unshared
      <4> QED BY <3>1, <3>2, <4>2 DEF Tied
    <3>3. CASE q # r
      <4>1. gv[q] # gv[r] /\ bound[q] /\ magic[gv[q]] = q
        BY <3>1, <3>3 DEF Unshared, ReleaseInv, TiedWhileBound
      <4> QED BY <3>1, <4>1 DEF Tied
    <3> QED BY <3>2, <3>3
  <2>2. NoneLeftOpen'
    BY <1>1 DEF Accepted, ReleaseInv, NoneLeftOpen
  <2>3. ConnectionReleased'
    BY <1>1 DEF Accepted, ReleaseInv, ConnectionReleased
  <2> QED BY <2>1, <2>2, <2>3 DEF ReleaseInv
<1>2. ASSUME NEW r \in Requests, PerlAcceptFails(r) PROVE ReleaseInv'
  <2>1. TiedWhileBound' /\ NoneLeftOpen'
    BY <1>2 DEF PerlAcceptFails, ReleaseInv, TiedWhileBound, NoneLeftOpen, Unshared
  <2>2. ConnectionReleased'
    BY <1>2 DEF PerlAcceptFails, ReleaseInv, ConnectionReleased
  <2> QED BY <2>1, <2>2 DEF ReleaseInv
<1>3. ASSUME NEW r \in Requests, Accept(r) \/ PerlFinish(r) \/ Destroy(r)
      PROVE ReleaseInv'
  <2>1. PICK failure \in BOOLEAN : Finished(r, failure)
    BY <1>3 DEF Accept, PerlFinish, Destroy
  <2>2. magic' = UndoneByFinish(r) /\ keepsConnection' = keepsConnection
    BY <1>3 DEF Accept, PerlFinish, Destroy
  <2>3. TiedWhileBound'
    BY <2>1, <2>2, FinishKeepsTies DEF Finished
  <2>4. NoneLeftOpen' /\ ConnectionReleased'
    BY <2>1, <2>2, FinishReleases
  <2> QED BY <2>3, <2>4 DEF ReleaseInv
<1>4. ASSUME NEW r \in Requests, Detach(r) PROVE ReleaseInv'
  BY <1>4 DEF Detach, Untied, ReleaseInv, TiedWhileBound, NoneLeftOpen, ConnectionReleased,
              Unshared
<1>5. ASSUME NEW r \in Requests, Attach(r) PROVE ReleaseInv'
  <2>1. Unshared(r) => magic[gv[r]] = NoOne
    BY <1>5 DEF Attach, TiedToBound, Unshared
  <2> QED BY <1>5, <2>1
          DEF Attach, Tied, ReleaseInv, TiedWhileBound, NoneLeftOpen, ConnectionReleased,
              Unshared
<1>6. CASE Over \/ UNCHANGED perlVars
  BY <1>6 DEF Over, perlVars, ReleaseInv, TiedWhileBound, NoneLeftOpen, ConnectionReleased,
              Unshared
<1> QED BY <1>1, <1>2, <1>3, <1>4, <1>5, <1>6 DEF PerlNext

\* Binding, unbinding, finishing and destroying requests in any order leaves each its
\* own handles, tells the server of the end of each, and closes every connection that
\* the server did not want kept (FCGI_Bind, FCGI_UndoBinding, FCGI_Finish and
\* FCGI_Release_Request of perl/FCGI.c).
THEOREM NothingLeftBehind == PerlSpec => []RequestsReleased
<1>1. PerlInit => ReleaseInv
  BY DEF PerlInit, ReleaseInv, TiedWhileBound, NoneLeftOpen, ConnectionReleased
<1>2. PerlInv /\ ReleaseInv => RequestsReleased
  <2> SUFFICES ASSUME PerlInv, ReleaseInv PROVE RequestsReleased
    OBVIOUS
  <2>1. OwnHandles
    BY PerlAssumption DEF PerlInv, PerlTypeOK, TiedToBound, ReleaseInv, TiedWhileBound, OwnHandles
  <2>2. ConnectionReleased
    BY DEF ReleaseInv
  <2> QED BY <2>1, <2>2 DEF RequestsReleased, ReleaseInv
<1>3. PerlSpec => []ReleaseInv
  BY PerlInvariant, <1>1, PerlNextReleaseInv, PTL DEF PerlSpec
<1> QED BY PerlInvariant, <1>2, <1>3, PTL

-----------------------------------------------------------------------------
(* The methods of a tied handle (PerlStream).                              *)

LEMMA MinOfTwo ==
    ASSUME NEW a \in Int, NEW b \in Int
    PROVE  Min({a, b}) = IF a <= b THEN a ELSE b
<1> DEFINE m == IF a <= b THEN a ELSE b
<1>1. m \in {a, b} /\ \A y \in {a, b} : m <= y
  OBVIOUS
<1>2. \A x \in {a, b} : (\A y \in {a, b} : x <= y) => x = m
  OBVIOUS
<1> QED BY <1>1, <1>2 DEF Min

\* What a conversion between int and STRLEN gives: a number that both have is kept,
\* and a negative int becomes one that is larger than any int.
LEMMA Conversions ==
    /\ IntMax \in Nat /\ SizeMax \in Nat /\ 2 * IntMax < SizeMax
    /\ \A x \in 0..IntMax : ToSize(x) = x /\ ToInt(x) = x
    /\ \A x \in -IntMax-1..-1 : ToSize(x) > IntMax
    /\ \A x \in Ints : ToInt(ToSize(x)) = x
<1>1. IntMax \in Nat /\ SizeMax \in Nat /\ 2 * IntMax < SizeMax
  BY PerlStreamAssumption
<1>2. ASSUME NEW x \in 0..IntMax PROVE ToSize(x) = x /\ ToInt(x) = x
  <2>1. ToSize(x) = x
    <3> DEFINE m == SizeMax + 1
    <3>1. m \in Nat /\ m > 0 /\ x \in 0..m-1
      BY <1>1
    <3> HIDE DEF m
    <3>2. x % m = x
      BY <3>1
    <3> QED BY <3>2 DEF m, ToSize
  <2>2. x \in Ints
    BY <1>1 DEF Ints
  <2> QED BY <2>1, <2>2, WidthsAssumption
<1>3. ASSUME NEW x \in -IntMax-1..-1 PROVE ToSize(x) > IntMax
  <2> DEFINE m == SizeMax + 1
  <2>1. m \in Nat /\ m > 0 /\ x \in 0-m..0-1 /\ m > 2 * IntMax + 1
    BY <1>1
  <2>2. x + m > IntMax
    BY <1>1, <2>1
  <2> HIDE DEF m
  <2>3. x % m = x + m
    BY <2>1
  <2> QED BY <2>2, <2>3 DEF m, ToSize
<1> QED BY <1>1, <1>2, <1>3, WidthsAssumption

LEMMA OffsetIs ==
    ASSUME NEW blen \in 0..MaxStrings, NEW offset \in Ints
    PROVE  Offset(blen, offset) = IF offset < 0 THEN offset + blen ELSE offset
<1>1. MaxStrings \in Nat /\ MaxStrings <= IntMax /\ IntMax \in Nat
  BY PerlStreamAssumption
<1>2. offset < 0 => offset + blen \in Ints
  BY <1>1 DEF Ints
<1> QED BY <1>2, WidthsAssumption DEF Offset

LEMMA ClampedIs ==
    ASSUME NEW blen \in 0..MaxStrings, NEW start \in 0..blen-1, NEW len \in Ints
    PROVE  Clamped(blen, len, start) = IF len < 0 \/ len > blen - start THEN blen - start ELSE len
<1> DEFINE rest == blen - start
<1>1. MaxStrings \in Nat /\ MaxStrings <= IntMax /\ IntMax \in Nat
  BY PerlStreamAssumption
<1>2. rest \in 0..IntMax
  BY <1>1
<1>3. ToSize(rest) = rest /\ ToInt(rest) = rest
  BY <1>2, Conversions
<1> HIDE DEF rest
<1>4. Clamped(blen, len, start) = IF ToSize(len) > rest THEN rest ELSE len
  BY <1>3 DEF Clamped, rest
<1>5. CASE len < 0
  <2>1. len \in -IntMax-1..-1
    BY <1>1, <1>5 DEF Ints
  <2>2. ToSize(len) > IntMax
    BY <2>1, Conversions
  <2>3. ToSize(len) \in Int
    <3>1. len \in Int /\ SizeMax + 1 \in Nat /\ SizeMax + 1 > 0
      BY <1>1, Conversions DEF Ints
    <3> QED BY <3>1 DEF ToSize
  <2>4. ToSize(len) > rest
    BY <1>1, <1>2, <2>2, <2>3
  <2> QED BY <1>4, <1>5, <2>4 DEF rest
<1>6. CASE ~(len < 0)
  <2>1. len \in 0..IntMax
    BY <1>1, <1>6 DEF Ints
  <2>2. ToSize(len) = len
    BY <2>1, Conversions
  <2> QED BY <1>4, <1>6, <2>2 DEF rest
<1> QED BY <1>5, <1>6

\* The part of a scalar that WRITE sends is the one it was asked for.
LEMMA WriteSendsPart ==
    ASSUME NEW blen \in 0..MaxStrings, NEW len \in Ints, NEW offset0 \in Ints,
           NEW offset, offset = Offset(blen, offset0)
    PROVE  /\ (offset < 0 \/ ToSize(offset) >= blen) => Part(blen, len, offset0) = <<>>
           /\ ~(offset < 0 \/ ToSize(offset) >= blen) =>
                 Part(blen, len, offset0) = Bytes(offset, Clamped(blen, len, offset))
<1>1. MaxStrings \in Nat /\ MaxStrings <= IntMax /\ IntMax \in Nat
  BY PerlStreamAssumption
<1>2. offset = (IF offset0 < 0 THEN blen + offset0 ELSE offset0) /\ offset \in Int
  BY <1>1, OffsetIs DEF Ints
<1>3. Part(blen, len, offset0) =
        IF offset \notin 0..(blen - 1) THEN <<>>
        ELSE Bytes(offset, IF len < 0 THEN blen - offset ELSE Min({len, blen - offset}))
  BY <1>2 DEF Part
<1>4. offset < 0 \/ ToSize(offset) >= blen <=> offset \notin 0..(blen - 1)
  <2>1. CASE offset < 0
    BY <2>1
  <2>2. CASE ~(offset < 0)
    <3>1. offset \in 0..IntMax
      BY <1>1, <1>2, <2>2 DEF Ints
    <3>2. ToSize(offset) = offset
      BY <3>1, Conversions
    <3> QED BY <1>2, <2>2, <3>2
  <2> QED BY <2>1, <2>2
<1>5. ASSUME offset \in 0..(blen - 1)
      PROVE  Clamped(blen, len, offset) = IF len < 0 THEN blen - offset ELSE Min({len, blen - offset})
  <2> DEFINE rest == blen - offset
  <2>1. Clamped(blen, len, offset) = IF len < 0 \/ len > rest THEN rest ELSE len
    BY <1>5, ClampedIs
  <2>2. len \in Int /\ rest \in Int
    BY <1>1, <1>2 DEF Ints
  <2> HIDE DEF rest
  <2>3. Min({len, rest}) = IF len <= rest THEN len ELSE rest
    BY <2>2, MinOfTwo
  <2>4. Clamped(blen, len, offset) = IF len < 0 THEN rest ELSE Min({len, rest})
    BY <2>1, <2>2, <2>3
  <2> QED BY <2>4 DEF rest
<1> QED BY <1>3, <1>4, <1>5

LEMMA BytesAreSeq ==
    ASSUME NEW from \in Int, NEW cnt \in Nat
    PROVE  Bytes(from, cnt) \in Seq(Int) /\ Len(Bytes(from, cnt)) = cnt
BY DEF Bytes

LEMMA PartIsSeq ==
    ASSUME NEW blen \in 0..MaxStrings, NEW len \in Ints, NEW offset0 \in Ints
    PROVE  Part(blen, len, offset0) \in Seq(Int)
<1> DEFINE start == IF offset0 < 0 THEN blen + offset0 ELSE offset0
           rest == blen - start
           k == IF len < 0 THEN rest ELSE Min({len, rest})
<1>1. MaxStrings \in Nat /\ IntMax \in Nat /\ len \in Int /\ offset0 \in Int /\ start \in Int /\ rest \in Int
  BY PerlStreamAssumption DEF Ints
<1>2. Part(blen, len, offset0) = IF start \notin 0..(blen - 1) THEN <<>> ELSE Bytes(start, k)
  BY DEF Part
<1>3. start \in 0..(blen - 1) => rest \in Nat
  BY <1>1
<1> HIDE DEF start, rest
<1>4. start \in 0..(blen - 1) => k \in Nat
  <2>1. Min({len, rest}) = IF len <= rest THEN len ELSE rest
    BY <1>1, MinOfTwo
  <2> QED BY <1>1, <1>3, <2>1
<1> HIDE DEF k
<1>5. start \in 0..(blen - 1) => Bytes(start, k) \in Seq(Int)
  BY <1>1, <1>4, BytesAreSeq
<1> QED BY <1>2, <1>5

\* Every scalar that is written goes to the stream, as the part of it that was asked for and
\* nothing else, whatever the signs of length and offset are and however int and STRLEN are
\* converted (WRITE and PRINT of perl/FCGI.c).
THEOREM ScalarsWritten == StreamSpec => []PartWritten
<1> DEFINE Kept == error \in BOOLEAN /\ asked \in Seq(Int) /\ PartWritten
<1>1. StreamInit => Kept
  <2>1. <<>> \in Seq(Int)
    OBVIOUS
  <2>2. StreamInit => error = FALSE /\ asked = <<>> /\ output = <<>>
    BY DEF StreamInit
  <2> QED BY <2>1, <2>2 DEF PartWritten
<1>2. ASSUME Kept, [StreamNext]_streamVars PROVE Kept'
  <2>1. ASSUME NEW blen \in 0..MaxStrings, PRINT(blen) PROVE Kept'
    <3> DEFINE p == Bytes(0, blen)
    <3>1. p \in Seq(Int)
      <4>1. blen \in Nat
        BY PerlStreamAssumption
      <4> QED BY <4>1, BytesAreSeq
    <3>2. /\ asked' = asked \o p
          /\ (output' = output \o p /\ error' = error) \/ error' = TRUE
      BY <2>1 DEF PRINT, PutBytes
    <3> HIDE DEF p
    <3>3. asked' \in Seq(Int)
      <4>1. asked \in Seq(Int) /\ asked' = asked \o p
        BY <1>2, <3>2
      <4> QED BY ONLY <3>1, <4>1
    <3> QED BY <1>2, <3>2, <3>3 DEF PartWritten
  <2>2. ASSUME NEW blen \in 0..MaxStrings, NEW len \in Ints, NEW offset0 \in Ints, WRITE(blen, len, offset0)
        PROVE  Kept'
    <3> DEFINE offset == Offset(blen, offset0)
               cnt == Clamped(blen, len, offset)
               p == Part(blen, len, offset0)
               outside == offset < 0 \/ ToSize(offset) >= blen
    <3>1. p \in Seq(Int) /\ (outside => p = <<>>) /\ (~outside => p = Bytes(offset, cnt))
      <4>1. p \in Seq(Int)
        BY PartIsSeq
      <4> QED BY <4>1, WriteSendsPart
    <3>2. /\ asked' = asked \o p
          /\ outside => output' = output /\ error' = error
          /\ ~outside => PutBytes(offset, cnt)
      BY <2>2 DEF WRITE
    <3> HIDE DEF outside, p, offset, cnt
    <3>3. ~outside => (output' = output \o p /\ error' = error) \/ error' = TRUE
      BY <3>1, <3>2 DEF PutBytes
    <3>4. asked' \in Seq(Int)
      BY <1>2, <3>1, <3>2
    <3>5. CASE outside
      <4>1. asked \o <<>> = asked
        BY <1>2
      <4> QED BY <1>2, <3>1, <3>2, <3>5, <4>1 DEF PartWritten
    <3>6. CASE ~outside
      BY <1>2, <3>2, <3>3, <3>4, <3>6 DEF PartWritten
    <3> QED BY <3>5, <3>6
  <2>4. ASSUME NEW len, NEW offset, READ(len, offset) PROVE Kept'
    BY <1>2, <2>4 DEF READ, PartWritten
  <2>5. CASE GETC \/ CLOSE \/ Rest \/ UNCHANGED streamVars
    BY <1>2, <2>5 DEF GETC, CLOSE, Rest, streamVars, PartWritten
  <2> QED BY <1>2, <2>1, <2>2, <2>4, <2>5 DEF StreamNext
<1>3. Kept => PartWritten
  OBVIOUS
<1> QED BY <1>1, <1>2, <1>3, PTL DEF StreamSpec

\* What READ takes from the stream is what it puts behind the offset of its scalar.
LEMMA ReadTakes ==
    ASSUME NEW s \in Seq(Int), NEW b \in Seq(Int), NEW offset \in 0..Len(b), NEW cnt \in 0..Len(s)
    PROVE  /\ SubSeq(b, 1, offset) \o SubSeq(s, 1, cnt) \in Seq(Int)
           /\ SubSeq(SubSeq(b, 1, offset) \o SubSeq(s, 1, cnt), offset + 1,
                     Len(SubSeq(b, 1, offset) \o SubSeq(s, 1, cnt))) = SubSeq(s, 1, cnt)
           /\ SubSeq(s, 1, cnt) \in Seq(Int) /\ SubSeq(s, cnt + 1, Len(s)) \in Seq(Int)
           /\ SubSeq(s, 1, cnt) \o SubSeq(s, cnt + 1, Len(s)) = s
<1> DEFINE x == SubSeq(b, 1, offset)
           y == SubSeq(s, 1, cnt)
           z == SubSeq(s, cnt + 1, Len(s))
           c == x \o y
<1>1. Len(s) \in Nat /\ Len(b) \in Nat /\ cnt \in Nat /\ offset \in Nat /\ cnt <= Len(s) /\ offset <= Len(b)
  OBVIOUS
<1>2. x \in Seq(Int) /\ Len(x) = offset
  BY <1>1, FirstOfSeq
<1>3. y \in Seq(Int) /\ Len(y) = cnt
  BY <1>1, FirstOfSeq
<1>4. z \in Seq(Int)
  BY <1>1, PartOfSeq
<1>5. y \o z = s
  <2> DEFINE m == Len(s)
  <2>1. m \in Nat /\ cnt <= m /\ m <= Len(s) /\ SubSeq(s, 1, m) = s
    BY <1>1, WholeSeq
  <2> HIDE DEF m
  <2>2. SubSeq(s, 1, m) = SubSeq(s, 1, cnt) \o SubSeq(s, cnt + 1, m)
    BY <1>1, <2>1, PartsJoin
  <2> QED BY <2>1, <2>2 DEF m
<1> HIDE DEF x, y, z
<1>7. /\ c \in Seq(Int) /\ Len(c) = offset + cnt
      /\ \A i \in 1..cnt : c[offset + i] = y[i]
  <2>1. /\ x \o y \in Seq(Int) /\ Len(x \o y) = Len(x) + Len(y)
        /\ \A i \in 1..Len(x) + Len(y) : (x \o y)[i] = IF i <= Len(x) THEN x[i] ELSE y[i - Len(x)]
    BY <1>2, <1>3, ConcatProperties
  <2>2. ASSUME NEW i \in 1..cnt PROVE c[offset + i] = y[i]
    <3>1. offset + i \in 1..Len(x) + Len(y) /\ ~(offset + i <= Len(x)) /\ (offset + i) - Len(x) = i
      BY <1>1, <1>2, <1>3
    <3>2. (x \o y)[offset + i] = y[(offset + i) - Len(x)]
      BY <2>1, <3>1
    <3> QED BY <3>1, <3>2
  <2> QED BY <1>2, <1>3, <2>1, <2>2
<1> HIDE DEF c
<1>8. SubSeq(c, offset + 1, Len(c)) = y
  <2> DEFINE m == Len(c)
  <2>1. m \in Nat /\ m - offset = cnt /\ offset <= m
    BY <1>1, <1>7
  <2>2. /\ SubSeq(c, offset + 1, m) \in Seq(Int)
        /\ Len(SubSeq(c, offset + 1, m)) = IF offset <= m THEN m - offset ELSE 0
        /\ \A i \in 1..m - offset : SubSeq(c, offset + 1, m)[i] = c[offset + i]
    <3>1. m <= Len(c)
      BY <2>1
    <3> HIDE DEF m
    <3> QED BY ONLY <1>1, <1>7, <2>1, <3>1, PartOfSeq
  <2> HIDE DEF m
  <2>3. /\ SubSeq(c, offset + 1, m) \in Seq(Int) /\ Len(SubSeq(c, offset + 1, m)) = cnt
        /\ \A i \in 1..cnt : SubSeq(c, offset + 1, m)[i] = y[i]
    BY <1>7, <2>1, <2>2
  <2>4. SubSeq(c, offset + 1, m) = y
    BY <1>3, <2>3, SameSeq
  <2> QED BY <2>4 DEF m
<1> QED BY <1>3, <1>4, <1>5, <1>7, <1>8 DEF c, x, y, z

\* The program is given the bytes of the stream in order and none twice, wherever in its
\* scalars READ puts them (READ and GETC of perl/FCGI.c).
LEMMA InputRead == StreamSpec => []InputInOrder
<1> DEFINE Kept == toRead \in Seq(Int) /\ bufsv \in Seq(Int) /\ readOut \in Seq(Int) /\ InputInOrder
<1>1. StreamInit => Kept
  <2>1. Input \in Seq(Int)
    BY PerlStreamAssumption DEF Input
  <2>2. <<>> \o Input = Input
    BY <2>1
  <2> QED BY <2>1, <2>2 DEF StreamInit, InputInOrder
<1>2. ASSUME Kept, [StreamNext]_streamVars PROVE Kept'
  <2>1. ASSUME NEW len \in 0..Len(Input), NEW offset \in 0..Len(Input), READ(len, offset) PROVE Kept'
    <3> DEFINE cnt == Min({len, Len(toRead)})
               y == SubSeq(toRead, 1, cnt)
               z == SubSeq(toRead, cnt + 1, Len(toRead))
    <3>1. cnt \in 0..Len(toRead)
      <4>1. len \in Nat /\ Len(toRead) \in Nat
        BY <1>2 DEF Input
      <4>2. cnt = IF len <= Len(toRead) THEN len ELSE Len(toRead)
        BY <4>1, MinOfTwo
      <4> QED BY <4>1, <4>2
    <3>2. /\ offset \in 0..Len(bufsv)
          /\ bufsv' = SubSeq(bufsv, 1, offset) \o y
          /\ readOut' = readOut \o SubSeq(bufsv', offset + 1, Len(bufsv'))
          /\ toRead' = z
      <4>1. offset \in Nat /\ Len(bufsv) \in Nat /\ offset <= Len(bufsv)
        BY <1>2, <2>1 DEF READ
      <4> QED BY <2>1, <4>1 DEF READ
    <3>3. /\ bufsv' \in Seq(Int) /\ SubSeq(bufsv', offset + 1, Len(bufsv')) = y
          /\ y \in Seq(Int) /\ z \in Seq(Int) /\ y \o z = toRead
      <4> DEFINE c == bufsv'
      <4>1. /\ toRead \in Seq(Int) /\ bufsv \in Seq(Int) /\ offset \in 0..Len(bufsv)
            /\ cnt \in 0..Len(toRead) /\ c = SubSeq(bufsv, 1, offset) \o SubSeq(toRead, 1, cnt)
        BY <1>2, <3>1, <3>2
      <4> HIDE DEF cnt, c
      <4> DEFINE e == SubSeq(bufsv, 1, offset) \o SubSeq(toRead, 1, cnt)
      <4>2. /\ e \in Seq(Int) /\ SubSeq(e, offset + 1, Len(e)) = SubSeq(toRead, 1, cnt)
            /\ SubSeq(toRead, 1, cnt) \in Seq(Int) /\ SubSeq(toRead, cnt + 1, Len(toRead)) \in Seq(Int)
            /\ SubSeq(toRead, 1, cnt) \o SubSeq(toRead, cnt + 1, Len(toRead)) = toRead
        BY ONLY <4>1, ReadTakes
      <4> HIDE DEF e
      <4>3. c = e
        BY <4>1 DEF e
      <4> QED BY <4>2, <4>3 DEF c
    <3> HIDE DEF cnt, y, z
    <3>4. readOut' = readOut \o y
      BY <3>2, <3>3
    <3>5. (readOut \o y) \o z = readOut \o (y \o z)
      <4> DEFINE V == Int
      <4>1. readOut \in Seq(V) /\ y \in Seq(V) /\ z \in Seq(V)
        BY <1>2, <3>3
      <4> HIDE DEF V
      <4> QED BY ONLY <4>1, ConcatAssociative
    <3>6. readOut \o toRead = Input
      BY <1>2 DEF InputInOrder
    <3>7. InputInOrder'
      BY <3>2, <3>3, <3>4, <3>5, <3>6 DEF InputInOrder, Input
    <3>8. readOut' \in Seq(Int)
      <4>1. readOut \in Seq(Int) /\ y \in Seq(Int) /\ readOut' = readOut \o y
        BY <1>2, <3>3, <3>4
      <4> HIDE DEF Kept
      <4> QED BY ONLY <4>1
    <3> QED BY <3>2, <3>3, <3>7, <3>8
  <2>2. CASE GETC
    <3>1. CASE toRead = <<>>
      BY <1>2, <2>2, <3>1 DEF GETC, InputInOrder, Input
    <3>2. CASE toRead # <<>>
      <4>1. /\ toRead' = Tail(toRead) /\ readOut' = Append(readOut, Head(toRead)) /\ bufsv' = bufsv
        BY <2>2, <3>2 DEF GETC
      <4>2. /\ Tail(toRead) \in Seq(Int) /\ Append(readOut, Head(toRead)) \in Seq(Int)
            /\ Append(readOut, Head(toRead)) \o Tail(toRead) = readOut \o toRead
        <5>1. readOut \in Seq(Int) /\ toRead \in Seq(Int)
          BY <1>2
        <5>2. Tail(toRead) \in Seq(Int) /\ Head(toRead) \in Int
          BY ONLY <5>1, <3>2, HeadTailProperties
        <5>3. Append(readOut, Head(toRead)) \in Seq(Int)
          BY ONLY <5>1, <5>2, AppendProperties
        <5>4. Append(readOut, Head(toRead)) \o Tail(toRead) = readOut \o toRead
          BY ONLY <5>1, <3>2, HeadMoved
        <5> QED BY ONLY <5>2, <5>3, <5>4
      <4>3. readOut \o toRead = Input
        BY <1>2 DEF InputInOrder
      <4> QED BY <1>2, <4>1, <4>2, <4>3 DEF InputInOrder, Input
    <3> QED BY <3>1, <3>2
  <2>3. ASSUME NEW blen, PRINT(blen) \/ \E len, offset : WRITE(blen, len, offset) PROVE Kept'
    BY <1>2, <2>3 DEF PRINT, WRITE, InputInOrder, Input
  <2>4. CASE CLOSE \/ Rest \/ UNCHANGED streamVars
    BY <1>2, <2>4 DEF CLOSE, Rest, streamVars, InputInOrder, Input
  <2> QED BY <1>2, <2>1, <2>2, <2>3, <2>4 DEF StreamNext
<1>3. Kept => InputInOrder
  OBVIOUS
<1> QED BY <1>1, <1>2, <1>3, PTL DEF StreamSpec

-----------------------------------------------------------------------------
(* Writing through a fcgi_streambuf (FcgiStreambuf).                       *)

\* What the writing side keeps: its types, and which characters are where.
OutTypes ==
    /\ direction \in {"out", "in"} /\ bufsize \in {0, BufSize} /\ alive \in BOOLEAN
    /\ stream \in Streams /\ broken \subseteq Streams
    /\ written \in 0..MaxChars /\ dropped \subseteq 1..written
    /\ area \in Seq(1..written) /\ Len(area) <= bufsize
    /\ taken \in [Streams -> Seq(1..written)] /\ given \in [Streams -> Seq(1..written)]
    /\ direction = "in" => area = <<>>

\* The characters in the put area were written later than those that other streams were
\* given, and than those that the stream of the area has taken, unless it is broken.
Behind(m) ==
    /\ area \in Seq(m + 1..written)
    /\ \A t \in Streams \ {stream} : given[t] \in Seq(1..m)
    /\ stream \notin broken => taken[stream] \in Seq(1..m)

OutInv == OutTypes /\ (\E m \in 0..written : Behind(m)) /\ OutputFidelity

\* What a step that passes s to the stream leaves.
LEMMA TakeIs ==
    ASSUME OutTypes, NEW w \in Nat, written <= w, NEW s \in Seq(1..w), Take(s)
    PROVE  /\ taken' \in [Streams -> Seq(1..w)]
           /\ \A t \in Streams \ {stream} : taken'[t] = taken[t]
           /\ stream \notin broken => taken'[stream] = taken[stream] \o s
<1>1. stream \in Streams /\ written \in Nat /\ \A t \in Streams : taken[t] \in Seq(1..written)
  BY StreambufAssumption DEF OutTypes
<1>2. \A q : q \in Seq(1..written) => q \in Seq(1..w)
  BY <1>1
<1>3. \A t \in Streams : taken[t] \in Seq(1..w)
  BY <1>1, <1>2
<1>4. taken[stream] \o s \in Seq(1..w)
  BY <1>1, <1>3, ConcatProperties
<1>5. taken \in [Streams -> Seq(1..w)]
  BY <1>3 DEF OutTypes
<1>6. CASE stream \in broken
  BY <1>5, <1>6 DEF Take
<1>7. CASE stream \notin broken
  <2>1. taken' = [taken EXCEPT ![stream] = taken[stream] \o s]
    BY <1>7 DEF Take
  <2> HIDE DEF OutTypes
  <2> QED BY <1>1, <1>4, <1>5, <2>1
<1> QED BY <1>6, <1>7

\* Where the put area is empty, what was written last is behind nothing.
LEMMA NothingAhead ==
    ASSUME OutTypes, area = <<>>, \A t \in Streams \ {stream} : given[t] \in Seq(1..written)
    PROVE  \E m \in 0..written : Behind(m)
<1>1. written \in 0..written /\ <<>> \in Seq(written + 1..written)
  BY StreambufAssumption DEF OutTypes
<1>2. taken[stream] \in Seq(1..written)
  BY DEF OutTypes
<1> QED BY <1>1, <1>2 DEF Behind

\* The writing side before the first call.
LEMMA OutInit == StreambufInit => OutInv
<1> SUFFICES ASSUME StreambufInit PROVE OutInv
  OBVIOUS
<1>1. <<>> \in Seq(1..0) /\ Len(<<>>) = 0 /\ <<>> \o <<>> = <<>>
  OBVIOUS
<1>2. OutTypes
  BY <1>1, StreambufAssumption DEF StreambufInit, OutTypes
<1>3. \E m \in 0..written : Behind(m)
  BY <1>1, <1>2, NothingAhead DEF StreambufInit
<1>4. OutputFidelity
  <2> SUFFICES ASSUME NEW t \in Streams PROVE taken[t] \o Pending(t) = Selected(given[t], Nat \ dropped)
    BY DEF OutputFidelity
  <2>1. taken[t] = <<>> /\ Pending(t) = <<>> /\ given[t] = <<>>
    BY DEF StreambufInit, Pending
  <2> QED BY <1>1, <2>1, SelectedEmpty
<1> QED BY <1>2, <1>3, <1>4 DEF OutInv

\* sputc into the put area.
LEMMA SputcKeeps ==
    ASSUME OutInv, SputcStores
    PROVE  OutInv'
<1> DEFINE w == written + 1
<1>1. /\ stream \in Streams /\ written \in Nat /\ w \in 0..MaxChars /\ alive
      /\ area' = Append(area, w) /\ written' = w
      /\ given' = [given EXCEPT ![stream] = Append(given[stream], w)]
      /\ taken' = taken /\ broken' = broken /\ dropped' = dropped /\ stream' = stream
      /\ direction' = direction /\ bufsize' = bufsize /\ alive' = alive
      /\ direction = "out" /\ Len(area) < bufsize
  BY StreambufAssumption DEF OutInv, OutTypes, SputcStores, Writing
<1>2. /\ area \in Seq(1..written) /\ taken \in [Streams -> Seq(1..written)]
      /\ given \in [Streams -> Seq(1..written)] /\ dropped \subseteq 1..written
  BY DEF OutInv, OutTypes
<1>3. w \in 1..w /\ \A q : q \in Seq(1..written) => q \in Seq(1..w)
  BY <1>1
<1>4. OutTypes'
  <2>1. area' \in Seq(1..w) /\ Len(area') <= bufsize
    <3>1. Append(area, w) \in Seq(1..w) /\ Len(Append(area, w)) = Len(area) + 1 /\ Len(area) \in Nat
      BY <1>2, <1>3, AppendProperties
    <3> QED BY <1>1, <3>1 DEF OutInv, OutTypes
  <2>2. taken \in [Streams -> Seq(1..w)]
    BY <1>2, <1>3
  <2>3. given' \in [Streams -> Seq(1..w)]
    <3>1. given \in [Streams -> Seq(1..w)]
      BY <1>2, <1>3
    <3>2. Append(given[stream], w) \in Seq(1..w)
      BY <1>1, <1>3, <3>1, AppendProperties
    <3> QED BY <1>1, <3>1, <3>2
  <2>4. dropped \subseteq 1..w
    BY <1>1, <1>2
  <2> QED BY <1>1, <2>1, <2>2, <2>3, <2>4 DEF OutInv, OutTypes
<1>5. (\E m \in 0..written : Behind(m))'
  <2>1. PICK m \in 0..written : Behind(m)
    BY DEF OutInv
  <2>2. m \in 0..w /\ Append(area, w) \in Seq(m + 1..w)
    <3>1. area \in Seq(m + 1..written)
      BY <2>1 DEF Behind
    <3>2. area \in Seq(m + 1..w) /\ w \in m + 1..w /\ m \in 0..w
      BY <1>1, <3>1
    <3> QED BY <3>2, AppendProperties
  <2>3. \A t \in Streams \ {stream} : given'[t] = given[t]
    BY <1>1, <1>2
  <2>4. Behind(m)'
    BY <1>1, <2>1, <2>2, <2>3 DEF Behind
  <2> QED BY <1>1, <2>2, <2>4
<1>6. OutputFidelity'
  <2> SUFFICES ASSUME NEW t \in Streams \ broken
               PROVE  taken[t] \o Pending(t)' = Selected(given'[t], Nat \ dropped)
    BY <1>1 DEF OutputFidelity
  <2>1. taken[t] \o Pending(t) = Selected(given[t], Nat \ dropped)
    BY DEF OutInv, OutputFidelity
  <2>2. CASE t = stream
    <3>1. Pending(t) = area /\ Pending(t)' = Append(area, w) /\ given'[t] = Append(given[t], w)
      BY <1>1, <1>2, <2>2 DEF Pending
    <3>2. w \in Nat \ dropped
      BY <1>1, <1>2
    <3>3. given[t] \in Seq(1..w) /\ taken[t] \in Seq(1..w) /\ area \in Seq(1..w)
      BY <1>2, <1>3
    <3>4. Selected(Append(given[t], w), Nat \ dropped) = Append(Selected(given[t], Nat \ dropped), w)
      <4> DEFINE g == given[t]
                 V == 1..w
                 T == Nat \ dropped
      <4>1. g \in Seq(V) /\ w \in V /\ w \in T
        BY <1>3, <3>2, <3>3
      <4> HIDE DEF w, g, V, T
      <4>2. Selected(Append(g, w), T) = Append(Selected(g, T), w)
        BY ONLY <4>1, SelectedAppend
      <4> QED BY <4>2 DEF g, T
    <3>5. taken[t] \o Append(area, w) = Append(taken[t] \o area, w)
      <4> DEFINE a == taken[t]
                 V == 1..w
      <4>1. a \in Seq(V) /\ area \in Seq(V) /\ w \in V
        BY <1>3, <3>3
      <4> HIDE DEF w, a, V
      <4>2. a \o Append(area, w) = Append(a \o area, w)
        BY ONLY <4>1, ConcatAppend
      <4> QED BY <4>2 DEF a
    <3> QED BY <2>1, <3>1, <3>4, <3>5
  <2>3. CASE t # stream
    BY <1>1, <1>2, <2>1, <2>3 DEF Pending
  <2> QED BY <2>2, <2>3
<1> QED BY <1>4, <1>5, <1>6 DEF OutInv

\* A step that fails: the stream of the area is broken, and whether the area stays or not no
\* other stream is concerned.
LEMMA FailureKeeps ==
    ASSUME OutInv, NEW s \in Seq(1..written), Take(s), area' \in {area, <<>>},
           broken' = broken \cup {stream}, written' \in 0..MaxChars, written <= written',
           given' = given, dropped' = dropped, stream' = stream, alive' \in BOOLEAN,
           direction = "out", direction' = direction, bufsize' = bufsize
    PROVE  OutInv'
<1> DEFINE w == written'
<1>1. /\ stream \in Streams /\ written \in Nat /\ w \in Nat /\ written <= w
      /\ area \in Seq(1..written) /\ given \in [Streams -> Seq(1..written)]
      /\ dropped \subseteq 1..written /\ broken \subseteq Streams /\ Len(area) <= bufsize
  BY StreambufAssumption DEF OutInv, OutTypes
<1> HIDE DEF w
<1>2. \A q : q \in Seq(1..written) => q \in Seq(1..w)
  BY <1>1
<1>3. /\ taken' \in [Streams -> Seq(1..w)]
      /\ \A t \in Streams \ {stream} : taken'[t] = taken[t]
  <2>1. OutTypes /\ s \in Seq(1..w)
    BY <1>2 DEF OutInv
  <2> QED BY <1>1, <2>1, TakeIs
<1>4. OutTypes'
  <2>1. area' \in Seq(1..w) /\ Len(area') <= bufsize
    <3>1. <<>> \in Seq(1..w) /\ (Len(<<>>) <= bufsize)
      BY StreambufAssumption DEF OutInv, OutTypes
    <3> QED BY <1>1, <1>2, <3>1
  <2>2. given \in [Streams -> Seq(1..w)] /\ dropped \subseteq 1..w
    BY <1>1, <1>2
  <2> QED BY <1>1, <1>3, <2>1, <2>2 DEF OutInv, OutTypes, w
<1>5. (\E m \in 0..written : Behind(m))'
  <2>1. PICK m \in 0..written : Behind(m)
    BY DEF OutInv
  <2>2. m \in 0..w /\ area' \in Seq(m + 1..w)
    <3>1. area \in Seq(m + 1..written)
      BY <2>1 DEF Behind
    <3>2. area \in Seq(m + 1..w) /\ m \in 0..w /\ <<>> \in Seq(m + 1..w)
      BY <1>1, <3>1
    <3> QED BY <3>2
  <2>3. Behind(m)'
    BY <2>1, <2>2 DEF Behind, w
  <2> QED BY <2>2, <2>3 DEF w
<1>6. OutputFidelity'
  <2> SUFFICES ASSUME NEW t \in Streams \ broken, t # stream
               PROVE  taken'[t] \o Pending(t)' = Selected(given[t], Nat \ dropped)
    BY DEF OutputFidelity
  <2>1. taken[t] \o Pending(t) = Selected(given[t], Nat \ dropped)
    BY DEF OutInv, OutputFidelity
  <2>2. Pending(t) = <<>> /\ Pending(t)' = <<>>
    BY DEF Pending
  <2> QED BY <1>3, <2>1, <2>2
<1> QED BY <1>4, <1>5, <1>6 DEF OutInv

\* A step that passes to the stream what is in the area and then s, of which the caller is
\* told: the characters written since.
LEMMA PassingKeeps ==
    ASSUME OutInv, alive, NEW s \in {<<>>, <<written + 1>>}, written' = written + Len(s),
           Take(area \o s), area' = <<>>, broken' = broken, written' \in 0..MaxChars,
           given' = [given EXCEPT ![stream] = @ \o s], dropped' = dropped, stream' = stream,
           alive' \in BOOLEAN, direction' = direction, bufsize' = bufsize
    PROVE  OutInv'
<1> DEFINE w == written'
<1>0. \/ s = <<>> /\ w = written
      \/ s = <<w>> /\ w = written + 1
  <2>1. Len(<<>>) = 0 /\ Len(<<written + 1>>) = 1 /\ written \in Nat
    BY StreambufAssumption DEF OutInv, OutTypes
  <2>2. CASE s = <<>>
    BY <2>1, <2>2
  <2>3. CASE s = <<written + 1>>
    <3>1. w = written + 1
      BY <2>1, <2>3
    <3> QED BY <2>3, <3>1
  <2> QED BY <2>2, <2>3
<1>1. /\ stream \in Streams /\ written \in Nat /\ w \in Nat /\ written <= w
      /\ area \in Seq(1..written) /\ given \in [Streams -> Seq(1..written)]
      /\ taken \in [Streams -> Seq(1..written)]
      /\ dropped \subseteq 1..written /\ broken \subseteq Streams
  BY <1>0, StreambufAssumption DEF OutInv, OutTypes
<1>2. s \in Seq(1..w) /\ \A i \in DOMAIN s : s[i] \in Nat \ dropped
  <2>1. CASE s = <<>>
    <3>1. <<>> \in Seq(1..w) /\ DOMAIN <<>> = {}
      OBVIOUS
    <3> QED BY <2>1, <3>1
  <2>2. CASE s = <<w>> /\ w = written + 1
    <3>1. w \in 1..w /\ w \in Nat \ dropped
      BY <1>1, <2>2
    <3> HIDE DEF w
    <3>2. <<w>> \in Seq(1..w) /\ \A i \in DOMAIN <<w>> : <<w>>[i] = w
      BY <3>1
    <3> QED BY <2>2, <3>1, <3>2
  <2> QED BY <1>0, <2>1, <2>2
<1> HIDE DEF w
<1>4. \A q : q \in Seq(1..written) => q \in Seq(1..w)
  BY <1>1
<1>5. /\ taken' \in [Streams -> Seq(1..w)]
      /\ \A t \in Streams \ {stream} : taken'[t] = taken[t]
      /\ stream \notin broken => taken'[stream] = taken[stream] \o (area \o s)
  <2>1. OutTypes /\ area \in Seq(1..w)
    BY <1>1, <1>4 DEF OutInv
  <2>2. area \o s \in Seq(1..w)
    BY <1>2, <2>1, ConcatProperties
  <2> QED BY <1>1, <2>1, <2>2, TakeIs
<1>6. /\ given' \in [Streams -> Seq(1..w)] /\ given'[stream] = given[stream] \o s
      /\ \A t \in Streams \ {stream} : given'[t] = given[t]
  <2>1. given \in [Streams -> Seq(1..w)]
    BY <1>1, <1>4
  <2>2. given[stream] \o s \in Seq(1..w)
    BY <1>1, <1>2, <2>1, ConcatProperties
  <2> QED BY <1>1, <2>1, <2>2
<1>7. OutTypes'
  <2>1. <<>> \in Seq(1..w) /\ Len(<<>>) <= bufsize
    BY StreambufAssumption DEF OutInv, OutTypes
  <2>2. dropped \subseteq 1..w
    BY <1>1
  <2> QED BY <1>5, <1>6, <2>1, <2>2 DEF OutInv, OutTypes, w
<1>8. (\E m \in 0..written : Behind(m))'
  <2>1. PICK m \in 0..written : Behind(m)
    BY DEF OutInv
  <2>2. \A t \in Streams \ {stream} : given'[t] \in Seq(1..w)
    BY <1>6
  <2>3. <<>> \in Seq(w + 1..w) /\ w \in 0..w /\ taken'[stream] \in Seq(1..w)
    BY <1>1, <1>5
  <2>4. area' \in Seq(w + 1..w) /\ stream' = stream
    BY <2>3
  <2> QED BY <2>2, <2>3, <2>4 DEF Behind, w
<1>9. OutputFidelity'
  <2> SUFFICES ASSUME NEW t \in Streams \ broken
               PROVE  taken'[t] \o Pending(t)' = Selected(given'[t], Nat \ dropped)
    BY DEF OutputFidelity
  <2>1. taken[t] \o Pending(t) = Selected(given[t], Nat \ dropped)
    BY DEF OutInv, OutputFidelity
  <2>2. Pending(t)' = <<>>
    BY DEF Pending
  <2>3. CASE t = stream
    <3> DEFINE T == Nat \ dropped
               V == 1..w
               b == taken[t]
               g == given[t]
    <3>1. Pending(t) = area
      BY <2>3 DEF Pending
    <3>2. b \in Seq(V) /\ g \in Seq(V) /\ area \in Seq(V) /\ s \in Seq(V) /\ \A i \in DOMAIN s : s[i] \in T
      BY <1>1, <1>2, <1>4
    <3>3. b \o area = Selected(g, T) /\ taken'[t] = b \o (area \o s) /\ given'[t] = g \o s
      BY <1>5, <1>6, <2>1, <2>3, <3>1
    <3> HIDE DEF T, V, b, g
    <3>4. Selected(g \o s, T) = Selected(g, T) \o Selected(s, T)
      BY ONLY <3>2, SelectedConcat
    <3>5. Selected(s, T) = s
      BY ONLY <3>2, SelectedAll
    <3>6. (b \o area) \o s = b \o (area \o s)
      BY ONLY <3>2, ConcatAssociative
    <3>7. b \o (area \o s) \in Seq(V)
      BY ONLY <3>2
    <3>8. (b \o (area \o s)) \o <<>> = b \o (area \o s)
      BY ONLY <3>7
    <3>9. taken'[t] \o <<>> = Selected(given'[t], T)
      BY ONLY <3>3, <3>4, <3>5, <3>6, <3>8, Zenon
    <3> QED BY <2>2, <3>9 DEF T
  <2>4. CASE t # stream
    <3>1. Pending(t) = <<>>
      BY <2>4 DEF Pending
    <3> QED BY <1>5, <1>6, <2>1, <2>2, <2>4, <3>1
  <2> QED BY <2>3, <2>4
<1> QED BY <1>7, <1>8, <1>9 DEF OutInv

\* attach: the area is dropped, and the stream that follows starts behind nothing.
LEMMA AttachKeeps ==
    ASSUME OutInv, AttachStream
    PROVE  OutInv'
<1> DEFINE A == ToSet(area)
<1>1. /\ stream \in Streams /\ written \in Nat /\ alive
      /\ area \in Seq(1..written) /\ given \in [Streams -> Seq(1..written)]
      /\ taken \in [Streams -> Seq(1..written)]
      /\ dropped \subseteq 1..written /\ broken \subseteq Streams
  BY StreambufAssumption DEF OutInv, OutTypes, AttachStream, Writing
<1>2. /\ stream' \in Streams /\ dropped' = dropped \cup A /\ area' = <<>>
      /\ direction' = direction /\ bufsize' = bufsize /\ alive' = alive /\ taken' = taken
      /\ broken' = broken /\ given' = given /\ written' = written
  BY DEF AttachStream
<1>3. A = {area[i] : i \in DOMAIN area}
  BY DEF ToSet
<1>4. <<>> \in Seq(1..written) /\ Len(<<>>) = 0
  OBVIOUS
<1>5. OutTypes'
  <2>1. A \subseteq 1..written
    <3>1. \A i \in DOMAIN area : area[i] \in 1..written
      BY <1>1
    <3> QED BY <1>3, <3>1
  <2>2. 0 <= bufsize
    BY StreambufAssumption DEF OutInv, OutTypes
  <2> HIDE DEF A
  <2> QED BY <1>1, <1>2, <1>4, <2>1, <2>2 DEF OutInv, OutTypes
<1>6. (\E m \in 0..written : Behind(m))'
  <2>1. written \in 0..written /\ <<>> \in Seq(written + 1..written)
    BY <1>1
  <2> QED BY <1>1, <1>2, <2>1 DEF Behind
<1>7. OutputFidelity'
  <2> SUFFICES ASSUME NEW t \in Streams \ broken
               PROVE  taken[t] \o Pending(t)' = Selected(given[t], Nat \ (dropped \cup A))
    BY <1>2 DEF OutputFidelity
  <2> DEFINE T == Nat \ dropped
  <2>1. taken[t] \o Pending(t) = Selected(given[t], T)
    BY DEF OutInv, OutputFidelity
  <2>2. Pending(t)' = <<>>
    BY <1>2 DEF Pending
  <2>3. taken[t] \o <<>> = taken[t]
    BY <1>1
  <2>4. PICK m \in 0..written : Behind(m)
    BY DEF OutInv
  <2>5. \A x \in 1..m : x \notin A
    <3>1. area \in Seq(m + 1..written)
      BY <2>4 DEF Behind
    <3>2. \A i \in DOMAIN area : area[i] \in m + 1..written
      <4> DEFINE V == m + 1..written
      <4>1. area \in Seq(V)
        BY <3>1
      <4> HIDE DEF V
      <4>2. \A i \in DOMAIN area : area[i] \in V
        BY ONLY <4>1
      <4> QED BY <4>2 DEF V
    <3> QED BY <1>1, <1>3, <3>2
  <2>6. Nat \ (dropped \cup A) = T \ A
    OBVIOUS
  <2>7. CASE t = stream
    <3>1. Pending(t) = area
      BY <1>1, <2>7 DEF Pending
    <3> DEFINE p == taken[t]
               g == given[t]
               S == 1..written
               M == 1..m
    <3>2. p \in Seq(M) /\ M \subseteq S /\ area \in Seq(S) /\ area \in Seq(A) /\ g \in Seq(S) /\ A \subseteq S
      <4>1. p \in Seq(M)
        BY <2>4, <2>7 DEF Behind
      <4>2. M \subseteq S
        BY <1>1
      <4>3. \A i \in DOMAIN area : area[i] \in A
        BY <1>3
      <4>4. area \in Seq(A)
        <5> HIDE DEF A
        <5> QED BY <1>1, <4>3
      <4>5. A \subseteq S
        BY <1>1, <1>3
      <4> QED BY <1>1, <4>1, <4>2, <4>4, <4>5
    <3>3. Selected(g, T) = p \o area
      BY <2>1, <3>1
    <3>4. p \in Seq(M \cap T)
      <4> HIDE DEF p, g, S, T, A, M
      <4>1. p \in Seq(S) /\ p \o area = Selected(g, T) /\ g \in Seq(S)
        BY <3>2, <3>3
      <4>2. \A i \in DOMAIN Selected(g, T) : Selected(g, T)[i] \in T
        BY ONLY <4>1, SelectedOnly
      <4>3. ASSUME NEW i \in DOMAIN p PROVE p[i] \in T
        <5>1. i \in DOMAIN (p \o area) /\ (p \o area)[i] = p[i]
          BY <3>2, <4>1
        <5> QED BY <4>1, <4>2, <5>1
      <4> QED BY <3>2, <4>3
    <3>5. Selected(g, T \ A) = p
      <4> DEFINE L == M \cap T
                 U == T \ A
      <4>1. /\ L \subseteq S /\ L \subseteq U /\ U \subseteq T
            /\ A \subseteq S /\ \A x \in A : x \notin U
        BY <2>5, <3>2
      <4>2. p \in Seq(L)
        BY <3>4
      <4> HIDE DEF p, g, S, T, A, M, L, U
      <4>3. Selected(g, U) = p
        BY ONLY <3>2, <3>3, <4>1, <4>2, SelectedDropped
      <4> QED BY <4>3 DEF U
    <3> QED BY <2>2, <2>3, <2>6, <3>5
  <2>8. CASE t # stream
    <3>1. Pending(t) = <<>>
      BY <2>8 DEF Pending
    <3> DEFINE g == given[t]
               M == 1..m
               U == T \ A
    <3>2. g \in Seq(M) /\ \A x \in M : x \in U <=> x \in T
      BY <2>4, <2>5, <2>8 DEF Behind
    <3> HIDE DEF g, M, T, A, U
    <3>3. Selected(g, U) = Selected(g, T)
      BY ONLY <3>2, SelectedSame
    <3> QED BY <2>1, <2>2, <2>6, <3>1, <3>3 DEF g, U
  <2> QED BY <2>7, <2>8
<1> QED BY <1>5, <1>6, <1>7 DEF OutInv

\* Where nothing of the writing side changes but alive, with an empty area.
LEMMA OutSame ==
    ASSUME OutInv, stream' = stream, area' = area, taken' = taken, broken' = broken, given' = given,
           dropped' = dropped, written' = written, direction' = direction,
           bufsize' \in {0, BufSize}, bufsize' = bufsize \/ area = <<>>,
           alive' \in BOOLEAN, alive' = alive \/ area = <<>>
    PROVE  OutInv'
<1>1. OutTypes'
  <2>1. Len(area) <= bufsize'
    <3>1. Len(<<>>) <= bufsize'
      BY StreambufAssumption
    <3> QED BY <3>1 DEF OutInv, OutTypes
  <2> QED BY <2>1 DEF OutInv, OutTypes
<1>2. (\E m \in 0..written : Behind(m))'
  BY DEF OutInv, Behind
<1>3. OutputFidelity'
  <2>1. \A t : Pending(t)' = Pending(t)
    BY DEF Pending
  <2> QED BY <2>1 DEF OutInv, OutputFidelity
<1> QED BY <1>1, <1>2, <1>3 DEF OutInv

\* overflow(EOF), from wherever it is called.
LEMMA OverflowEOFKeeps ==
    ASSUME OutInv, OverflowEOF, direction = "out", alive, alive' \in BOOLEAN,
           UNCHANGED <<direction, bufsize, stream, given, dropped, written>>
    PROVE  OutInv'
<1>1. area \in Seq(1..written) /\ written \in 0..MaxChars /\ written \in Nat /\ given \in [Streams -> Seq(1..written)]
  BY StreambufAssumption DEF OutInv, OutTypes
<1>2. CASE PutStr(area) /\ area' = <<>>
  <2>1. area \o <<>> = area /\ Len(<<>>) = 0 /\ written + 0 = written
    BY <1>1
  <2>2. Take(area \o <<>>) /\ broken' = broken
    BY <1>2, <2>1 DEF PutStr
  <2>3. given' = [given EXCEPT ![stream] = @ \o <<>>]
    <3>1. stream \in Streams
      BY DEF OutInv, OutTypes
    <3>2. given[stream] \o <<>> = given[stream]
      BY <1>1, <3>1
    <3> QED BY <1>1, <3>2
  <2>4. <<>> \in {<<>>, <<written + 1>>}
    OBVIOUS
  <2> QED BY <1>1, <1>2, <2>1, <2>2, <2>3, <2>4, PassingKeeps
<1>3. CASE PutStrFails(area) /\ area' = area
  <2>1. PICK k \in 0..Len(area) : Take(SubSeq(area, 1, k))
    BY <1>3 DEF PutStrFails
  <2>2. SubSeq(area, 1, k) \in Seq(1..written)
    <3>1. k \in Nat /\ k <= Len(area)
      BY <1>1
    <3> QED BY <1>1, <3>1, FirstOfSeq
  <2>3. broken' = broken \cup {stream}
    BY <1>3 DEF PutStrFails
  <2> DEFINE z == SubSeq(area, 1, k)
  <2>4. z \in Seq(1..written) /\ Take(z)
    BY <2>1, <2>2
  <2> HIDE DEF z
  <2>5. area' \in {area, <<>>} /\ written <= written'
    BY <1>1, <1>3
  <2> QED BY <1>1, <2>3, <2>4, <2>5, FailureKeeps
<1> QED BY <1>2, <1>3 DEF OverflowEOF

LEMMA OverflowKeeps ==
    ASSUME OutInv, Overflow
    PROVE  OutInv'
<1>1. /\ area \in Seq(1..written) /\ written \in Nat /\ written + 1 \in 0..MaxChars
      /\ alive /\ direction = "out" /\ alive \in BOOLEAN
      /\ written' = written + 1 /\ direction' = direction /\ bufsize' = bufsize /\ alive' = alive
      /\ stream' = stream /\ dropped' = dropped
  BY StreambufAssumption DEF OutInv, OutTypes, Overflow, Writing
<1>2. CASE /\ PutStr(Append(area, written + 1)) /\ area' = <<>>
           /\ given' = [given EXCEPT ![stream] = Append(@, written + 1)]
  <2> DEFINE w == written + 1
             s == <<w>>
  <2>1. \A q : q \in Seq(1..written) => Append(q, w) = q \o s
    <3>1. \A q \in Seq(Nat) : Append(q, w) = q \o <<w>>
      <4>1. w \in Nat
        BY <1>1
      <4> HIDE DEF w
      <4> QED BY <4>1
    <3>2. \A q : q \in Seq(1..written) => q \in Seq(Nat)
      BY <1>1
    <3> QED BY <3>1, <3>2
  <2>2. Take(area \o s) /\ broken' = broken
    BY <1>1, <1>2, <2>1 DEF PutStr
  <2>3. given' = [given EXCEPT ![stream] = @ \o s]
    <3>1. stream \in Streams /\ given[stream] \in Seq(1..written)
      BY DEF OutInv, OutTypes
    <3>2. Append(given[stream], w) = given[stream] \o s
      BY <2>1, <3>1
    <3> QED BY <1>2, <3>2
  <2>4. s \in {<<>>, <<written + 1>>} /\ Len(s) = 1
    OBVIOUS
  <2>5. written' = written + Len(s) /\ written' \in 0..MaxChars /\ alive' \in BOOLEAN
    BY <1>1, <2>4
  <2> HIDE DEF s
  <2> QED BY <1>1, <1>2, <2>2, <2>3, <2>4, <2>5, PassingKeeps
<1>3. CASE PutStrFails(area) /\ area' = area /\ given' = given
  <2>1. PICK k \in 0..Len(area) : Take(SubSeq(area, 1, k))
    BY <1>3 DEF PutStrFails
  <2>2. SubSeq(area, 1, k) \in Seq(1..written)
    <3>1. k \in Nat /\ k <= Len(area)
      BY <1>1
    <3> QED BY <1>1, <3>1, FirstOfSeq
  <2>3. broken' = broken \cup {stream}
    BY <1>3 DEF PutStrFails
  <2> DEFINE z == SubSeq(area, 1, k)
  <2>4. z \in Seq(1..written) /\ Take(z)
    BY <2>1, <2>2
  <2> HIDE DEF z
  <2>5. area' \in {area, <<>>} /\ written <= written' /\ written' \in 0..MaxChars /\ alive' \in BOOLEAN
    BY <1>1, <1>3
  <2> QED BY <1>1, <1>3, <2>3, <2>4, <2>5, FailureKeeps
<1>4. CASE Take(area) /\ broken' = broken \cup {stream} /\ area' = <<>> /\ given' = given
  <2>1. area' \in {area, <<>>} /\ written <= written' /\ written' \in 0..MaxChars /\ alive' \in BOOLEAN
    BY <1>1, <1>4
  <2> QED BY <1>1, <1>4, <2>1, FailureKeeps
<1> QED BY <1>2, <1>3, <1>4 DEF Overflow

\* Every step keeps the writing side's invariant.
LEMMA OutStep ==
    ASSUME OutInv, [StreambufNext]_streambufVars
    PROVE  OutInv'
<1>1. ASSUME SputcStores PROVE OutInv'
  BY <1>1, SputcKeeps
<1>2. ASSUME Overflow PROVE OutInv'
  BY <1>2, OverflowKeeps
<1>3. ASSUME Sync PROVE OutInv'
  <2>1. /\ direction = "out" /\ alive /\ alive' = alive /\ alive' \in BOOLEAN
        /\ UNCHANGED <<direction, bufsize, stream, given, dropped, written>>
    BY <1>3 DEF Sync, Writing, OutInv, OutTypes
  <2>2. CASE OverflowEOF
    BY <2>1, <2>2, OverflowEOFKeeps
  <2>3. CASE Take(area) /\ area' = <<>> /\ broken' = broken \cup {stream}
    <3>1. /\ area \in Seq(1..written) /\ written' \in 0..MaxChars /\ written <= written'
          /\ area' \in {area, <<>>}
      BY <2>1, <2>3, StreambufAssumption DEF OutInv, OutTypes
    <3> QED BY <2>1, <2>3, <3>1, FailureKeeps
  <2> QED BY <1>3, <2>2, <2>3 DEF Sync
<1>4. ASSUME AttachStream PROVE OutInv'
  BY <1>4, AttachKeeps
<1>5. ASSUME DestroyBuffer PROVE OutInv'
  <2>1. CASE direction = "out"
    <3>1. /\ OverflowEOF /\ alive /\ alive' \in BOOLEAN
          /\ UNCHANGED <<direction, bufsize, stream, given, dropped, written>>
      BY <1>5, <2>1 DEF DestroyBuffer
    <3> QED BY <2>1, <3>1, OverflowEOFKeeps
  <2>2. CASE direction # "out"
    <3>1. /\ area = <<>> /\ bufsize' \in {0, BufSize} /\ alive' \in BOOLEAN
          /\ UNCHANGED <<direction, bufsize, put>>
      BY <1>5, <2>2 DEF DestroyBuffer, OutInv, OutTypes, put
    <3> QED BY <3>1, OutSame DEF put
  <2> QED BY <2>1, <2>2
<1>6. ASSUME SetBuf PROVE OutInv'
  <2>1. area = <<>>
    BY <1>6 DEF SetBuf, OutInv, OutTypes
  <2>2. /\ area' = area /\ bufsize' \in {0, BufSize} /\ alive' \in BOOLEAN
        /\ UNCHANGED <<direction, stream, taken, broken, given, dropped, written>>
    BY <1>6, <2>1 DEF SetBuf, OutInv, OutTypes
  <2> QED BY <2>1, <2>2, OutSame
<1>7. ASSUME Get \/ Stopped \/ UNCHANGED streambufVars PROVE OutInv'
  <2>1. /\ UNCHANGED <<direction, bufsize, alive, put>>
    BY <1>7 DEF Get, Peek, Bump, GetDirect, Unget, Stopped, streambufVars
  <2>2. bufsize' \in {0, BufSize} /\ alive' \in BOOLEAN
    BY <2>1 DEF OutInv, OutTypes
  <2> QED BY <2>1, <2>2, OutSame DEF put
<1> QED BY <1>1, <1>2, <1>3, <1>4, <1>5, <1>6, <1>7 DEF StreambufNext, Put

\* A stream without an error holds, with the put area, what its caller was told was written
\* and nothing else, except for what attach dropped (fcgi_streambuf of libfcgi/fcgio.cpp).
THEOREM OutputKept == StreambufSpec => []OutputFidelity
<1>1. OutInv /\ [StreambufNext]_streambufVars => OutInv'
  BY OutStep
<1>2. OutInv => OutputFidelity
  BY DEF OutInv
<1> QED BY <1>1, <1>2, OutInit, PTL DEF StreambufSpec

-----------------------------------------------------------------------------
(* Reading through a fcgi_streambuf, where nobody reads on after the end.  *)

\* A caller that was given the first characters of the stream, in order.
FromFirst(s) == s = [i \in DOMAIN s |-> i]

LEMMA FromFirstAppend ==
    ASSUME NEW s \in Seq(Nat), FromFirst(s), NEW x, x = Len(s) + 1
    PROVE  /\ Append(s, x) \in Seq(Nat) /\ Len(Append(s, x)) = Len(s) + 1
           /\ FromFirst(Append(s, x))
<1> DEFINE t == Append(s, x)
<1>1. /\ t \in Seq(Nat) /\ Len(t) = Len(s) + 1 /\ Len(s) \in Nat
      /\ DOMAIN t = 1..Len(s) + 1 /\ DOMAIN s = 1..Len(s)
      /\ t[Len(s) + 1] = x /\ \A i \in 1..Len(s) : t[i] = s[i]
  <2>1. x \in Nat
    OBVIOUS
  <2> QED BY <2>1, AppendProperties
<1>2. \A i \in 1..Len(s) : s[i] = i
  BY <1>1 DEF FromFirst
<1> HIDE DEF t
<1>3. \A i \in 1..Len(s) + 1 : t[i] = i
  BY <1>1, <1>2
<1>4. t = [i \in DOMAIN t |-> i]
  BY <1>1, <1>3
<1> QED BY <1>1, <1>4 DEF FromFirst, t

LEMMA FromFirstConcat ==
    ASSUME NEW s \in Seq(Nat), FromFirst(s), NEW k \in Nat
    PROVE  /\ s \o [i \in 1..k |-> Len(s) + i] \in Seq(Nat)
           /\ Len(s \o [i \in 1..k |-> Len(s) + i]) = Len(s) + k
           /\ FromFirst(s \o [i \in 1..k |-> Len(s) + i])
<1> DEFINE r == [i \in 1..k |-> Len(s) + i]
           t == s \o r
<1>1. r \in Seq(Nat) /\ Len(r) = k /\ \A i \in 1..k : r[i] = Len(s) + i
  OBVIOUS
<1> HIDE DEF r
<1>2. /\ t \in Seq(Nat) /\ Len(t) = Len(s) + k /\ Len(s) \in Nat /\ DOMAIN t = 1..Len(s) + k
      /\ \A i \in 1..Len(s) + k : t[i] = IF i <= Len(s) THEN s[i] ELSE r[i - Len(s)]
  <2>1. /\ s \o r \in Seq(Nat) /\ Len(s \o r) = Len(s) + Len(r) /\ Len(s) \in Nat
        /\ \A i \in 1..Len(s) + Len(r) : (s \o r)[i] = IF i <= Len(s) THEN s[i] ELSE r[i - Len(s)]
    <3>1. s \in Seq(Nat) /\ r \in Seq(Nat)
      BY <1>1
    <3> QED BY ONLY <3>1, ConcatProperties
  <2> QED BY <1>1, <2>1
<1> HIDE DEF t
<1>3. \A i \in 1..Len(s) : s[i] = i
  BY DEF FromFirst
<1>4. ASSUME NEW i \in 1..Len(s) + k PROVE t[i] = i
  <2>1. CASE i <= Len(s)
    BY <1>2, <1>3, <2>1
  <2>2. CASE ~(i <= Len(s))
    <3>1. i - Len(s) \in 1..k /\ Len(s) + (i - Len(s)) = i
      BY <1>2, <2>2
    <3>2. t[i] = r[i - Len(s)]
      BY <1>2, <2>2
    <3> QED BY <1>1, <3>1, <3>2
  <2> QED BY <2>1, <2>2
<1>5. t = [i \in DOMAIN t |-> i]
  BY <1>2, <1>4
<1> QED BY <1>2, <1>5 DEF FromFirst, t, r

LEMMA FromFirstFront ==
    ASSUME NEW s \in Seq(Nat), FromFirst(s), Len(s) > 0
    PROVE  /\ Front(s) \in Seq(Nat) /\ Len(Front(s)) = Len(s) - 1
           /\ FromFirst(Front(s))
<1> DEFINE a == Len(s) - 1
           t == SubSeq(s, 1, a)
<1>1. a \in Nat /\ a <= Len(s)
  OBVIOUS
<1>2. Front(s) = t
  BY DEF Front
<1> HIDE DEF a
<1>3. t \in Seq(Nat) /\ Len(t) = a /\ DOMAIN t = 1..a /\ \A i \in 1..a : t[i] = s[i]
  BY <1>1, FirstOfSeq
<1>4. \A i \in 1..a : s[i] = i
  BY <1>1 DEF FromFirst
<1> HIDE DEF t
<1>5. t = [i \in DOMAIN t |-> i]
  BY <1>3, <1>4
<1> QED BY <1>2, <1>3, <1>5 DEF FromFirst, a

\* What the reading side keeps: its types, and what the get area holds of the stream.  The
\* caller is as far as the stream, less what is left in the area; behind an end of file at
\* which it failed, it is at the end of the stream.
InTypes ==
    /\ input \in 0..MaxChars /\ pos \in 0..input
    /\ hold \in Seq(Nat) /\ Len(hold) = bufsize
    /\ egptr \in 0..bufsize
    /\ gptr \in 0..(IF state = "fail" THEN egptr + 1 ELSE egptr)
    /\ delivered \in Seq(Nat) /\ seen \in Nat
    /\ state \in {"good", "eof", "fail"}

GetArea ==
    /\ egptr <= pos
    /\ \A i \in 1..egptr : hold[i] = (pos - egptr) + i
    /\ state # "fail" => Len(delivered) + egptr = pos + gptr
    /\ state = "fail" => Len(delivered) = input
    /\ bufsize = 0 => seen = 0

InInv == InTypes /\ GetArea /\ InputFidelity

LEMMA InInit == StreambufInit => InInv
<1> SUFFICES ASSUME StreambufInit PROVE InInv
  OBVIOUS
<1>1. /\ bufsize \in Nat /\ input \in 0..MaxChars /\ MaxChars \in Nat
      /\ pos = 0 /\ hold = [i \in 1..bufsize |-> 0] /\ gptr = 0 /\ egptr = 0
      /\ delivered = <<>> /\ seen = 0 /\ state = "good"
  BY StreambufAssumption DEF StreambufInit
<1>2. <<>> \in Seq(Nat) /\ Len(<<>>) = 0 /\ <<>> = [i \in DOMAIN <<>> |-> i]
  OBVIOUS
<1>3. InTypes
  <2>1. hold \in Seq(Nat) /\ Len(hold) = bufsize
    BY <1>1
  <2> QED BY <1>1, <1>2, <2>1 DEF InTypes
<1>4. GetArea /\ InputFidelity
  BY <1>1, <1>2 DEF GetArea, InputFidelity
<1> QED BY <1>3, <1>4 DEF InInv

\* The widths that the steps speak of.
LEMMA InNumbers ==
    ASSUME InInv, OutTypes
    PROVE  /\ input \in Nat /\ pos \in Nat /\ pos <= input /\ bufsize \in Nat /\ egptr \in Nat /\ gptr \in Nat
           /\ egptr <= bufsize /\ BufSize \in Nat \ {0} /\ bufsize \in {0, BufSize} /\ MaxChars \in Nat
           /\ Len(delivered) \in Nat /\ egptr <= pos
           /\ state # "fail" => gptr <= egptr /\ Len(delivered) + egptr = pos + gptr
           /\ Smaller(bufsize, input - pos) = IF bufsize < input - pos THEN bufsize ELSE input - pos
           /\ FromFirst(delivered) /\ delivered \in Seq(Nat)
<1>1. bufsize \in {0, BufSize} /\ BufSize \in Nat \ {0} /\ MaxChars \in Nat
  BY StreambufAssumption DEF OutTypes
<1>2. InTypes /\ GetArea /\ InputFidelity
  BY DEF InInv
<1>3. bufsize \in Nat /\ input \in Nat /\ pos \in Nat /\ pos <= input
  BY <1>1, <1>2 DEF InTypes
<1>4. egptr \in Nat /\ egptr <= bufsize /\ egptr <= pos
  BY <1>1, <1>2, <1>3 DEF InTypes, GetArea
<1>5. gptr \in Nat /\ (state # "fail" => gptr <= egptr)
  BY <1>2, <1>4 DEF InTypes
<1>6. state # "fail" => Len(delivered) + egptr = pos + gptr
  BY <1>2 DEF GetArea
<1>7. FromFirst(delivered) /\ delivered \in Seq(Nat) /\ Len(delivered) \in Nat
  BY <1>2 DEF InTypes, InputFidelity, FromFirst
<1>8. Smaller(bufsize, input - pos) = IF bufsize < input - pos THEN bufsize ELSE input - pos
  BY DEF Smaller
<1> QED BY <1>1, <1>3, <1>4, <1>5, <1>6, <1>7, <1>8

\* Those of them that place the get area.
LEMMA InWidths ==
    ASSUME InInv, OutTypes
    PROVE  /\ input \in Nat /\ pos \in Nat /\ bufsize \in Nat /\ egptr \in Nat /\ gptr \in Nat
           /\ pos <= input /\ egptr <= bufsize
BY InNumbers

\* The character behind gptr is the one that follows those delivered.
LEMMA CharAtGptr ==
    ASSUME InInv, OutTypes, state # "fail", gptr # egptr
    PROVE  CharAt(gptr) = Len(delivered) + 1 /\ gptr < egptr
<1>1. gptr < egptr /\ gptr + 1 \in 1..egptr /\ gptr < Len(hold)
  BY InNumbers DEF InInv, InTypes
<1>2. hold[gptr + 1] = (pos - egptr) + (gptr + 1)
  BY <1>1 DEF InInv, GetArea
<1>3. hold[gptr + 1] = Len(delivered) + 1
  <2>1. /\ pos \in Nat /\ egptr \in Nat /\ gptr \in Nat /\ Len(delivered) \in Nat
        /\ Len(delivered) + egptr = pos + gptr
    BY InNumbers
  <2> QED BY ONLY <1>2, <2>1
<1> QED BY <1>1, <1>3 DEF CharAt

\* What FCGX_GetStr leaves in the buffer.
LEMMA FillIs ==
    ASSUME InInv, OutTypes, Fill
    PROVE  /\ pos' \in Nat /\ pos' <= input /\ egptr' \in Nat \ {0} /\ egptr' <= bufsize /\ pos' = pos + egptr'
           /\ hold' \in Seq(Nat) /\ Len(hold') = bufsize /\ bufsize # 0
           /\ \A i \in 1..egptr' : hold'[i] = pos + i
<1> DEFINE g == Smaller(bufsize, input - pos)
           h == [i \in 1..g |-> pos + i]
           z == SubSeq(hold, g + 1, Len(hold))
<1>1. g \in Nat /\ g > 0 /\ g <= bufsize /\ g <= input - pos
  BY InNumbers DEF Fill
<1>2. pos' = pos + g /\ egptr' = g /\ hold' = h \o z /\ hold \in Seq(Nat) /\ Len(hold) = bufsize
  BY DEF Fill, InInv, InTypes
<1> HIDE DEF g
<1>3. h \in Seq(Nat) /\ Len(h) = g /\ \A i \in 1..g : h[i] = pos + i
  BY <1>1, InNumbers
<1>4. z \in Seq(Nat) /\ Len(z) = bufsize - g
  <2> DEFINE b == Len(hold)
  <2>1. b \in Nat /\ b <= Len(hold) /\ b = bufsize /\ g <= b
    BY <1>1, <1>2, InNumbers
  <2> HIDE DEF b
  <2>2. /\ SubSeq(hold, g + 1, b) \in Seq(Nat)
        /\ Len(SubSeq(hold, g + 1, b)) = IF g <= b THEN b - g ELSE 0
    BY <1>1, <1>2, <2>1, PartOfSeq
  <2> QED BY <2>1, <2>2 DEF b
<1> HIDE DEF h, z
<1>5. /\ h \o z \in Seq(Nat) /\ Len(h \o z) = bufsize
      /\ \A i \in 1..g : (h \o z)[i] = h[i]
  <2>1. /\ h \o z \in Seq(Nat) /\ Len(h \o z) = Len(h) + Len(z)
        /\ \A i \in 1..Len(h) + Len(z) : (h \o z)[i] = IF i <= Len(h) THEN h[i] ELSE z[i - Len(h)]
    BY <1>3, <1>4, ConcatProperties
  <2>2. bufsize \in Nat /\ g \in Nat /\ g <= bufsize /\ Len(h) = g /\ Len(z) = bufsize - g
    BY <1>1, <1>3, <1>4, InNumbers
  <2> HIDE DEF g, h, z
  <2>3. Len(h) + Len(z) = bufsize
    BY ONLY <2>2
  <2> QED BY ONLY <2>1, <2>2, <2>3
<1>6. pos' \in Nat /\ pos' <= input /\ egptr' \in Nat \ {0} /\ egptr' <= bufsize /\ pos' = pos + egptr' /\ bufsize # 0
  <2>1. /\ g \in Nat /\ g > 0 /\ g <= bufsize /\ g <= input - pos
        /\ pos' = pos + g /\ egptr' = g
    BY <1>1, <1>2
  <2>2. input \in Nat /\ pos \in Nat /\ bufsize \in Nat
    BY InWidths
  <2> QED BY ONLY <2>1, <2>2
<1>7. hold' \in Seq(Nat) /\ Len(hold') = bufsize
  BY <1>2, <1>5
<1>8. \A i \in 1..egptr' : hold'[i] = pos + i
  BY <1>2, <1>3, <1>5
<1> QED BY <1>6, <1>7, <1>8

LEMMA PeekKeeps ==
    ASSUME InInv, OutTypes, Peek, ~Retries
    PROVE  InInv'
<1>1. /\ state = "good" /\ bufsize' = bufsize /\ input' = input /\ delivered' = delivered
      /\ bufsize # 0 /\ MaxChars \in Nat /\ input \in 0..MaxChars
  BY InNumbers DEF Peek, Reading, InInv, InTypes
<1>2. CASE /\ ~FillsArea /\ seen' = CharAt(gptr) /\ state' = "good"
           /\ UNCHANGED <<pos, hold, gptr, egptr>>
  <2>1. CharAt(gptr) = Len(delivered) + 1
    BY <1>1, <1>2, CharAtGptr DEF FillsArea
  <2>2. InTypes'
    BY <1>1, <1>2, <2>1, InNumbers DEF InInv, InTypes
  <2>3. GetArea'
    BY <1>1, <1>2 DEF InInv, GetArea
  <2>4. InputFidelity'
    BY <1>1, <1>2, <2>1, InNumbers DEF InInv, InputFidelity
  <2> QED BY <2>2, <2>3, <2>4 DEF InInv
<1>3. CASE FillsArea /\ Fill /\ gptr' = 0 /\ seen' = pos + 1 /\ state' = "good"
  <2>1. /\ pos' \in Nat /\ pos' <= input /\ egptr' \in Nat \ {0} /\ egptr' <= bufsize /\ pos' = pos + egptr'
        /\ hold' \in Seq(Nat) /\ Len(hold') = bufsize
        /\ \A i \in 1..egptr' : hold'[i] = pos + i
    BY <1>3, FillIs
  <2>2. Len(delivered) = pos
    BY <1>1, <1>3, InNumbers DEF FillsArea
  <2>3. InTypes'
    <3>1. pos' \in 0..input' /\ egptr' \in 0..bufsize' /\ seen' \in Nat /\ gptr' \in 0..egptr'
      BY <1>1, <1>3, <2>1, InWidths
    <3> QED BY <1>1, <1>3, <2>1, <3>1 DEF InInv, InTypes
  <2>4. GetArea'
    <3>1. pos' - egptr' = pos
      BY <2>1, InWidths
    <3>2. \A i \in 1..egptr' : hold'[i] = (pos' - egptr') + i
      BY <2>1, <3>1
    <3>3. egptr' <= pos' /\ Len(delivered) + egptr' = pos' + gptr'
      <4>1. pos \in Nat /\ gptr' = 0 /\ pos' \in Nat /\ egptr' \in Nat /\ pos' = pos + egptr'
        BY <1>3, <2>1, InNumbers
      <4>2. \A a, e \in Nat : e <= a + e /\ a + e = (a + e) + 0
        OBVIOUS
      <4> QED BY ONLY <2>2, <4>1, <4>2
    <3> QED BY <1>1, <1>3, <3>2, <3>3 DEF GetArea
  <2>5. InputFidelity'
    BY <1>1, <1>3, <2>2, InNumbers DEF InInv, InputFidelity
  <2> QED BY <2>3, <2>4, <2>5 DEF InInv
<1>4. CASE /\ FillsArea /\ pos = input /\ state' = "eof" /\ seen' = 0
           /\ UNCHANGED <<pos, hold, gptr, egptr>>
  <2>1. Len(delivered) = input
    BY <1>1, <1>4, InNumbers DEF FillsArea
  <2>2. InTypes'
    BY <1>1, <1>4 DEF InInv, InTypes
  <2>3. GetArea'
    BY <1>1, <1>4 DEF InInv, GetArea
  <2>4. InputFidelity'
    BY <1>1, <1>4, <2>1 DEF InInv, InputFidelity
  <2> QED BY <2>2, <2>3, <2>4 DEF InInv
<1> QED BY <1>2, <1>3, <1>4 DEF Peek

LEMMA BumpKeeps ==
    ASSUME InInv, OutTypes, Bump, ~Retries
    PROVE  InInv'
<1>1. /\ state = "good" /\ bufsize' = bufsize /\ input' = input /\ seen' = 0
      /\ bufsize # 0 /\ MaxChars \in Nat /\ input \in 0..MaxChars
  BY InNumbers DEF Bump, Reading, InInv, InTypes
<1>2. ASSUME NEW x, x = Len(delivered) + 1, delivered' = Append(delivered, x)
      PROVE  /\ delivered' \in Seq(Nat) /\ Len(delivered') = Len(delivered) + 1
             /\ delivered' = [i \in DOMAIN delivered' |-> i]
  <2>1. /\ Append(delivered, x) \in Seq(Nat) /\ Len(Append(delivered, x)) = Len(delivered) + 1
        /\ FromFirst(Append(delivered, x))
    BY <1>2, InNumbers, FromFirstAppend
  <2> QED BY <1>2, <2>1 DEF FromFirst
<1>3. CASE /\ ~FillsArea /\ delivered' = Append(delivered, CharAt(gptr)) /\ gptr' = gptr + 1
           /\ state' = "good" /\ UNCHANGED <<pos, hold, egptr>>
  <2>1. CharAt(gptr) = Len(delivered) + 1 /\ gptr < egptr
    BY <1>1, <1>3, CharAtGptr DEF FillsArea
  <2>2. /\ delivered' \in Seq(Nat) /\ Len(delivered') = Len(delivered) + 1
        /\ delivered' = [i \in DOMAIN delivered' |-> i]
    BY <1>2, <1>3, <2>1
  <2>3. InTypes'
    <3>1. gptr' \in 0..egptr
      BY <1>3, <2>1, InWidths
    <3> QED BY <1>1, <1>3, <2>2, <3>1 DEF InInv, InTypes
  <2>4. GetArea'
    <3>1. Len(delivered') + egptr = pos + gptr'
      <4> DEFINE d == Len(delivered)
                 e == Len(delivered')
      <4>1. /\ d + egptr = pos + gptr /\ d \in Nat
            /\ gptr \in Nat /\ egptr \in Nat /\ pos \in Nat /\ gptr' = gptr + 1
        BY <1>1, <1>3, InNumbers
      <4>2. e = d + 1
        BY <2>2
      <4> HIDE DEF d, e
      <4>3. e + egptr = pos + gptr'
        BY ONLY <4>1, <4>2
      <4> QED BY <4>3 DEF e
    <3> QED BY <1>1, <1>3, <3>1 DEF InInv, GetArea
  <2>5. InputFidelity'
    BY <1>1, <1>3, <2>2 DEF InputFidelity
  <2> QED BY <2>3, <2>4, <2>5 DEF InInv
<1>4. CASE FillsArea /\ Fill /\ delivered' = Append(delivered, pos + 1) /\ gptr' = 1 /\ state' = "good"
  <2>1. /\ pos' \in Nat /\ pos' <= input /\ egptr' \in Nat \ {0} /\ egptr' <= bufsize /\ pos' = pos + egptr'
        /\ hold' \in Seq(Nat) /\ Len(hold') = bufsize
        /\ \A i \in 1..egptr' : hold'[i] = pos + i
    BY <1>4, FillIs
  <2>2. Len(delivered) = pos
    BY <1>1, <1>4, InNumbers DEF FillsArea
  <2>3. /\ delivered' \in Seq(Nat) /\ Len(delivered') = Len(delivered) + 1
        /\ delivered' = [i \in DOMAIN delivered' |-> i]
    BY <1>2, <1>4, <2>2
  <2>4. InTypes'
    <3>1. pos' \in 0..input' /\ egptr' \in 0..bufsize' /\ gptr' \in 0..egptr'
      BY <1>1, <1>4, <2>1, InWidths
    <3> QED BY <1>1, <1>4, <2>1, <2>3, <3>1 DEF InInv, InTypes
  <2>5. GetArea'
    <3>1. pos' - egptr' = pos
      BY <2>1, InWidths
    <3>2. \A i \in 1..egptr' : hold'[i] = (pos' - egptr') + i
      BY <2>1, <3>1
    <3>3. egptr' <= pos' /\ Len(delivered') + egptr' = pos' + gptr'
      <4>1. pos \in Nat /\ gptr' = 1
        BY <1>4, InNumbers
      <4> QED BY ONLY <2>1, <2>2, <2>3, <4>1
    <3> QED BY <1>1, <1>4, <3>2, <3>3 DEF GetArea
  <2>6. InputFidelity'
    BY <1>1, <1>4, <2>3 DEF InputFidelity
  <2> QED BY <2>4, <2>5, <2>6 DEF InInv
<1>5. CASE /\ FillsArea /\ pos = input /\ gptr' = gptr + 1 /\ state' = "fail"
           /\ UNCHANGED <<pos, hold, egptr, delivered>>
  <2>1. Len(delivered) = input
    BY <1>1, <1>5, InNumbers DEF FillsArea
  <2>2. InTypes'
    <3>1. gptr' \in 0..egptr + 1
      BY <1>1, <1>5, InNumbers
    <3> QED BY <1>1, <1>5, <3>1 DEF InInv, InTypes
  <2>3. GetArea'
    BY <1>1, <1>5, <2>1 DEF InInv, GetArea
  <2>4. InputFidelity'
    BY <1>1, <1>5, <2>1 DEF InInv, InputFidelity
  <2> QED BY <2>2, <2>3, <2>4 DEF InInv
<1> QED BY <1>3, <1>4, <1>5 DEF Bump

LEMMA GetDirectKeeps ==
    ASSUME InInv, OutTypes, GetDirect, ~Retries
    PROVE  InInv'
<1>1. /\ state = "good" /\ bufsize' = bufsize /\ input' = input /\ seen' = seen /\ seen = 0
      /\ bufsize = 0 /\ MaxChars \in Nat /\ input \in 0..MaxChars
      /\ gptr' = gptr /\ egptr' = egptr /\ gptr = 0 /\ egptr = 0 /\ hold' = hold
  BY InNumbers DEF GetDirect, Reading, InInv, InTypes, GetArea
<1>2. PICK k \in 1..Smaller(2, MaxChars) :
        /\ delivered' = delivered \o [i \in 1..Smaller(k, input - pos) |-> pos + i]
        /\ pos' = pos + Smaller(k, input - pos)
        /\ state' = IF Smaller(k, input - pos) < k THEN "fail" ELSE "good"
  BY DEF GetDirect
<1> DEFINE m == Smaller(k, input - pos)
<1>3. m \in Nat /\ m <= input - pos /\ (m < k => m = input - pos)
  <2>1. k \in Nat /\ input - pos \in Nat
    BY InNumbers DEF Smaller
  <2> QED BY <2>1 DEF Smaller
<1>4. delivered' = delivered \o [i \in 1..m |-> pos + i] /\ pos' = pos + m /\ state' = IF m < k THEN "fail" ELSE "good"
  BY <1>2
<1> HIDE DEF m
<1>5. Len(delivered) = pos
  BY <1>1, InNumbers
<1>6. /\ delivered' \in Seq(Nat) /\ Len(delivered') = pos + m
      /\ delivered' = [i \in DOMAIN delivered' |-> i]
  <2> DEFINE t == delivered \o [i \in 1..m |-> Len(delivered) + i]
  <2>1. t \in Seq(Nat) /\ Len(t) = Len(delivered) + m /\ FromFirst(t)
    BY <1>3, InNumbers, FromFirstConcat
  <2>2. delivered' = t
    BY <1>4, <1>5
  <2> HIDE DEF t
  <2> QED BY <1>5, <2>1, <2>2 DEF FromFirst
<1>7. pos' \in 0..input /\ (state' = "fail" => pos' = input)
  <2>1. pos \in Nat /\ input \in Nat /\ pos <= input /\ pos' = pos + m
    BY <1>4, InNumbers
  <2> QED BY ONLY <1>3, <1>4, <2>1
<1>8. state' \in {"good", "fail"}
  BY <1>4
<1>9. InTypes'
  BY <1>1, <1>6, <1>7, <1>8 DEF InInv, InTypes
<1>10. GetArea'
  <2>1. Len(delivered') = pos'
    BY <1>4, <1>6
  <2> QED BY <1>1, <1>7, <2>1, InNumbers DEF GetArea
<1>11. InputFidelity'
  <2>1. Len(delivered') = pos'
    BY <1>4, <1>6
  <2> QED BY <1>1, <1>6, <1>7, <1>8, <2>1 DEF InputFidelity
<1> QED BY <1>9, <1>10, <1>11 DEF InInv

LEMMA UngetKeeps ==
    ASSUME InInv, OutTypes, Unget, ~Retries
    PROVE  InInv'
<1>1. /\ state # "fail" /\ bufsize' = bufsize /\ input' = input /\ seen' = 0 /\ state' = "good"
      /\ UNCHANGED <<pos, hold, egptr>> /\ MaxChars \in Nat /\ input \in 0..MaxChars
      /\ gptr > 0 /\ gptr <= egptr /\ gptr' = gptr - 1 /\ delivered' = Front(delivered)
  BY InNumbers DEF Unget, InInv, InTypes
<1>2. Len(delivered) > 0
  BY <1>1, InNumbers
<1>3. /\ delivered' \in Seq(Nat) /\ Len(delivered') = Len(delivered) - 1
      /\ delivered' = [i \in DOMAIN delivered' |-> i]
  <2>1. /\ Front(delivered) \in Seq(Nat) /\ Len(Front(delivered)) = Len(delivered) - 1
        /\ FromFirst(Front(delivered))
    BY <1>2, InNumbers, FromFirstFront
  <2> QED BY <1>1, <2>1 DEF FromFirst
<1>4. InTypes'
  <2>1. gptr' \in 0..egptr
    BY <1>1, InNumbers
  <2> QED BY <1>1, <1>3, <2>1 DEF InInv, InTypes
<1>5. GetArea'
  <2>1. Len(delivered') + egptr = pos + gptr'
    <3> DEFINE d == Len(delivered)
               e == Len(delivered')
    <3>1. /\ d + egptr = pos + gptr /\ d \in Nat
          /\ gptr \in Nat /\ egptr \in Nat /\ pos \in Nat /\ gptr' = gptr - 1
      BY <1>1, InNumbers
    <3>2. e = d - 1
      BY <1>3
    <3> HIDE DEF d, e
    <3>3. e + egptr = pos + gptr'
      BY ONLY <3>1, <3>2
    <3> QED BY <3>3 DEF e
  <2> QED BY <1>1, <2>1 DEF InInv, GetArea
<1>6. InputFidelity'
  BY <1>1, <1>3 DEF InputFidelity
<1> QED BY <1>4, <1>5, <1>6 DEF InInv

LEMMA SetBufKeepsInput ==
    ASSUME InInv, OutTypes, SetBuf
    PROVE  InInv'
<1>1. /\ bufsize = 0 /\ bufsize' = BufSize /\ gptr' = 0 /\ egptr' = 0
      /\ hold' = [i \in 1..BufSize |-> 0] /\ UNCHANGED <<input, pos, delivered, seen, state>>
      /\ BufSize \in Nat \ {0} /\ MaxChars \in Nat
  BY InNumbers DEF SetBuf
<1>2. hold' \in Seq(Nat) /\ Len(hold') = BufSize
  BY <1>1
<1>3. InTypes'
  BY <1>1, <1>2 DEF InInv, InTypes
<1>4. GetArea'
  <2>1. state # "fail" => Len(delivered) = pos
    BY <1>1, InNumbers
  <2> QED BY <1>1, <2>1, InNumbers DEF InInv, GetArea
<1>5. InputFidelity'
  BY <1>1 DEF InInv, InputFidelity
<1> QED BY <1>3, <1>4, <1>5 DEF InInv

\* Every step keeps the reading side's invariant.
LEMMA InStep ==
    ASSUME InInv, OutTypes, ~Retries, [StreambufNext]_streambufVars
    PROVE  InInv'
<1>1. CASE Get
  BY <1>1, PeekKeeps, BumpKeeps, GetDirectKeeps, UngetKeeps DEF Get
<1>2. CASE SetBuf
  BY <1>2, SetBufKeepsInput
<1>3. CASE Put \/ DestroyBuffer \/ Stopped \/ UNCHANGED streambufVars
  <2>1. UNCHANGED <<bufsize, get>>
    BY <1>3 DEF Put, SputcStores, Overflow, Sync, AttachStream, DestroyBuffer, Stopped, streambufVars
  <2> QED BY <2>1 DEF get, InInv, InTypes, GetArea, InputFidelity
<1> QED BY <1>1, <1>2, <1>3 DEF StreambufNext

LEMMA BothSides ==
    ASSUME ~Retries
    PROVE  StreambufSpec => [](OutInv /\ InInv)
<1>1. OutInv /\ InInv /\ [StreambufNext]_streambufVars => (OutInv /\ InInv)'
  BY OutStep, InStep DEF OutInv
<1> QED BY <1>1, OutInit, InInit, PTL DEF StreambufSpec

\* Reading, stepping back and looking ahead in any order, the caller gets the characters of
\* the stream one by one and is told of the end only after the last (underflow, uflow,
\* xsgetn of libfcgi/fcgio.cpp), as long as it stops at the end.
THEOREM InputKept ==
    ASSUME ~Retries
    PROVE  StreambufSpec => []InputFidelity
<1>1. OutInv /\ InInv => InputFidelity
  BY DEF InInv
<1> QED BY <1>1, BothSides, PTL

\* The types of the stream buffer, and that its areas stay within its buffer.
THEOREM StreambufTypes ==
    ASSUME ~Retries
    PROVE  StreambufSpec => []StreambufTypeOK
<1>1. OutInv /\ InInv => StreambufTypeOK
  <2> SUFFICES ASSUME OutInv, InInv PROVE StreambufTypeOK
    OBVIOUS
  <2>1. written \in Nat /\ \A q : q \in Seq(1..written) => q \in Seq(Nat)
    BY StreambufAssumption DEF OutInv, OutTypes
  <2>2. area \in Seq(Nat) /\ taken \in [Streams -> Seq(Nat)] /\ given \in [Streams -> Seq(Nat)]
    BY <2>1 DEF OutInv, OutTypes
  <2>3. /\ direction \in {"out", "in"} /\ bufsize \in {0, BufSize} /\ alive \in BOOLEAN
        /\ stream \in Streams /\ broken \subseteq Streams /\ Len(area) <= bufsize
        /\ dropped \subseteq 1..written /\ written \in 0..MaxChars
    BY DEF OutInv, OutTypes
  <2> QED BY <2>2, <2>3 DEF StreambufTypeOK, InInv, InTypes
<1> QED BY <1>1, BothSides, PTL

-----------------------------------------------------------------------------
(* The layers together (MCLayers).                                         *)

\* A layer that has no step stays as it begins, so each behaves as it does alone.
LEMMA LayersAlone ==
    LayersSpec => Spec /\ PerlSpec /\ StreamSpec /\ StreambufSpec
<1>1. LayersInit => Init /\ PerlInit /\ StreamInit /\ StreambufInit
  BY DEF LayersInit
<1>2. [LayersNext]_<<layer, vars, perlVars, streamVars, streambufVars>>
        => /\ [Next]_vars /\ [PerlNext]_perlVars /\ [StreamNext]_streamVars
           /\ [StreambufNext]_streambufVars
  BY DEF LayersNext
<1> QED
  BY <1>1, <1>2, PTL DEF LayersSpec, Spec, PerlSpec, StreamSpec, StreambufSpec

\* Every layer keeps its types, its areas within its buffers, as long as nobody reads on
\* after an end of file.
THEOREM LayersTypes ==
    ASSUME ~Retries
    PROVE  LayersSpec => []LayersTypeOK
<1>1. TypeOK /\ PerlTypeOK /\ StreambufTypeOK => LayersTypeOK
  BY DEF LayersTypeOK
<1> QED
  BY <1>1, LayersAlone, StdioTypes, PerlTypes, StreambufTypes, PTL

\* Through a tied handle of Perl and through a fcgi_streambuf of C++ each character passes
\* once and in order, in either direction, whatever the widths of int and STRLEN, the length
\* of the scalars, the size of the buffer and the number of streams.
THEOREM CharactersPass ==
    ASSUME ~Retries
    PROVE  LayersSpec => []CharactersKept
<1>1. PartWritten /\ InputInOrder /\ OutputFidelity /\ InputFidelity => CharactersKept
  BY DEF CharactersKept
<1> QED
  BY <1>1, LayersAlone, ScalarsWritten, InputRead, OutputKept, InputKept, PTL

=============================================================================
