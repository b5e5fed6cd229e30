------------------------------ MODULE PartsProofs ------------------------------
(***************************************************************************)
(* Proofs about the parts of the library beside the streams (the modules   *)
(* that MCParts brings together), for every value of their constants:      *)
(* the table of asynchronous operations (AsyncTable), descriptors and      *)
(* child processes (Processes), how threads set the library up and accept  *)
(* (FcgxInit), the environment of a request (Params) and formatted output  *)
(* (VFPrintF).                                                             *)
(***************************************************************************)
EXTENDS MCParts, SequenceOpsProofs, FiniteSetTheorems, FunctionTheorems

-----------------------------------------------------------------------------
(* The table of asynchronous operations.                                   *)

\* The two entries of a descriptor are two, and no other descriptor has them.
LEMMA EntriesApart ==
    ASSUME NEW d \in Directions, NEW e \in Directions, NEW f \in AsyncFds, NEW g \in AsyncFds
    PROVE  /\ AIO_IX(d, f) \in Nat /\ AIO_IX(d, f) <= AIO_IX("write", f)
           /\ AIO_IX(d, f) = AIO_IX(e, g) => d = e /\ f = g
BY AsyncTableAssumption DEF AIO_IX, Directions, AsyncFds

\* Besides AsyncSafe: an operation is begun only while the table is there, its descriptor
\* is below maxFd already, and nothing is pending without a table.
CallCovered ==
    call # NoCall => initialized /\ ~fault /\ call.fd <= maxFd /\ ops # 0

NothingWithoutTable == ~initialized =>
    \A d \in Directions, fd \in AsyncFds : pending[d][fd] = 0

AsyncInv == AsyncTypeOK /\ AsyncSafe /\ CallCovered /\ NothingWithoutTable

LEMMA AsyncInitInv == AsyncInit => AsyncInv
<1> SUFFICES ASSUME AsyncInit PROVE AsyncInv
  OBVIOUS
<1> USE AsyncTableAssumption
<1>1. AsyncTypeOK
  <2>1. asyncIoTable \in [0..(IF initialized THEN asyncIoTableSize - 1 ELSE -1) -> Entries]
    BY DEF AsyncInit, Zeroed
  <2>2. pending \in [Directions -> [AsyncFds -> 0..MaxOps]]
    BY DEF AsyncInit, NoOps
  <2>3. maxFd \in -1..MaxAsyncFd /\ ops \in 0..MaxOps /\ inits \in 0..MaxInits
    BY DEF AsyncInit
  <2>4. asyncIoTableSize \in Nat \ {0, 1}
    BY DEF AsyncInit
  <2>5. {initialized, asyncIoInUse, fault} \subseteq BOOLEAN
        /\ call \in Calls \cup {NoCall} /\ fdSet \in [Directions -> SUBSET AsyncFds]
    BY DEF AsyncInit
  <2> QED BY <2>1, <2>2, <2>3, <2>4, <2>5 DEF AsyncTypeOK
<1>2. AsyncSafe /\ CallCovered /\ NothingWithoutTable
  BY DEF AsyncInit, AsyncSafe, PendingKept, SetsAgree, MaxFdCovers, CallCovered,
         NothingWithoutTable, NoOps
<1> QED BY <1>1, <1>2 DEF AsyncInv

\* OS_LibInit and OS_LibShutdown: the new table and the old one are empty.
LEMMA TableInitInv == AsyncInv /\ TableInit => AsyncInv'
<1> SUFFICES ASSUME AsyncInv, TableInit PROVE AsyncInv'
  OBVIOUS
<1> USE AsyncTableAssumption DEF AsyncInv
<1>1. /\ call = NoCall /\ ~fault /\ ~initialized /\ inits < MaxInits /\ inits' = inits + 1
      /\ UNCHANGED <<asyncIoInUse, asyncIoTableSize, maxFd, call, ops, pending, fault>>
  BY DEF TableInit, NoneBegun
<1>2. CASE UNCHANGED <<asyncIoTable, fdSet, initialized>>
  <2>1. inits' \in 0..MaxInits
    BY <1>1 DEF AsyncTypeOK
  <2>2. AsyncTypeOK'
    BY <1>1, <1>2, <2>1 DEF AsyncTypeOK
  <2>3. AsyncSafe' /\ CallCovered' /\ NothingWithoutTable'
    BY <1>1, <1>2 DEF AsyncSafe, PendingKept, SetsAgree, MaxFdCovers, CallCovered,
                      NothingWithoutTable, InTable
  <2> QED BY <2>2, <2>3
<1>3. CASE /\ asyncIoTable' = Zeroed(asyncIoTableSize)
           /\ fdSet' = [d \in Directions |-> {}]
           /\ initialized' = TRUE
  <2>1. inits' \in 0..MaxInits
    BY <1>1 DEF AsyncTypeOK
  <2>2. Zero \in Entries
    BY DEF Zero, Entries, AsyncFds
  <2>3. asyncIoTable' \in [0..(asyncIoTableSize - 1) -> Entries]
        /\ fdSet' \in [Directions -> SUBSET AsyncFds]
    BY <1>3, <2>2 DEF Zeroed
  <2>4. AsyncTypeOK'
    BY <1>1, <1>3, <2>1, <2>3 DEF AsyncTypeOK
  <2>5. PendingKept' /\ MaxFdCovers' /\ CallCovered' /\ NothingWithoutTable'
    BY <1>1, <1>3 DEF PendingKept, MaxFdCovers, CallCovered, NothingWithoutTable
  <2>6. SetsAgree'
    BY <1>1, <1>3 DEF SetsAgree, NothingWithoutTable, InTable, Zeroed, Zero
  <2> QED BY <2>4, <2>5, <2>6 DEF AsyncSafe
<1> QED BY <1>2, <1>3 DEF TableInit

LEMMA TableShutdownInv == AsyncInv /\ TableShutdown => AsyncInv'
<1> SUFFICES ASSUME AsyncInv, TableShutdown PROVE AsyncInv'
  OBVIOUS
<1> USE AsyncTableAssumption DEF AsyncInv
<1>1. /\ call = NoCall /\ ~fault /\ initialized' = FALSE
      /\ asyncIoTable' = Zeroed(0) /\ pending' = NoOps
      /\ UNCHANGED <<asyncIoInUse, asyncIoTableSize, fdSet, maxFd, call, ops, inits, fault>>
  BY DEF TableShutdown, NoneBegun
<1>2. asyncIoTable' \in [0..-1 -> Entries] /\ pending' \in [Directions -> [AsyncFds -> 0..MaxOps]]
  BY <1>1 DEF Zeroed, NoOps
<1>3. AsyncTypeOK'
  BY <1>1, <1>2 DEF AsyncTypeOK
<1>4. AsyncSafe' /\ CallCovered' /\ NothingWithoutTable'
  BY <1>1 DEF AsyncSafe, PendingKept, SetsAgree, MaxFdCovers, CallCovered,
              NothingWithoutTable, NoOps
<1> QED BY <1>3, <1>4

\* An operation is begun: maxFd covers its descriptor from then on.
LEMMA BeginInv ==
    ASSUME AsyncInv, NEW dir \in Directions, NEW fd \in AsyncFds, Begin(dir, fd)
    PROVE  AsyncInv'
<1> USE AsyncTableAssumption DEF AsyncInv
<1>1. /\ call = NoCall /\ ~fault /\ initialized /\ ops < MaxOps /\ ops' = ops + 1
      /\ asyncIoInUse' = TRUE /\ call' = [dir |-> dir, fd |-> fd]
      /\ maxFd' = IF fd > maxFd THEN fd ELSE maxFd
      /\ UNCHANGED <<initialized, asyncIoTableSize, asyncIoTable, fdSet, inits, pending, fault>>
  BY DEF Begin, NoneBegun, table
<1>2. ops' \in 0..MaxOps /\ ops' # 0 /\ maxFd' \in -1..MaxAsyncFd
      /\ maxFd <= maxFd' /\ fd <= maxFd'
  BY <1>1 DEF AsyncTypeOK, AsyncFds
<1>3. call' \in Calls
  BY <1>1 DEF Calls
<1>4. AsyncTypeOK'
  BY <1>1, <1>2, <1>3 DEF AsyncTypeOK
<1>5. MaxFdCovers'
  BY <1>1, <1>2 DEF AsyncSafe, MaxFdCovers, AsyncTypeOK, AsyncFds
<1>6. CallCovered'
  BY <1>1, <1>2 DEF CallCovered
<1>7. PendingKept' /\ SetsAgree' /\ NothingWithoutTable'
  BY <1>1 DEF AsyncSafe, PendingKept, SetsAgree, NothingWithoutTable, InTable
<1> QED BY <1>4, <1>5, <1>6, <1>7 DEF AsyncSafe

\* The table grows and moves no entry.
LEMMA GrowInv == AsyncInv /\ GrowAsyncTable => AsyncInv'
<1> SUFFICES ASSUME AsyncInv, GrowAsyncTable PROVE AsyncInv'
  OBVIOUS
<1> USE AsyncTableAssumption DEF AsyncInv
<1>1. /\ call # NoCall /\ asyncIoTableSize' = asyncIoTableSize * 2
      /\ asyncIoTable' = [i \in 0..(asyncIoTableSize' - 1) |->
                             IF i < asyncIoTableSize THEN asyncIoTable[i] ELSE Zero]
      /\ UNCHANGED <<initialized, asyncIoInUse, fdSet, maxFd, call, ops, inits, pending, fault>>
  BY DEF GrowAsyncTable
<1>2. initialized /\ ~fault
  BY <1>1 DEF CallCovered
<1>3. /\ asyncIoTableSize \in Nat \ {0, 1} /\ asyncIoTableSize' \in Nat \ {0, 1}
      /\ asyncIoTableSize < asyncIoTableSize'
      /\ asyncIoTable \in [0..(asyncIoTableSize - 1) -> Entries]
  BY <1>1, <1>2 DEF AsyncTypeOK
<1>4. Zero \in Entries
  BY DEF Zero, Entries, AsyncFds
<1>5. asyncIoTable' \in [0..(asyncIoTableSize' - 1) -> Entries]
  BY <1>1, <1>3, <1>4
<1>6. AsyncTypeOK'
  BY <1>1, <1>2, <1>3, <1>5 DEF AsyncTypeOK
<1>7. \A i \in 0..(asyncIoTableSize - 1) :
         i \in 0..(asyncIoTableSize' - 1) /\ asyncIoTable'[i] = asyncIoTable[i]
  BY <1>1, <1>3
<1>8. \A i \in 0..(asyncIoTableSize' - 1) :
         i \notin 0..(asyncIoTableSize - 1) => asyncIoTable'[i] = Zero
  BY <1>1, <1>3
<1>9. PendingKept'
  BY <1>1, <1>2, <1>3, <1>5, <1>7 DEF AsyncSafe, PendingKept, InTable
<1>10. SetsAgree'
  <2> SUFFICES ASSUME NEW d \in Directions, NEW fd \in AsyncFds
               PROVE  /\ fd \in fdSet[d] <=> pending[d][fd] # 0
                      /\ AIO_IX(d, fd) \in 0..(asyncIoTableSize' - 1) =>
                            (asyncIoTable'[AIO_IX(d, fd)].inUse <=> pending[d][fd] # 0)
    BY <1>1, <1>5 DEF SetsAgree, InTable
  <2>1. fd \in fdSet[d] <=> pending[d][fd] # 0
    BY <1>2 DEF AsyncSafe, SetsAgree
  <2>2. CASE AIO_IX(d, fd) \in 0..(asyncIoTableSize - 1)
    BY <1>2, <1>3, <1>7, <2>1, <2>2 DEF AsyncSafe, SetsAgree, InTable
  <2>3. CASE AIO_IX(d, fd) \in 0..(asyncIoTableSize' - 1) /\ AIO_IX(d, fd) \notin 0..(asyncIoTableSize - 1)
    <3>1. pending[d][fd] = 0
      BY <1>2, <1>3, <2>3 DEF AsyncSafe, PendingKept, InTable
    <3>2. asyncIoTable'[AIO_IX(d, fd)] = Zero
      BY <1>8, <2>3
    <3>3. ~Zero.inUse
      BY DEF Zero
    <3> QED BY <2>1, <3>1, <3>2, <3>3
  <2> QED BY <2>1, <2>2, <2>3
<1>11. MaxFdCovers' /\ CallCovered' /\ NothingWithoutTable'
  BY <1>1, <1>2 DEF AsyncSafe, MaxFdCovers, CallCovered, NothingWithoutTable
<1> QED BY <1>6, <1>9, <1>10, <1>11 DEF AsyncSafe

\* The entry of the operation is filled in, and no other.
LEMMA EnterInv == AsyncInv /\ Enter => AsyncInv'
<1> SUFFICES ASSUME AsyncInv, Enter PROVE AsyncInv'
  OBVIOUS
<1> USE AsyncTableAssumption DEF AsyncInv
<1> DEFINE i == AIO_IX(call.dir, call.fd)
           e == [inUse |-> TRUE, fd |-> call.fd, op |-> ops]
<1>1. /\ call # NoCall /\ InTable(i)
      /\ asyncIoTable' = [asyncIoTable EXCEPT ![i] = e]
      /\ fdSet' = [fdSet EXCEPT ![call.dir] = @ \cup {call.fd}]
      /\ pending' = [pending EXCEPT ![call.dir][call.fd] = ops]
      /\ call' = NoCall
      /\ UNCHANGED <<initialized, asyncIoInUse, asyncIoTableSize, maxFd, ops, inits, fault>>
  BY DEF Enter
<1>2. initialized /\ ~fault /\ call.fd <= maxFd /\ ops # 0 /\ ops \in 0..MaxOps
      /\ call.dir \in Directions /\ call.fd \in AsyncFds
  BY <1>1 DEF CallCovered, AsyncTypeOK, Calls
<1>3. e \in Entries
  BY <1>2 DEF Entries
<1> HIDE DEF e, i
<1>4. /\ asyncIoTable \in [0..(asyncIoTableSize - 1) -> Entries]
      /\ asyncIoTable' \in [0..(asyncIoTableSize - 1) -> Entries]
      /\ i \in 0..(asyncIoTableSize - 1) /\ asyncIoTable'[i] = e
      /\ \A j \in 0..(asyncIoTableSize - 1) : j # i => asyncIoTable'[j] = asyncIoTable[j]
  BY <1>1, <1>2, <1>3 DEF AsyncTypeOK, InTable
<1>5. /\ fdSet' \in [Directions -> SUBSET AsyncFds]
      /\ pending' \in [Directions -> [AsyncFds -> 0..MaxOps]]
      /\ pending'[call.dir][call.fd] = ops
      /\ fdSet'[call.dir] = fdSet[call.dir] \cup {call.fd}
      /\ \A d \in Directions, fd \in AsyncFds : ~(d = call.dir /\ fd = call.fd) =>
            pending'[d][fd] = pending[d][fd] /\ (fd \in fdSet'[d] <=> fd \in fdSet[d])
  BY <1>1, <1>2 DEF AsyncTypeOK
<1>6. \A d \in Directions, fd \in AsyncFds :
         AIO_IX(d, fd) = i => d = call.dir /\ fd = call.fd
  BY <1>2, EntriesApart DEF i
<1>7. AsyncTypeOK'
  BY <1>1, <1>2, <1>4, <1>5 DEF AsyncTypeOK
<1>8. PendingKept'
  <2> SUFFICES ASSUME NEW d \in Directions, NEW fd \in AsyncFds, pending'[d][fd] # 0
               PROVE  /\ AIO_IX(d, fd) \in 0..(asyncIoTableSize - 1)
                      /\ asyncIoTable'[AIO_IX(d, fd)] =
                            [inUse |-> TRUE, fd |-> fd, op |-> pending'[d][fd]]
    BY <1>1, <1>4 DEF PendingKept, InTable
  <2>1. CASE d = call.dir /\ fd = call.fd
    BY <1>4, <1>5, <2>1 DEF e, i
  <2>2. CASE ~(d = call.dir /\ fd = call.fd)
    <3>1. pending[d][fd] # 0 /\ pending'[d][fd] = pending[d][fd] /\ AIO_IX(d, fd) # i
      BY <1>5, <1>6, <2>2
    <3> QED BY <1>2, <1>4, <3>1 DEF AsyncSafe, PendingKept, InTable
  <2> QED BY <2>1, <2>2
<1>9. SetsAgree'
  <2> SUFFICES ASSUME NEW d \in Directions, NEW fd \in AsyncFds
               PROVE  /\ fd \in fdSet'[d] <=> pending'[d][fd] # 0
                      /\ AIO_IX(d, fd) \in 0..(asyncIoTableSize - 1) =>
                            (asyncIoTable'[AIO_IX(d, fd)].inUse <=> pending'[d][fd] # 0)
    BY <1>1, <1>4 DEF SetsAgree, InTable
  <2>1. CASE d = call.dir /\ fd = call.fd
    BY <1>2, <1>4, <1>5, <2>1 DEF e, i
  <2>2. CASE ~(d = call.dir /\ fd = call.fd)
    <3>1. /\ pending'[d][fd] = pending[d][fd] /\ AIO_IX(d, fd) # i
          /\ fd \in fdSet'[d] <=> fd \in fdSet[d]
      BY <1>5, <1>6, <2>2
    <3> QED BY <1>2, <1>4, <3>1 DEF AsyncSafe, SetsAgree, InTable
  <2> QED BY <2>1, <2>2
<1>10. MaxFdCovers'
  BY <1>1, <1>2, <1>5 DEF AsyncSafe, MaxFdCovers, AsyncTypeOK
<1>11. CallCovered' /\ NothingWithoutTable'
  BY <1>1, <1>2 DEF CallCovered, NothingWithoutTable
<1> QED BY <1>7, <1>8, <1>9, <1>10, <1>11 DEF AsyncSafe

\* A descriptor is closed: both its entries, and no other, are given up.  When they are
\* not in the table, nothing is known from then on.
LEMMA CloseInv ==
    ASSUME AsyncInv, NEW fd \in AsyncFds, Close(fd)
    PROVE  AsyncInv'
<1> USE AsyncTableAssumption DEF AsyncInv
<1>1. /\ call = NoCall /\ ~fault
      /\ UNCHANGED <<initialized, asyncIoInUse, asyncIoTableSize, call, ops, inits>>
  BY DEF Close, NoneBegun
<1>2. CASE ~InTable(AIO_IX("write", fd))
  <2>1. fault' = TRUE /\ UNCHANGED <<asyncIoTable, fdSet, maxFd, pending>>
    BY <1>2 DEF Close
  <2>2. AsyncTypeOK'
    BY <1>1, <2>1 DEF AsyncTypeOK
  <2>3. AsyncSafe' /\ CallCovered' /\ NothingWithoutTable'
    BY <1>1, <2>1 DEF AsyncSafe, PendingKept, SetsAgree, MaxFdCovers, CallCovered,
                      NothingWithoutTable, InTable
  <2> QED BY <2>2, <2>3
<1>3. CASE InTable(AIO_IX("write", fd))
  <2> DEFINE n == IF initialized THEN asyncIoTableSize - 1 ELSE -1
             lower == IF maxFd = fd THEN maxFd - 1 ELSE maxFd
  <2>1. /\ asyncIoTable' = Cleared(fd)
        /\ fdSet' = [d \in Directions |-> fdSet[d] \ {fd}]
        /\ maxFd' = lower
        /\ pending' = [d \in Directions |-> [pending[d] EXCEPT ![fd] = 0]]
        /\ fault' = fault
    BY <1>3 DEF Close
  <2>2. asyncIoTable \in [0..n -> Entries] /\ n \in Int
    BY DEF AsyncTypeOK
  <2>3. lower \in -1..MaxAsyncFd
    BY DEF AsyncTypeOK, AsyncFds
  <2> HIDE DEF n
  <2>4. \A j \in 0..n : [asyncIoTable[j] EXCEPT !.inUse = FALSE] \in Entries
    BY <2>2 DEF Entries
  <2>5. /\ asyncIoTable' \in [0..n -> Entries]
        /\ \A j \in 0..n : j \notin {AIO_IX("read", fd), AIO_IX("write", fd)} =>
              asyncIoTable'[j] = asyncIoTable[j]
        /\ \A j \in 0..n : j \in {AIO_IX("read", fd), AIO_IX("write", fd)} =>
              ~asyncIoTable'[j].inUse
    <3>1. asyncIoTable' \in [0..n -> Entries]
      BY <2>1, <2>2, <2>4 DEF Cleared
    <3>2. \A j \in 0..n : j \notin {AIO_IX("read", fd), AIO_IX("write", fd)} =>
              asyncIoTable'[j] = asyncIoTable[j]
      BY <2>1, <2>2 DEF Cleared
    <3>3. \A j \in 0..n : j \in {AIO_IX("read", fd), AIO_IX("write", fd)} =>
              ~asyncIoTable'[j].inUse
      <4> SUFFICES ASSUME NEW j \in 0..n, j \in {AIO_IX("read", fd), AIO_IX("write", fd)}
                   PROVE  ~asyncIoTable'[j].inUse
        OBVIOUS
      <4>1. asyncIoTable'[j] = [asyncIoTable[j] EXCEPT !.inUse = FALSE]
        BY <2>1, <2>2 DEF Cleared
      <4>2. asyncIoTable[j] \in Entries
        BY <2>2
      <4> QED BY <4>1, <4>2 DEF Entries
    <3> QED BY <3>1, <3>2, <3>3
  <2>6. /\ fdSet' \in [Directions -> SUBSET AsyncFds]
        /\ pending' \in [Directions -> [AsyncFds -> 0..MaxOps]]
        /\ \A d \in Directions : pending'[d][fd] = 0 /\ fd \notin fdSet'[d]
        /\ \A d \in Directions, f \in AsyncFds : f # fd =>
              pending'[d][f] = pending[d][f] /\ (f \in fdSet'[d] <=> f \in fdSet[d])
    BY <2>1 DEF AsyncTypeOK
  <2>7. \A d \in Directions, f \in AsyncFds :
           AIO_IX(d, f) \in {AIO_IX("read", fd), AIO_IX("write", fd)} <=> f = fd
    <3>1. {"read", "write"} = Directions
      BY DEF Directions
    <3> QED BY <3>1, EntriesApart DEF Directions
  <2>8. AsyncTypeOK'
    <3>1. asyncIoTable' \in [0..(IF initialized THEN asyncIoTableSize - 1 ELSE -1) -> Entries]
      BY <2>5 DEF n
    <3> QED BY <1>1, <2>1, <2>3, <2>6, <3>1 DEF AsyncTypeOK
  <2>9. \A d \in Directions, f \in AsyncFds : f # fd =>
           /\ InTable(AIO_IX(d, f)) <=> InTable(AIO_IX(d, f))'
           /\ InTable(AIO_IX(d, f)) => asyncIoTable'[AIO_IX(d, f)] = asyncIoTable[AIO_IX(d, f)]
    BY <2>2, <2>5, <2>7 DEF InTable
  <2>10. PendingKept'
    <3> SUFFICES ASSUME NEW d \in Directions, NEW f \in AsyncFds, pending'[d][f] # 0
                 PROVE  /\ InTable(AIO_IX(d, f))'
                        /\ asyncIoTable'[AIO_IX(d, f)] =
                              [inUse |-> TRUE, fd |-> f, op |-> pending'[d][f]]
      BY DEF PendingKept
    <3>1. f # fd /\ pending'[d][f] = pending[d][f]
      BY <2>6
    <3> QED BY <1>1, <2>9, <3>1 DEF AsyncSafe, PendingKept
  <2>11. SetsAgree'
    <3> SUFFICES ASSUME initialized, NEW d \in Directions, NEW f \in AsyncFds
                 PROVE  /\ f \in fdSet'[d] <=> pending'[d][f] # 0
                        /\ InTable(AIO_IX(d, f))' =>
                              (asyncIoTable'[AIO_IX(d, f)].inUse <=> pending'[d][f] # 0)
      BY <1>1 DEF SetsAgree
    <3>1. CASE f = fd
      <4>1. pending'[d][f] = 0 /\ f \notin fdSet'[d]
        BY <2>6, <3>1
      <4>2. InTable(AIO_IX(d, f))' => ~asyncIoTable'[AIO_IX(d, f)].inUse
        BY <2>5, <2>7, <3>1 DEF InTable
      <4> QED BY <4>1, <4>2
    <3>2. CASE f # fd
      BY <2>6, <2>9, <3>2 DEF AsyncSafe, SetsAgree
    <3> QED BY <3>1, <3>2
  <2>12. MaxFdCovers'
    <3> SUFFICES ASSUME initialized, NEW d \in Directions, NEW f \in fdSet'[d]
                 PROVE  f <= lower
      BY <1>1, <2>1 DEF MaxFdCovers
    <3>1. f # fd /\ f \in fdSet[d] /\ f \in AsyncFds
      BY <2>6
    <3>2. f <= maxFd
      BY <3>1 DEF AsyncSafe, MaxFdCovers
    <3> QED BY <3>1, <3>2 DEF AsyncTypeOK, AsyncFds
  <2>13. CallCovered' /\ NothingWithoutTable'
    BY <1>1, <2>6 DEF CallCovered, NothingWithoutTable
  <2> QED BY <2>8, <2>10, <2>11, <2>12, <2>13 DEF AsyncSafe
<1> QED BY <1>2, <1>3

\* A read is cancelled: its entry is given up, and the write of the descriptor is not.
\* When its entry is not in the table, nothing is known from then on.
LEMMA CloseReadInv ==
    ASSUME AsyncInv, NEW fd \in AsyncFds, CloseRead(fd)
    PROVE  AsyncInv'
<1> USE AsyncTableAssumption DEF AsyncInv
<1> DEFINE i == AIO_IX("read", fd)
           e == [asyncIoTable[i] EXCEPT !.inUse = FALSE]
<1>14. CASE ~InTable(i)
  <2>1. /\ call = NoCall /\ fault' = TRUE
        /\ UNCHANGED <<initialized, table, fdSet, maxFd, call, ops, inits, pending>>
        /\ UNCHANGED asyncIoInUse
    BY <1>14 DEF CloseRead, NoneBegun, table
  <2>2. AsyncTypeOK'
    BY <2>1 DEF AsyncTypeOK, table
  <2>3. AsyncSafe' /\ CallCovered' /\ NothingWithoutTable'
    BY <2>1 DEF AsyncSafe, PendingKept, SetsAgree, MaxFdCovers, CallCovered,
                NothingWithoutTable, InTable, table
  <2> QED BY <2>2, <2>3
<1>15. SUFFICES ASSUME InTable(i) PROVE AsyncInv'
  BY <1>14
<1>1. /\ call = NoCall /\ ~fault /\ initialized /\ InTable(i)
      /\ asyncIoTable' = [asyncIoTable EXCEPT ![i] = e]
      /\ fdSet' = [fdSet EXCEPT !["read"] = @ \ {fd}]
      /\ pending' = [pending EXCEPT !["read"][fd] = 0]
      /\ UNCHANGED <<initialized, asyncIoInUse, asyncIoTableSize, maxFd, call, ops, inits, fault>>
  BY <1>15 DEF CloseRead, NoneBegun
<1>2. asyncIoTable \in [0..(asyncIoTableSize - 1) -> Entries] /\ i \in 0..(asyncIoTableSize - 1)
  BY <1>1 DEF AsyncTypeOK, InTable
<1>3. e \in Entries /\ ~e.inUse
  BY <1>2 DEF Entries
<1>4. "read" \in Directions
  BY DEF Directions
<1>5. \A d \in Directions, f \in AsyncFds : AIO_IX(d, f) = i => d = "read" /\ f = fd
  BY <1>4, EntriesApart
<1>6. i = AIO_IX("read", fd)
  OBVIOUS
<1> HIDE DEF e, i
<1>7. /\ asyncIoTable' \in [0..(asyncIoTableSize - 1) -> Entries]
      /\ asyncIoTable'[i] = e
      /\ \A j \in 0..(asyncIoTableSize - 1) : j # i => asyncIoTable'[j] = asyncIoTable[j]
  BY <1>1, <1>2, <1>3
<1>8. /\ fdSet' \in [Directions -> SUBSET AsyncFds]
      /\ pending' \in [Directions -> [AsyncFds -> 0..MaxOps]]
      /\ pending'["read"][fd] = 0 /\ fd \notin fdSet'["read"]
      /\ \A d \in Directions, f \in AsyncFds : ~(d = "read" /\ f = fd) =>
            pending'[d][f] = pending[d][f] /\ (f \in fdSet'[d] <=> f \in fdSet[d])
  <2>1. /\ fdSet \in [Directions -> SUBSET AsyncFds] /\ fd \in AsyncFds
        /\ pending \in [Directions -> [AsyncFds -> 0..MaxOps]] /\ 0 \in 0..MaxOps
    BY DEF AsyncTypeOK
  <2>2. /\ fdSet' = [fdSet EXCEPT !["read"] = @ \ {fd}]
        /\ pending' = [pending EXCEPT !["read"][fd] = 0]
    BY <1>1
  <2>3. /\ fdSet' \in [Directions -> SUBSET AsyncFds] /\ fd \notin fdSet'["read"]
        /\ \A d \in Directions, f \in AsyncFds : ~(d = "read" /\ f = fd) =>
              (f \in fdSet'[d] <=> f \in fdSet[d])
    BY ONLY <2>1, <2>2, <1>4
  <2>4. /\ pending' \in [Directions -> [AsyncFds -> 0..MaxOps]] /\ pending'["read"][fd] = 0
        /\ \A d \in Directions, f \in AsyncFds : ~(d = "read" /\ f = fd) =>
              pending'[d][f] = pending[d][f]
    BY ONLY <2>1, <2>2, <1>4
  <2> QED BY <2>3, <2>4
<1>9. AsyncTypeOK'
  <2>1. /\ {initialized', asyncIoInUse', fault'} \subseteq BOOLEAN
        /\ asyncIoTableSize' \in Nat \ {0, 1}
        /\ maxFd' \in -1..MaxAsyncFd
    BY <1>1 DEF AsyncTypeOK
  <2>2. call' \in Calls \cup {NoCall} /\ ops' \in 0..MaxOps /\ inits' \in 0..MaxInits
    BY <1>1 DEF AsyncTypeOK
  <2>3. asyncIoTable' \in [0..(IF initialized' THEN asyncIoTableSize' - 1 ELSE -1) -> Entries]
    BY <1>1, <1>7
  <2> QED BY <1>8, <2>1, <2>2, <2>3 DEF AsyncTypeOK
<1>10. PendingKept'
  <2> SUFFICES ASSUME NEW d \in Directions, NEW f \in AsyncFds, pending'[d][f] # 0
               PROVE  /\ AIO_IX(d, f) \in 0..(asyncIoTableSize - 1)
                      /\ asyncIoTable'[AIO_IX(d, f)] =
                            [inUse |-> TRUE, fd |-> f, op |-> pending'[d][f]]
    BY <1>1, <1>7 DEF PendingKept, InTable
  <2>1. ~(d = "read" /\ f = fd)
    BY <1>8
  <2>2. pending'[d][f] = pending[d][f] /\ AIO_IX(d, f) # i
    BY <1>5, <1>8, <2>1
  <2> QED BY <1>1, <1>2, <1>7, <2>2 DEF AsyncSafe, PendingKept, InTable
<1>11. SetsAgree'
  <2> SUFFICES ASSUME NEW d \in Directions, NEW f \in AsyncFds
               PROVE  /\ f \in fdSet'[d] <=> pending'[d][f] # 0
                      /\ AIO_IX(d, f) \in 0..(asyncIoTableSize - 1) =>
                            (asyncIoTable'[AIO_IX(d, f)].inUse <=> pending'[d][f] # 0)
    BY <1>7 DEF SetsAgree, InTable
  <2>1. CASE d = "read" /\ f = fd
    BY <1>3, <1>6, <1>7, <1>8, <2>1
  <2>2. CASE ~(d = "read" /\ f = fd)
    <3>1. /\ pending'[d][f] = pending[d][f] /\ AIO_IX(d, f) # i
          /\ f \in fdSet'[d] <=> f \in fdSet[d]
      BY <1>5, <1>8, <2>2
    <3> QED BY <1>1, <1>2, <1>7, <3>1 DEF AsyncSafe, SetsAgree, InTable
  <2> QED BY <2>1, <2>2
<1>12. MaxFdCovers'
  <2> SUFFICES ASSUME NEW d \in Directions, NEW f \in fdSet'[d]
               PROVE  f <= maxFd
    BY <1>1 DEF MaxFdCovers
  <2>1. f \in fdSet[d]
    BY <1>8
  <2> QED BY <1>1, <2>1 DEF AsyncSafe, MaxFdCovers
<1>13. CallCovered' /\ NothingWithoutTable'
  BY <1>1 DEF CallCovered, NothingWithoutTable
<1> QED BY <1>9, <1>10, <1>11, <1>12, <1>13 DEF AsyncSafe

LEMMA AsyncNextInv == AsyncInv /\ [AsyncNext]_asyncVars => AsyncInv'
<1> SUFFICES ASSUME AsyncInv, [AsyncNext]_asyncVars PROVE AsyncInv'
  OBVIOUS
<1>1. CASE UNCHANGED asyncVars
  <2>1. UNCHANGED <<initialized, asyncIoInUse, asyncIoTableSize, asyncIoTable, fdSet, maxFd,
                    call, ops, inits, pending, fault>>
    BY <1>1 DEF asyncVars, table
  <2> QED BY <2>1 DEF AsyncInv, AsyncTypeOK, AsyncSafe, PendingKept, SetsAgree, MaxFdCovers,
                      CallCovered, NothingWithoutTable, InTable
<1>2. CASE AsyncNext
  BY <1>1, <1>2, TableInitInv, TableShutdownInv, GrowInv, EnterInv, CloseInv, CloseReadInv, BeginInv
     DEF AsyncNext, Rest
<1> QED BY <1>1, <1>2

\* What os_unix.c keeps of asynchronous operations has its types.
THEOREM AsyncTypes == AsyncSpec => []AsyncTypeOK
<1>1. AsyncInv => AsyncTypeOK
  BY DEF AsyncInv
<1> QED BY <1>1, AsyncInitInv, AsyncNextInv, PTL DEF AsyncSpec

\* OS_AsyncRead, OS_AsyncWrite, OS_Close, OS_CloseRead, OS_LibInit and OS_LibShutdown: what
\* is in the table, the sets of descriptors and maxFd agree on what is under way.
THEOREM TableAgrees == AsyncSpec => []AsyncSafe
<1>1. AsyncInv => AsyncSafe
  BY DEF AsyncInv
<1> QED BY <1>1, AsyncInitInv, AsyncNextInv, PTL DEF AsyncSpec

-----------------------------------------------------------------------------
(* The descriptors of the processes.                                       *)

\* The system gives a descriptor that is free.
LEMMA LowestFree ==
    ASSUME NEW p \in Procs, Free(p) # {}
    PROVE  Lowest(p) \in Fds /\ fds[p][Lowest(p)] = Closed
<1>1. Free(p) \subseteq Nat
  BY ProcessesAssumption DEF Free, Fds
<1>2. \E m \in Free(p) : \A k \in Free(p) : m <= k
  BY <1>1, LeastNatural
<1>3. Lowest(p) \in Free(p)
  BY <1>2 DEF Lowest, Min
<1> QED BY <1>3 DEF Free

\* Besides ProcessesSafe: a listening socket has its own number and a process has it once,
\* so that the one moved to descriptor 0 of a child is nowhere else; and a process that was
\* not started has not asked what its descriptor 0 is.
NumbersMade ==
    /\ \A p \in Procs, f \in Fds : fds[p][f].nr <= sockets
    /\ \A p \in Procs : inherited[p].nr <= sockets

ListenersOnce == \A p \in Procs, f, g \in Fds :
    fds[p][f].kind = "listener" /\ fds[p][f] = fds[p][g] => f = g

UnusedUnasked == \A p \in Procs : state[p] = "unused" => isFastCGI[p] = -1

ProcessesInv == ProcessesTypeOK /\ ProcessesSafe /\ NumbersMade /\ ListenersOnce /\ UnusedUnasked

LEMMA OpenKinds ==
    /\ \A i \in 1..MaxSockets : Listener(i) \in Sockets("listener")
    /\ \A o \in Open \cup {Closed} : o.nr \in 0..MaxSockets
    /\ File # Closed /\ File.kind # "listener" /\ Closed.kind # "listener"
    /\ File.nr = 0 /\ Closed.nr = 0
    /\ \A o \in Open : o # Closed
    /\ \A o \in Sockets("listener") : o \in Open /\ o.kind = "listener"
    /\ \A o \in Open : o.kind = "listener" => o \in Sockets("listener")
BY ProcessesAssumption DEF Listener, Sockets, Open, File, Closed

LEMMA ProcessesInitInv == ProcessesInit => ProcessesInv
<1> SUFFICES ASSUME ProcessesInit PROVE ProcessesInv
  OBVIOUS
<1> USE ProcessesAssumption
<1>1. PICK given \in SUBSET (0..2) :
           /\ fds = [p \in Procs |-> IF p = Parent
                                     THEN [f \in Fds |-> IF f \in given THEN File ELSE Closed]
                                     ELSE Empty]
           /\ known = [p \in Procs |-> IF p = Parent THEN given ELSE {}]
  BY DEF ProcessesInit
<1>2. Parent \in Procs /\ given \subseteq Fds
  BY DEF Procs, Fds
<1>3. \A p \in Procs, f \in Fds : fds[p][f] = IF p = Parent /\ f \in given THEN File ELSE Closed
  BY <1>1 DEF Empty
<1>4. ProcessesTypeOK
  <2>1. fds \in [Procs -> [Fds -> Open \cup {Closed}]] /\ known \in [Procs -> SUBSET Fds]
    BY <1>1, <1>2 DEF Empty, Open
  <2>2. sockets \in 0..MaxSockets /\ closes \in 0..MaxCloses
        /\ bound \in [{"path", "port"} -> 0..MaxSockets]
    BY DEF ProcessesInit
  <2>3. /\ state \in [Procs -> {"unused", "runs", "exited"}]
        /\ isFastCGI \in [Procs -> {-1, 0, 1}]
        /\ inherited \in [Procs -> Sockets("listener") \cup {Closed}]
    BY DEF ProcessesInit
  <2> QED BY <2>1, <2>2, <2>3 DEF ProcessesTypeOK
<1>5. ChildListens /\ HeldOnce
  BY DEF ProcessesInit, ChildListens, HeldOnce, Runs, Procs
<1>6. CacheTrue /\ UnusedUnasked
  BY DEF ProcessesInit, CacheTrue, UnusedUnasked
<1>7. NoStrayFd
  <2> SUFFICES ASSUME NEW p \in Procs PROVE known[p] = {f \in Fds : fds[p][f] # Closed}
    BY DEF NoStrayFd
  <2> QED BY <1>1, <1>2, <1>3, OpenKinds
<1>8. NumbersMade /\ ListenersOnce
  BY <1>3, OpenKinds DEF ProcessesInit, NumbersMade, ListenersOnce
<1> QED BY <1>4, <1>5, <1>6, <1>7, <1>8 DEF ProcessesInv, ProcessesSafe

\* A process that ends, for want of a descriptor, a name or a process, leaves the others.
LEMMA ExitInv ==
    ASSUME ProcessesInv, NEW p \in Procs, Exit(p),
           UNCHANGED <<isFastCGI, bound, sockets, closes, inherited>>
    PROVE  ProcessesInv'
<1> USE ProcessesAssumption DEF ProcessesInv
<1>1. /\ state' = [state EXCEPT ![p] = "exited"]
      /\ fds' = [fds EXCEPT ![p] = Empty]
      /\ known' = [known EXCEPT ![p] = {}]
  BY DEF Exit
<1>2. Empty \in [Fds -> Open \cup {Closed}] /\ \A f \in Fds : Empty[f] = Closed
  BY DEF Empty
<1>3. ProcessesTypeOK'
  BY <1>1, <1>2 DEF ProcessesTypeOK
<1>4. /\ \A q \in Procs : q # p =>
            state'[q] = state[q] /\ fds'[q] = fds[q] /\ known'[q] = known[q]
      /\ state'[p] = "exited" /\ fds'[p] = Empty /\ known'[p] = {}
  BY <1>1 DEF ProcessesTypeOK
<1>5. ChildListens' /\ HeldOnce' /\ CacheTrue'
  BY <1>4 DEF ProcessesSafe, ChildListens, HeldOnce, CacheTrue, Runs, Procs
<1>6. NoStrayFd'
  BY <1>2, <1>4 DEF ProcessesSafe, NoStrayFd
<1>7. NumbersMade' /\ ListenersOnce' /\ UnusedUnasked'
  <2>1. sockets \in Nat
    BY DEF ProcessesTypeOK
  <2> QED BY <1>2, <1>4, <2>1, OpenKinds DEF NumbersMade, ListenersOnce, UnusedUnasked
<1> QED BY <1>3, <1>5, <1>6, <1>7 DEF ProcessesSafe

\* A socket is made and given the lowest descriptor.
LEMMA SocketInv ==
    ASSUME ProcessesInv, NEW p \in Procs, Runs(p), sockets < MaxSockets, Free(p) # {},
           NEW kind \in {"listener", "connection"},
           sockets' = sockets + 1,
           fds' = [fds EXCEPT ![p][Lowest(p)] = [kind |-> kind, nr |-> sockets']],
           bound' \in [{"path", "port"} -> 0..MaxSockets],
           Gives(p, Lowest(p)),
           isFastCGI' = IF kind = "listener" /\ Lowest(p) = FCGI_LISTENSOCK_FILENO
                           /\ isFastCGI[p] = 0
                        THEN [isFastCGI EXCEPT ![p] = 1] ELSE isFastCGI,
           UNCHANGED <<state, closes, inherited>>
    PROVE  ProcessesInv'
<1> USE ProcessesAssumption DEF ProcessesInv, FCGI_LISTENSOCK_FILENO
<1> DEFINE l == Lowest(p)
           new == [kind |-> kind, nr |-> sockets']
<1>1. l \in Fds /\ fds[p][l] = Closed
  BY LowestFree
<1>2. sockets \in Nat /\ sockets' = sockets + 1 /\ sockets' \in 1..MaxSockets
  BY DEF ProcessesTypeOK
<1>3. /\ new \in Open /\ new # Closed /\ new.nr = sockets' /\ new.kind = kind
      /\ kind = "listener" => new \in Sockets("listener")
  <2>1. new.nr = sockets' /\ new.kind = kind
    OBVIOUS
  <2>2. new # Closed
    BY <1>2, <2>1, OpenKinds
  <2>3. new \in Sockets(kind) /\ Sockets(kind) \subseteq Open
    BY <1>2 DEF Sockets, Open
  <2> QED BY <2>1, <2>2, <2>3
<1>4. known' = [known EXCEPT ![p] = @ \cup {l}] /\ fds' = [fds EXCEPT ![p][l] = new]
  BY DEF Gives
<1> HIDE DEF new, l
<1>5. /\ fds' \in [Procs -> [Fds -> Open \cup {Closed}]] /\ known' \in [Procs -> SUBSET Fds]
      /\ fds'[p][l] = new
      /\ \A q \in Procs, f \in Fds : ~(q = p /\ f = l) => fds'[q][f] = fds[q][f]
      /\ known'[p] = known[p] \cup {l}
      /\ \A q \in Procs : q # p => known'[q] = known[q]
  BY <1>1, <1>3, <1>4 DEF ProcessesTypeOK
<1>6. /\ isFastCGI' \in [Procs -> {-1, 0, 1}]
      /\ \A q \in Procs : isFastCGI'[q] =
            IF q = p /\ kind = "listener" /\ l = 0 /\ isFastCGI[p] = 0 THEN 1 ELSE isFastCGI[q]
  BY DEF ProcessesTypeOK, l
<1>7. ProcessesTypeOK'
  <2>1. sockets' \in 0..MaxSockets
    BY <1>2
  <2> QED BY <1>5, <1>6, <2>1 DEF ProcessesTypeOK
<1>8. UNCHANGED <<state, inherited>> /\ \A q \in Procs : Runs(q)' <=> Runs(q)
  BY DEF Runs
<1>9. 0 \in Fds
  BY DEF Fds
<1>10. \A q \in Procs, f \in Fds : fds[q][f] # new /\ inherited[q] # new
  BY <1>2, <1>3 DEF NumbersMade
<1>11. ChildListens'
  <2> SUFFICES ASSUME NEW c \in Children, Runs(c), inherited[c] # Closed
               PROVE  fds'[c][0] = inherited[c] /\ isFastCGI'[c] # 0
    BY <1>8 DEF ChildListens, Procs
  <2>1. c \in Procs /\ fds[c][0] = inherited[c] /\ isFastCGI[c] # 0
    BY DEF ProcessesSafe, ChildListens, Procs
  <2> QED BY <1>1, <1>5, <1>6, <1>9, <2>1
<1>12. HeldOnce'
  <2> SUFFICES ASSUME NEW c \in Children, Runs(c), NEW f \in Fds \ {0}
               PROVE  fds'[c][f] = Closed \/ fds'[c][f] # inherited[c]
    BY <1>8 DEF HeldOnce, Procs
  <2>1. c \in Procs /\ (fds[c][f] = Closed \/ fds[c][f] # inherited[c])
    BY DEF ProcessesSafe, HeldOnce, Procs
  <2> QED BY <1>5, <1>10, <2>1
<1>13. CacheTrue'
  <2> SUFFICES ASSUME NEW q \in Procs, Runs(q), isFastCGI'[q] # -1
               PROVE  isFastCGI'[q] = 1 <=> fds'[q][0].kind = "listener"
    BY <1>8 DEF CacheTrue
  <2>1. isFastCGI[q] # -1 => (isFastCGI[q] = 1 <=> fds[q][0].kind = "listener")
    BY DEF ProcessesSafe, CacheTrue
  <2>2. isFastCGI[q] \in {-1, 0, 1}
    BY DEF ProcessesTypeOK
  <2>3. CASE ~(q = p /\ l = 0)
    BY <1>5, <1>6, <1>9, <2>1, <2>3
  <2>4. CASE q = p /\ l = 0
    <3>1. fds[q][0].kind # "listener" /\ fds'[q][0].kind = kind
      BY <1>1, <1>3, <1>5, <2>4, OpenKinds
    <3> QED BY <1>6, <2>1, <2>2, <2>4, <3>1
  <2> QED BY <2>3, <2>4
<1>14. NoStrayFd'
  <2> SUFFICES ASSUME NEW q \in Procs PROVE known'[q] = {f \in Fds : fds'[q][f] # Closed}
    BY DEF NoStrayFd
  <2>1. known[q] = {f \in Fds : fds[q][f] # Closed}
    BY DEF ProcessesSafe, NoStrayFd
  <2> QED BY <1>1, <1>3, <1>5, <2>1
<1>15. NumbersMade'
  <2> SUFFICES ASSUME NEW q \in Procs, NEW f \in Fds
               PROVE  fds'[q][f].nr <= sockets' /\ inherited[q].nr <= sockets'
    BY <1>8, <1>9 DEF NumbersMade
  <2>1. fds[q][f].nr \in Int /\ inherited[q].nr \in Int
    <3>1. fds[q][f] \in Open \cup {Closed}
      BY DEF ProcessesTypeOK
    <3>2. inherited[q] \in Sockets("listener") \cup {Closed}
      BY DEF ProcessesTypeOK
    <3>3. inherited[q] \in Open \cup {Closed}
      BY <3>2, OpenKinds
    <3>4. \A o \in Open \cup {Closed} : o.nr \in Int
      BY OpenKinds
    <3> QED BY <3>1, <3>3, <3>4
  <2>2. fds[q][f].nr <= sockets /\ inherited[q].nr <= sockets
    BY DEF NumbersMade
  <2> QED BY <1>2, <1>3, <1>5, <2>1, <2>2
<1>16. ListenersOnce'
  BY <1>5, <1>10 DEF ListenersOnce
<1>17. UnusedUnasked'
  BY <1>6, <1>8 DEF UnusedUnasked, Runs
<1> QED BY <1>7, <1>11, <1>12, <1>13, <1>14, <1>15, <1>16, <1>17 DEF ProcessesSafe

\* What the child has open at execl: of what the parent has, the listening socket as 0.
LEMMA ChildHas ==
    ASSUME ProcessesInv, NEW p \in Procs, NEW listenFd \in Fds, fds[p][listenFd].kind = "listener"
    PROVE  LET child == ChildFds(fds[p], listenFd)
               given == IF listenFd = Stdin THEN Closed ELSE fds[p][listenFd]
           IN  /\ child \in [Fds -> Open \cup {Closed}]
               /\ child[0] = given
               /\ \A f \in Fds \ {0} : child[f] = Closed \/ (child[f] = fds[p][f] /\ f # listenFd)
<1> USE ProcessesAssumption DEF ProcessesInv, Stdin, FCGI_LISTENSOCK_FILENO
<1> DEFINE child == ChildFds(fds[p], listenFd)
           given == IF listenFd = Stdin THEN Closed ELSE fds[p][listenFd]
           stdinClosed == [fds[p] EXCEPT ![0] = Closed]
           moved == IF listenFd = 0 THEN stdinClosed
                    ELSE [stdinClosed EXCEPT ![0] = fds[p][listenFd], ![listenFd] = Closed]
<1>1. fds[p] \in [Fds -> Open \cup {Closed}] /\ {0, 1, 2} \subseteq Fds /\ Fds \subseteq Nat
  BY DEF ProcessesTypeOK, Fds
<1>2. child = [moved EXCEPT ![1] = Closed, ![2] = Closed]
  BY DEF ChildFds
<1>3. stdinClosed \in [Fds -> Open \cup {Closed}] /\ stdinClosed[0] = Closed
      /\ \A f \in Fds \ {0} : stdinClosed[f] = fds[p][f]
  BY <1>1
<1> HIDE DEF stdinClosed
<1>4. /\ moved \in [Fds -> Open \cup {Closed}] /\ moved[0] = given
      /\ \A f \in Fds \ {0} : moved[f] = IF f = listenFd THEN Closed ELSE fds[p][f]
  <2>1. CASE listenFd = 0
    BY <1>3, <2>1
  <2>2. CASE listenFd # 0
    BY <1>1, <1>3, <2>2
  <2> QED BY <2>1, <2>2
<1> HIDE DEF moved, given, child
<1>5. /\ child \in [Fds -> Open \cup {Closed}] /\ child[0] = given
      /\ \A f \in Fds \ {0} : child[f] = Closed \/ (child[f] = fds[p][f] /\ f # listenFd)
  BY <1>1, <1>2, <1>4
<1> QED BY <1>5 DEF child, given

\* A child is started on a listening socket of its parent, or execl fails and it is gone.
LEMMA SpawnInv ==
    ASSUME ProcessesInv, NEW p \in Procs, NEW c \in Children, NEW listenFd \in Fds,
           SpawnChild(p, c, listenFd)
    PROVE  ProcessesInv'
<1> USE ProcessesAssumption DEF ProcessesInv, FCGI_LISTENSOCK_FILENO
<1>1. /\ state[p] = "runs" /\ state[c] = "unused" /\ p # c /\ c \in Procs /\ Parent # c
      /\ fds[p][listenFd].kind = "listener"
      /\ UNCHANGED <<isFastCGI, bound, sockets, closes>>
  BY DEF SpawnChild, Runs, Procs
<1>2. CASE /\ state' = [state EXCEPT ![c] = "exited"]
           /\ UNCHANGED <<fds, known, inherited>>
  <2>1. /\ state' \in [Procs -> {"unused", "runs", "exited"}]
        /\ state'[c] = "exited" /\ \A q \in Procs : q # c => state'[q] = state[q]
    BY <1>1, <1>2 DEF ProcessesTypeOK
  <2>2. ProcessesTypeOK'
    BY <1>1, <1>2, <2>1 DEF ProcessesTypeOK
  <2>3. ProcessesSafe' /\ NumbersMade' /\ ListenersOnce' /\ UnusedUnasked'
    BY <1>1, <1>2, <2>1 DEF ProcessesSafe, ChildListens, HeldOnce, CacheTrue, NoStrayFd,
                           NumbersMade, ListenersOnce, UnusedUnasked, Runs, Procs
  <2> QED BY <2>2, <2>3
<1>3. CASE /\ state' = [state EXCEPT ![c] = "runs"]
           /\ fds' = [fds EXCEPT ![c] = ChildFds(fds[p], listenFd)]
           /\ known' = [known EXCEPT ![c] = {f \in Fds : fds'[c][f] # Closed}]
           /\ inherited' = [inherited EXCEPT ![c] =
                               IF listenFd = Stdin THEN Closed ELSE fds[p][listenFd]]
  <2> DEFINE child == ChildFds(fds[p], listenFd)
             given == IF listenFd = Stdin THEN Closed ELSE fds[p][listenFd]
  <2>1. /\ child \in [Fds -> Open \cup {Closed}] /\ child[0] = given
        /\ \A f \in Fds \ {0} : child[f] = Closed \/ (child[f] = fds[p][f] /\ f # listenFd)
    BY <1>1, ChildHas
  <2>2. fds[p][listenFd] \in Sockets("listener") /\ fds[p] \in [Fds -> Open \cup {Closed}]
    <3>1. fds[p] \in [Fds -> Open \cup {Closed}]
      BY DEF ProcessesTypeOK
    <3> QED BY <1>1, <3>1, OpenKinds
  <2>3. given \in Sockets("listener") \cup {Closed}
    BY <2>2
  <2>4. given = Closed \/ given = fds[p][listenFd]
    OBVIOUS
  <2>5. fds' = [fds EXCEPT ![c] = child] /\ inherited' = [inherited EXCEPT ![c] = given]
    BY <1>3
  <2> HIDE DEF child, given
  <2>6. /\ fds' \in [Procs -> [Fds -> Open \cup {Closed}]]
        /\ fds'[c] = child /\ \A q \in Procs : q # c => fds'[q] = fds[q]
        /\ inherited' \in [Procs -> Sockets("listener") \cup {Closed}]
        /\ inherited'[c] = given /\ \A q \in Procs : q # c => inherited'[q] = inherited[q]
    BY <1>1, <2>1, <2>3, <2>5 DEF ProcessesTypeOK
  <2>7. /\ state' \in [Procs -> {"unused", "runs", "exited"}] /\ state'[c] = "runs"
        /\ \A q \in Procs : q # c => state'[q] = state[q]
        /\ known' \in [Procs -> SUBSET Fds] /\ known'[c] = {f \in Fds : fds'[c][f] # Closed}
        /\ \A q \in Procs : q # c => known'[q] = known[q]
    BY <1>1, <1>3 DEF ProcessesTypeOK
  <2>8. ProcessesTypeOK'
    BY <1>1, <2>6, <2>7 DEF ProcessesTypeOK
  <2>9. isFastCGI'[c] = -1
    BY <1>1 DEF UnusedUnasked
  <2>10. ChildListens'
    BY <1>1, <2>1, <2>6, <2>7, <2>9 DEF ProcessesSafe, ChildListens, Runs, Procs
  <2>11. HeldOnce'
    <3> SUFFICES ASSUME NEW d \in Children, Runs(d)', NEW f \in Fds \ {0}
                 PROVE  fds'[d][f] = Closed \/ fds'[d][f] # inherited'[d]
      BY DEF HeldOnce
    <3>1. CASE d # c
      BY <2>6, <2>7, <3>1 DEF ProcessesSafe, HeldOnce, Runs, Procs
    <3>2. CASE d = c /\ child[f] # Closed
      <4>1. child[f] = fds[p][f] /\ f # listenFd
        BY <2>1, <3>2
      <4>2. fds[p][f] # fds[p][listenFd]
        BY <1>1, <4>1 DEF ListenersOnce
      <4> QED BY <2>4, <2>6, <3>2, <4>1, <4>2
    <3>3. CASE d = c /\ child[f] = Closed
      BY <2>6, <3>3
    <3> QED BY <3>1, <3>2, <3>3
  <2>12. CacheTrue'
    BY <1>1, <2>6, <2>7, <2>9 DEF ProcessesSafe, CacheTrue, Runs
  <2>13. NoStrayFd'
    BY <2>6, <2>7 DEF ProcessesSafe, NoStrayFd
  <2>14. \A f \in Fds : \E g \in Fds : child[f] = Closed \/ child[f] = fds[p][g]
    BY <2>1, <2>4
  <2>15. NumbersMade'
    <3>1. sockets \in Nat
      BY DEF ProcessesTypeOK
    <3>2. \A f \in Fds : child[f].nr <= sockets
      BY <2>14, <3>1, OpenKinds DEF NumbersMade
    <3>3. given.nr <= sockets
      BY <2>4, <3>1, OpenKinds DEF NumbersMade
    <3> QED BY <1>1, <2>6, <3>2, <3>3 DEF NumbersMade
  <2>16. ListenersOnce'
    <3> SUFFICES ASSUME NEW q \in Procs, NEW f \in Fds, NEW g \in Fds,
                        fds'[q][f].kind = "listener", fds'[q][f] = fds'[q][g]
                 PROVE  f = g
      BY DEF ListenersOnce
    <3>1. CASE q # c
      BY <2>6, <3>1 DEF ListenersOnce
    <3>2. CASE q = c
      <4> DEFINE from(x) == IF x = 0 THEN listenFd ELSE x
      <4>1. \A x \in Fds : child[x].kind = "listener" =>
               /\ child[x] = fds[p][from(x)] /\ from(x) \in Fds
               /\ x # 0 => x # listenFd
        BY <2>1, <2>4, OpenKinds
      <4>2. from(f) = from(g)
        BY <2>6, <3>2, <4>1 DEF ListenersOnce
      <4> QED BY <2>6, <3>2, <4>1, <4>2
    <3> QED BY <3>1, <3>2
  <2>17. UnusedUnasked'
    BY <1>1, <2>7 DEF UnusedUnasked
  <2> QED BY <2>8, <2>10, <2>11, <2>12, <2>13, <2>15, <2>16, <2>17 DEF ProcessesSafe
<1> QED BY <1>2, <1>3 DEF SpawnChild

\* A process asks what its descriptor 0 is.
LEMMA IsCGIInv ==
    ASSUME ProcessesInv, NEW p \in Procs, IsCGI(p)
    PROVE  ProcessesInv'
<1> USE ProcessesAssumption DEF ProcessesInv, FCGI_LISTENSOCK_FILENO
<1> DEFINE answer == IF IsFcgi(p, 0) THEN 1 ELSE 0
<1>1. /\ state[p] = "runs" /\ isFastCGI' = [isFastCGI EXCEPT ![p] = answer]
      /\ UNCHANGED <<fds, state, bound, sockets, closes, known, inherited>>
  BY DEF IsCGI, Runs
<1>2. answer \in {0, 1} /\ (answer = 1 <=> fds[p][0].kind = "listener")
  BY DEF IsFcgi
<1> HIDE DEF answer
<1>3. isFastCGI' \in [Procs -> {-1, 0, 1}] /\ isFastCGI'[p] = answer
      /\ \A q \in Procs : q # p => isFastCGI'[q] = isFastCGI[q]
  BY <1>1, <1>2 DEF ProcessesTypeOK
<1>4. ProcessesTypeOK'
  BY <1>1, <1>3 DEF ProcessesTypeOK
<1>5. ChildListens'
  <2> SUFFICES ASSUME NEW c \in Children, Runs(c), inherited[c] # Closed
               PROVE  fds[c][0] = inherited[c] /\ isFastCGI'[c] # 0
    BY <1>1 DEF ChildListens, Runs
  <2>1. c \in Procs /\ fds[c][0] = inherited[c] /\ isFastCGI[c] # 0
    BY DEF ProcessesSafe, ChildListens, Procs
  <2>2. inherited[c] \in Sockets("listener")
    BY <2>1 DEF ProcessesTypeOK
  <2> QED BY <1>2, <1>3, <2>1, <2>2, OpenKinds
<1>6. CacheTrue'
  BY <1>1, <1>2, <1>3 DEF ProcessesSafe, CacheTrue, Runs
<1>7. HeldOnce' /\ NoStrayFd' /\ NumbersMade' /\ ListenersOnce'
  BY <1>1 DEF ProcessesSafe, HeldOnce, NoStrayFd, NumbersMade, ListenersOnce, Runs
<1>8. UnusedUnasked'
  BY <1>1, <1>3 DEF UnusedUnasked
<1> QED BY <1>4, <1>5, <1>6, <1>7, <1>8 DEF ProcessesSafe

\* The application closes a descriptor, but not the socket it serves.
LEMMA CloseFdInv ==
    ASSUME ProcessesInv, NEW p \in Procs, NEW f \in Fds, CloseFd(p, f)
    PROVE  ProcessesInv'
<1> USE ProcessesAssumption DEF ProcessesInv, FCGI_LISTENSOCK_FILENO
<1>1. /\ state[p] = "runs" /\ closes < MaxCloses /\ closes' = closes + 1
      /\ f = 0 => isFastCGI[p] # 1 /\ fds[p][f] # inherited[p]
      /\ fds' = [fds EXCEPT ![p][f] = Closed]
      /\ known' = [known EXCEPT ![p] = @ \ {f}]
      /\ UNCHANGED <<state, isFastCGI, bound, sockets, inherited>>
  BY DEF CloseFd, Runs
<1>2. /\ fds' \in [Procs -> [Fds -> Open \cup {Closed}]] /\ fds'[p][f] = Closed
      /\ \A q \in Procs, g \in Fds : ~(q = p /\ g = f) => fds'[q][g] = fds[q][g]
      /\ known' \in [Procs -> SUBSET Fds] /\ known'[p] = known[p] \ {f}
      /\ \A q \in Procs : q # p => known'[q] = known[q]
  BY <1>1 DEF ProcessesTypeOK
<1>3. ProcessesTypeOK'
  <2>1. closes' \in 0..MaxCloses
    BY <1>1 DEF ProcessesTypeOK
  <2> QED BY <1>1, <1>2, <2>1 DEF ProcessesTypeOK
<1>4. 0 \in Fds
  BY DEF Fds
<1>5. ChildListens'
  <2> SUFFICES ASSUME NEW c \in Children, Runs(c), inherited[c] # Closed
               PROVE  fds'[c][0] = inherited[c] /\ isFastCGI[c] # 0
    BY <1>1 DEF ChildListens, Runs
  <2>1. c \in Procs /\ fds[c][0] = inherited[c] /\ isFastCGI[c] # 0
    BY DEF ProcessesSafe, ChildListens, Procs
  <2> QED BY <1>1, <1>2, <1>4, <2>1
<1>6. HeldOnce'
  <2> SUFFICES ASSUME NEW c \in Children, Runs(c), NEW g \in Fds \ {0}
               PROVE  fds'[c][g] = Closed \/ fds'[c][g] # inherited[c]
    BY <1>1 DEF HeldOnce, Runs
  <2> QED BY <1>2 DEF ProcessesSafe, HeldOnce, Procs
<1>7. CacheTrue'
  <2> SUFFICES ASSUME NEW q \in Procs, Runs(q), isFastCGI[q] # -1
               PROVE  isFastCGI[q] = 1 <=> fds'[q][0].kind = "listener"
    BY <1>1 DEF CacheTrue, Runs
  <2>1. isFastCGI[q] = 1 <=> fds[q][0].kind = "listener"
    BY DEF ProcessesSafe, CacheTrue
  <2> QED BY <1>1, <1>2, <1>4, <2>1, OpenKinds
<1>8. NoStrayFd'
  <2> SUFFICES ASSUME NEW q \in Procs PROVE known'[q] = {g \in Fds : fds'[q][g] # Closed}
    BY DEF NoStrayFd
  <2>1. known[q] = {g \in Fds : fds[q][g] # Closed}
    BY DEF ProcessesSafe, NoStrayFd
  <2> QED BY <1>2, <2>1
<1>9. NumbersMade' /\ ListenersOnce' /\ UnusedUnasked'
  <2>1. sockets \in Nat
    BY DEF ProcessesTypeOK
  <2>2. NumbersMade'
    BY <1>1, <1>2, <2>1, OpenKinds DEF NumbersMade
  <2>3. ListenersOnce'
    BY <1>2, OpenKinds DEF ListenersOnce
  <2> QED BY <1>1, <2>2, <2>3 DEF UnusedUnasked
<1> QED BY <1>3, <1>5, <1>6, <1>7, <1>8, <1>9 DEF ProcessesSafe

\* A socket for a connection that is refused is closed again: only its number is gone.
LEMMA RefusedInv ==
    ASSUME ProcessesInv, sockets' \in {sockets, sockets + 1}, sockets' \in 0..MaxSockets,
           UNCHANGED <<fds, state, isFastCGI, bound, closes, known, inherited>>
    PROVE  ProcessesInv'
<1> USE ProcessesAssumption DEF ProcessesInv
<1>1. ProcessesTypeOK'
  BY DEF ProcessesTypeOK
<1>2. ProcessesSafe' /\ ListenersOnce' /\ UnusedUnasked'
  BY DEF ProcessesSafe, ChildListens, HeldOnce, CacheTrue, NoStrayFd, ListenersOnce,
         UnusedUnasked, Runs
<1>3. NumbersMade'
  <2>1. \A q \in Procs, f \in Fds : fds[q][f] \in Open \cup {Closed}
    BY DEF ProcessesTypeOK
  <2>2. \A q \in Procs : inherited[q] \in Open \cup {Closed}
    <3>1. \A q \in Procs : inherited[q] \in Sockets("listener") \cup {Closed}
      BY DEF ProcessesTypeOK
    <3> QED BY <3>1, OpenKinds
  <2>3. \A o \in Open \cup {Closed} : o.nr \in Int
    BY OpenKinds
  <2>4. sockets \in Int /\ sockets' \in Int /\ sockets <= sockets'
    BY DEF ProcessesTypeOK
  <2>5. \A o \in Open \cup {Closed} : o.nr <= sockets => o.nr <= sockets'
    BY <2>3, <2>4
  <2> QED BY <2>1, <2>2, <2>5 DEF NumbersMade
<1> QED BY <1>1, <1>2, <1>3

LEMMA ProcessesNextInv == ProcessesInv /\ [ProcessesNext]_processesVars => ProcessesInv'
<1> SUFFICES ASSUME ProcessesInv, [ProcessesNext]_processesVars PROVE ProcessesInv'
  OBVIOUS
<1> USE ProcessesAssumption
<1>1. CASE UNCHANGED processesVars
  <2>1. /\ UNCHANGED <<fds, state, isFastCGI, bound, closes, known, inherited>>
        /\ sockets' = sockets /\ sockets \in 0..MaxSockets
    BY <1>1 DEF processesVars, ProcessesInv, ProcessesTypeOK
  <2> QED BY <2>1, RefusedInv
<1>2. ASSUME NEW p \in Procs, IsCGI(p) PROVE ProcessesInv'
  BY <1>2, IsCGIInv
<1>3. ASSUME NEW p \in Procs, ForkFails(p) PROVE ProcessesInv'
  BY <1>3, ExitInv DEF ForkFails
<1>4. ASSUME NEW p \in Procs, NEW f \in Fds, CloseFd(p, f) PROVE ProcessesInv'
  BY <1>4, CloseFdInv
<1>5. ASSUME NEW p \in Procs, NEW f \in Fds, NEW c \in Children, SpawnChild(p, c, f)
      PROVE  ProcessesInv'
  BY <1>5, SpawnInv
<1>6. ASSUME NEW p \in Procs, NEW a \in Addresses, OpenSocket(p, a) PROVE ProcessesInv'
  <2>1. /\ Runs(p) /\ sockets < MaxSockets /\ Free(p) # {} /\ Bindable(a)
        /\ sockets' = sockets + 1
        /\ fds' = [fds EXCEPT ![p][Lowest(p)] = [kind |-> "listener", nr |-> sockets']]
        /\ bound' = [bound EXCEPT ![Place(a)] = sockets']
        /\ Gives(p, Lowest(p))
        /\ isFastCGI' = IF Lowest(p) = FCGI_LISTENSOCK_FILENO /\ isFastCGI[p] = 0
                        THEN [isFastCGI EXCEPT ![p] = 1] ELSE isFastCGI
        /\ UNCHANGED <<state, closes, inherited>>
    BY <1>6 DEF OpenSocket, Listener
  <2>2. bound' \in [{"path", "port"} -> 0..MaxSockets]
    <3>1. bound \in [{"path", "port"} -> 0..MaxSockets] /\ sockets + 1 \in 0..MaxSockets
      BY <2>1 DEF ProcessesInv, ProcessesTypeOK
    <3> QED BY <2>1, <3>1
  <2> DEFINE kind == "listener"
  <2>3. kind \in {"listener", "connection"}
    OBVIOUS
  <2>4. /\ fds' = [fds EXCEPT ![p][Lowest(p)] = [kind |-> kind, nr |-> sockets']]
        /\ isFastCGI' = IF kind = "listener" /\ Lowest(p) = FCGI_LISTENSOCK_FILENO
                           /\ isFastCGI[p] = 0
                        THEN [isFastCGI EXCEPT ![p] = 1] ELSE isFastCGI
    BY <2>1
  <2> HIDE DEF kind
  <2> QED BY <2>1, <2>2, <2>3, <2>4, SocketInv
<1>7. ASSUME NEW p \in Procs, NEW a \in Addresses, FcgiConnect(p, a) PROVE ProcessesInv'
  <2>1. /\ Runs(p) /\ sockets < MaxSockets /\ Free(p) # {}
        /\ sockets' = sockets + 1
        /\ fds' = [fds EXCEPT ![p][Lowest(p)] = [kind |-> "connection", nr |-> sockets']]
        /\ Gives(p, Lowest(p))
        /\ UNCHANGED <<state, isFastCGI, bound, closes, inherited>>
    BY <1>7 DEF FcgiConnect
  <2>2. bound' \in [{"path", "port"} -> 0..MaxSockets]
    BY <2>1 DEF ProcessesInv, ProcessesTypeOK
  <2> DEFINE kind == "connection"
  <2>3. kind \in {"listener", "connection"} /\ kind # "listener"
    OBVIOUS
  <2>4. /\ fds' = [fds EXCEPT ![p][Lowest(p)] = [kind |-> kind, nr |-> sockets']]
        /\ isFastCGI' = IF kind = "listener" /\ Lowest(p) = FCGI_LISTENSOCK_FILENO
                           /\ isFastCGI[p] = 0
                        THEN [isFastCGI EXCEPT ![p] = 1] ELSE isFastCGI
    BY <2>1, <2>3
  <2> HIDE DEF kind
  <2> QED BY <2>1, <2>2, <2>3, <2>4, SocketInv
<1>8. ASSUME NEW p \in Procs, NEW a \in Addresses, OpenSocketFails(p, a) PROVE ProcessesInv'
  BY <1>8, ExitInv DEF OpenSocketFails
<1>9. ASSUME NEW p \in Procs, NEW a \in Addresses, ConnectRefused(p, a) PROVE ProcessesInv'
  <2>1. sockets' = sockets + 1 /\ sockets' \in 0..MaxSockets
        /\ UNCHANGED <<fds, state, isFastCGI, bound, closes, known, inherited>>
    BY <1>9 DEF ConnectRefused, ProcessesInv, ProcessesTypeOK
  <2> QED BY <2>1, RefusedInv
<1>10. ASSUME NEW p \in Procs, NEW a \in Addresses, ConnectExits(p, a) PROVE ProcessesInv'
  BY <1>10, ExitInv DEF ConnectExits
<1> QED BY <1>1, <1>2, <1>3, <1>4, <1>5, <1>6, <1>7, <1>8, <1>9, <1>10
        DEF ProcessesNext, DoNothing

\* What the processes keep of descriptors and sockets has its types.
THEOREM ProcessesTypes == ProcessesSpec => []ProcessesTypeOK
<1>1. ProcessesInv => ProcessesTypeOK
  BY DEF ProcessesInv
<1> QED BY <1>1, ProcessesInitInv, ProcessesNextInv, PTL DEF ProcessesSpec

\* FCGX_OpenSocket, OS_FcgiConnect, OS_SpawnChild and FCGX_IsCGI: a child that was spawned
\* has its listening socket once and as descriptor 0, what FCGX_IsCGI keeps stays true, and
\* no descriptor is open that the application does not know of.
THEOREM ChildrenServe == ProcessesSpec => []ProcessesSafe
<1>1. ProcessesInv => ProcessesSafe
  BY DEF ProcessesInv
<1> QED BY <1>1, ProcessesInitInv, ProcessesNextInv, PTL DEF ProcessesSpec

-----------------------------------------------------------------------------
(* Initialisation.                                                         *)

\* What FCGX_Init has done by the time a thread is at a place in it.
SetUp ==
    /\ osInitialized => sigusr1 # "default" /\ (asyncTable # 0 \/ failures > 0)
    /\ \A c \in Callers : pc[c] \in {"list", "flag"} => osInitialized
    /\ \A c \in Callers : pc[c] = "flag" => webServerAddressList = "read"
    /\ libInitialized => osInitialized /\ webServerAddressList = "read"

\* Where main calls FCGX_Init, it is done before a thread begins, and unless it failed no
\* thread runs the body of FCGX_Init again.
MainFirst ==
    /\ program # "threads" => \A t \in Threads : pc[t] # "start" => pc[Main] = "end"
    /\ result[Main] # "0" => pc[Main] \in {"ready", "end"}
    /\ program = "mixed" /\ result[Main] = "0" =>
          /\ pc[Main] \in {"ready", "end"} => libInitialized
          /\ \A t \in Threads : pc[t] \notin {"reset", "table", "list", "flag"}

\* A request has no connection before its thread accepts, nor the_request before main is
\* done with FCGX_Init.
ConnectedLater ==
    /\ \A t \in Threads : pc[t] \in {"start", "init", "reset", "table", "list", "flag", "ready"} =>
          ~connected[t]
    /\ connected[Shared] => program = "mixed" /\ pc[Main] = "end"

\* Each connection of a request is one of the process; FCGX_Init can only lose one.
Connected == {r \in Requests : connected[r]}
Counted ==
    /\ Cardinality(Connected) <= open /\ open <= accepts
    /\ Undisturbed => open = Cardinality(Connected)

\* A request that was accepted stays whole while its thread looks at the result and
\* serves it.
Whole == Undisturbed => \A t \in Threads :
    pc[t] \in {"test", "serve"} /\ result[t] = "0" => in[Own(t)] /\ envp[Own(t)] = "live"

\* The loops that look for more than -1 go on only with what was accepted.
Successful == program # "example" => \A t \in Threads : pc[t] = "serve" => result[t] = "0"

StartupInv == /\ StartupTypeOK /\ SetUp /\ MainFirst /\ ConnectedLater /\ Counted /\ Whole
              /\ Successful

\* What a program does next.
Steps == StartupNext \/ UNCHANGED startupVars

\* Each thread has a request of its own, and one of them may have the_request.
LEMMA OwnersApart ==
    /\ Main \notin Threads /\ Shared \notin Threads /\ Main # Shared
    /\ Threads \subseteq Callers /\ Main \in Callers
    /\ Threads \subseteq Requests /\ Shared \in Requests
    /\ \A t \in Threads : Own(t) \in Requests /\ (Own(t) = Shared <=> UsesStdio(t))
                          /\ (Own(t) # Shared => Own(t) = t)
    /\ \A t, u \in Threads : Own(t) = Own(u) => t = u
BY InitAssumption DEF Callers, Requests, Own, UsesStdio, Main, Shared

LEMMA StartupInitInv == StartupInit => StartupInv
<1> SUFFICES ASSUME StartupInit PROVE StartupInv
  OBVIOUS
<1> USE InitAssumption
<1>1. StartupTypeOK
  <2>1. /\ tables \in 0..MaxTables /\ asyncTable \in 0..tables /\ failures \in 0..MallocFailures
        /\ accepts \in 0..MaxAccepts /\ open \in 0..MaxAccepts
    BY DEF StartupInit
  <2>2. /\ in \in [Requests -> BOOLEAN] /\ connected \in [Requests -> BOOLEAN]
        /\ keepConnection \in [Requests -> BOOLEAN]
        /\ envp \in [Requests -> {"NULL", "live", "freed"}]
    BY DEF StartupInit
  <2>3. /\ pc \in [Callers -> {"start", "init", "reset", "table", "list", "flag", "ready",
                               "accept", "wait", "test", "serve", "end"}]
        /\ result \in [Callers -> {"0", "ENOMEM", "-1", "-errno", "-9998", "-9999"}]
    BY DEF StartupInit
  <2>4. /\ program \in {"threads", "mixed", "example"}
        /\ {libInitialized, osInitialized, fastCGI} \subseteq BOOLEAN
        /\ sigusr1 \in {"default", "application", "library"}
        /\ webServerAddressList \in {"unset", "read"} /\ isFcgi \in {-1, 0, 1}
    BY DEF StartupInit
  <2> QED BY <2>1, <2>2, <2>3, <2>4 DEF StartupTypeOK
<1>2. SetUp /\ MainFirst /\ ConnectedLater /\ Whole /\ Successful
  BY OwnersApart DEF StartupInit, SetUp, MainFirst, ConnectedLater, Whole, Successful
<1>3. Counted
  <2>1. Connected = {} /\ open = 0 /\ accepts = 0
    BY DEF StartupInit, Connected
  <2> QED BY <2>1, FS_EmptySet DEF Counted
<1> QED BY <1>1, <1>2, <1>3 DEF StartupInv

\* Where FCGX_Init is, what it has done.
LEMMA SetUpStep == StartupInv /\ Steps => SetUp'
<1> SUFFICES ASSUME StartupInv, Steps PROVE SetUp'
  OBVIOUS
<1> USE InitAssumption
<1>1. ASSUME NEW t \in Callers, Start(t) PROVE SetUp'
  BY <1>1 DEF StartupInv, StartupTypeOK, SetUp, Start, Goto, lib
<1>2. ASSUME NEW t \in Callers, TestInitialized(t) PROVE SetUp'
  BY <1>2 DEF StartupInv, StartupTypeOK, SetUp, TestInitialized, Goto, lib
<1>3. ASSUME NEW t \in Callers, ResetTheRequest(t) PROVE SetUp'
  BY <1>3 DEF StartupInv, StartupTypeOK, SetUp, ResetTheRequest, Goto, lib
<1>4. ASSUME NEW t \in Callers, LibInit(t) PROVE SetUp'
  BY <1>4 DEF StartupInv, StartupTypeOK, SetUp, LibInit, Goto
<1>5. ASSUME NEW t \in Callers, LibInitFails(t) PROVE SetUp'
  BY <1>5 DEF StartupInv, StartupTypeOK, SetUp, LibInitFails, Goto
<1>6. ASSUME NEW t \in Callers, ReadAddresses(t) PROVE SetUp'
  BY <1>6 DEF StartupInv, StartupTypeOK, SetUp, ReadAddresses, Goto
<1>7. ASSUME NEW t \in Callers, SetInitialized(t) PROVE SetUp'
  BY <1>7 DEF StartupInv, StartupTypeOK, SetUp, SetInitialized, Goto
<1>8. ASSUME NEW t \in Threads, FCGX_Accept_r(t) PROVE SetUp'
  BY <1>8 DEF StartupInv, StartupTypeOK, SetUp, FCGX_Accept_r, NotInitialized, BeginAccept,
              AcceptRequest, AcceptFails, Goto, lib
<1>9. ASSUME NEW t \in Threads, Loop(t) PROVE SetUp'
  BY <1>9 DEF StartupInv, StartupTypeOK, SetUp, Loop, RequestReady, AskIsCGI, TestResult, Serve,
              Goto, lib
<1>10. CASE MainReady
  BY <1>10 DEF StartupInv, StartupTypeOK, SetUp, MainReady, Goto, lib
<1>11. CASE SetHandler
  BY <1>11 DEF StartupInv, SetUp, SetHandler
<1>12. CASE UNCHANGED startupVars
  BY <1>12 DEF StartupInv, SetUp, startupVars, lib
<1> QED BY <1>1, <1>2, <1>3, <1>4, <1>5, <1>6, <1>7, <1>8, <1>9, <1>10, <1>11, <1>12
        DEF Steps, StartupNext, AllWait, FCGX_Init

\* main comes first.
LEMMA MainFirstStep == StartupInv /\ Steps => MainFirst'
<1> SUFFICES ASSUME StartupInv, Steps PROVE MainFirst'
  OBVIOUS
<1> USE InitAssumption, OwnersApart
<1>1. ASSUME NEW t \in Callers, Start(t) PROVE MainFirst'
  BY <1>1 DEF StartupInv, StartupTypeOK, MainFirst, Start, Goto, lib, cgi, process, Callers
<1>2. ASSUME NEW t \in Callers, TestInitialized(t) PROVE MainFirst'
  BY <1>2 DEF StartupInv, StartupTypeOK, MainFirst, TestInitialized, Goto, Returns, lib, cgi,
              process, Callers
<1>3. ASSUME NEW t \in Callers, ResetTheRequest(t) PROVE MainFirst'
  BY <1>3 DEF StartupInv, StartupTypeOK, MainFirst, ResetTheRequest, Goto, lib, cgi, process,
              Callers
<1>4. ASSUME NEW t \in Callers, LibInit(t) PROVE MainFirst'
  BY <1>4 DEF StartupInv, StartupTypeOK, MainFirst, LibInit, Goto, cgi, process, Callers
<1>5. ASSUME NEW t \in Callers, LibInitFails(t) PROVE MainFirst'
  BY <1>5 DEF StartupInv, StartupTypeOK, MainFirst, LibInitFails, Goto, Returns, cgi, process,
              Callers
<1>6. ASSUME NEW t \in Callers, ReadAddresses(t) PROVE MainFirst'
  BY <1>6 DEF StartupInv, StartupTypeOK, MainFirst, ReadAddresses, Goto, cgi, process, Callers
<1>7. ASSUME NEW t \in Callers, SetInitialized(t) PROVE MainFirst'
  BY <1>7 DEF StartupInv, StartupTypeOK, MainFirst, SetInitialized, Goto, Returns, cgi, process,
              Callers
<1>8. ASSUME NEW t \in Threads, FCGX_Accept_r(t) PROVE MainFirst'
  BY <1>8 DEF StartupInv, StartupTypeOK, MainFirst, FCGX_Accept_r, NotInitialized, BeginAccept,
              AcceptRequest, AcceptFails, Goto, Returns, lib, cgi, process, Callers
<1>9. ASSUME NEW t \in Threads, Loop(t) PROVE MainFirst'
  BY <1>9 DEF StartupInv, StartupTypeOK, MainFirst, Loop, RequestReady, AskIsCGI, TestResult,
              Serve, Goto, lib, cgi, process, Callers
<1>10. CASE MainReady
  BY <1>10 DEF StartupInv, StartupTypeOK, MainFirst, MainReady, Goto, lib, cgi, process, Callers
<1>11. CASE SetHandler
  BY <1>11 DEF StartupInv, MainFirst, SetHandler, cgi, process
<1>12. CASE UNCHANGED startupVars
  BY <1>12 DEF StartupInv, MainFirst, startupVars, lib, cgi, process
<1> QED BY <1>1, <1>2, <1>3, <1>4, <1>5, <1>6, <1>7, <1>8, <1>9, <1>10, <1>11, <1>12
        DEF Steps, StartupNext, AllWait, FCGX_Init

\* No step makes good what main's FCGX_Init could not do.
LEMMA StaysDisturbed == StartupInv /\ Steps => (Undisturbed' => Undisturbed) /\ program' = program
<1> SUFFICES ASSUME StartupInv, Steps
             PROVE  (Undisturbed' => Undisturbed) /\ program' = program
  OBVIOUS
<1> USE InitAssumption, OwnersApart DEF Undisturbed, StartupInv, StartupTypeOK, MainFirst
<1>1. ASSUME NEW t \in Callers, Start(t) \/ FCGX_Init(t)
      PROVE  (Undisturbed' => Undisturbed) /\ program' = program
  BY <1>1 DEF Start, FCGX_Init, TestInitialized, ResetTheRequest, LibInit, LibInitFails,
              ReadAddresses, SetInitialized, Goto, Returns, cgi, process
<1>2. ASSUME NEW t \in Threads, FCGX_Accept_r(t) \/ Loop(t)
      PROVE  (Undisturbed' => Undisturbed) /\ program' = program
  BY <1>2 DEF FCGX_Accept_r, NotInitialized, BeginAccept, AcceptRequest, AcceptFails, Loop,
              RequestReady, AskIsCGI, TestResult, Serve, Goto, Returns, cgi, process
<1>3. CASE MainReady \/ SetHandler \/ UNCHANGED startupVars
  BY <1>3 DEF MainReady, SetHandler, startupVars, cgi, process
<1> QED BY <1>1, <1>2, <1>3 DEF Steps, StartupNext, AllWait

\* A connection of one request is opened, closed, or neither.
LEMMA Counting ==
    ASSUME StartupTypeOK, NEW r \in Requests, NEW b \in BOOLEAN,
           connected' = [connected EXCEPT ![r] = b]
    PROVE  /\ Cardinality(Connected) \in Nat
           /\ connected[r] => Cardinality(Connected) > 0
           /\ Cardinality(Connected') = IF b THEN IF connected[r] THEN Cardinality(Connected)
                                             ELSE Cardinality(Connected) + 1
                                   ELSE IF connected[r] THEN Cardinality(Connected) - 1
                                        ELSE Cardinality(Connected)
<1>1. IsFiniteSet(Requests)
  BY InitAssumption, FS_AddElement DEF Requests
<1>2. IsFiniteSet(Connected)
  BY <1>1, FS_Subset DEF Connected
<1>3. Cardinality(Connected) \in Nat
  BY <1>2, FS_CardinalityType
<1>4. connected[r] => Cardinality(Connected) > 0
  <2>1. connected[r] => Connected # {}
    BY DEF Connected
  <2> QED BY <1>2, <1>3, <2>1, FS_EmptySet
<1>5. Connected' = IF b THEN Connected \cup {r} ELSE Connected \ {r}
  BY DEF Connected, StartupTypeOK
<1>6. r \in Connected <=> connected[r]
  BY DEF Connected
<1>7. /\ Cardinality(Connected \cup {r}) = IF r \in Connected THEN Cardinality(Connected) ELSE Cardinality(Connected) + 1
      /\ Cardinality(Connected \ {r}) = IF r \in Connected THEN Cardinality(Connected) - 1 ELSE Cardinality(Connected)
  BY <1>2, FS_AddElement, FS_RemoveElement
<1> QED BY <1>3, <1>4, <1>5, <1>6, <1>7

\* Before the_request is used, FCGX_Init is over.
LEMMA ConnectedLaterStep == StartupInv /\ Steps => ConnectedLater'
<1> SUFFICES ASSUME StartupInv, Steps PROVE ConnectedLater'
  OBVIOUS
<1> USE InitAssumption, OwnersApart DEF StartupInv, StartupTypeOK, ConnectedLater
<1>1. ASSUME NEW t \in Callers, Start(t) \/ TestInitialized(t) PROVE ConnectedLater'
  BY <1>1 DEF Start, TestInitialized, Goto, requests, cgi, process
<1>2. ASSUME NEW t \in Callers, ResetTheRequest(t) PROVE ConnectedLater'
  BY <1>2 DEF ResetTheRequest, InitRequest, Goto, cgi, process
<1>3. ASSUME NEW t \in Callers, LibInit(t) \/ LibInitFails(t) \/ ReadAddresses(t) \/ SetInitialized(t)
      PROVE  ConnectedLater'
  BY <1>3 DEF LibInit, LibInitFails, ReadAddresses, SetInitialized, Goto, requests, cgi, process
<1>4. ASSUME NEW t \in Threads, NotInitialized(t) PROVE ConnectedLater'
  BY <1>4 DEF NotInitialized, Goto, requests, cgi, process
<1>5. ASSUME NEW t \in Threads, BeginAccept(t) PROVE ConnectedLater'
  <2>1. /\ pc[t] = "accept" /\ pc' = [pc EXCEPT ![t] = "wait"] /\ program' = program
        /\ connected' = connected \/ connected' = [connected EXCEPT ![Own(t)] = FALSE]
    BY <1>5 DEF BeginAccept, Finish, Goto, cgi, process
  <2> QED BY <2>1
<1>6. ASSUME NEW t \in Threads, AcceptRequest(t) PROVE ConnectedLater'
  <2>1. /\ pc[t] = "wait" /\ pc' = [pc EXCEPT ![t] = "test"] /\ program' = program
        /\ connected' = [connected EXCEPT ![Own(t)] = TRUE]
    BY <1>6 DEF AcceptRequest, Goto, cgi, process
  <2>2. Own(t) = Shared => program = "mixed" /\ pc[Main] = "end"
    BY <2>1 DEF UsesStdio, MainFirst
  <2> QED BY <2>1, <2>2
<1>7. ASSUME NEW t \in Threads, AcceptFails(t) PROVE ConnectedLater'
  <2>1. /\ pc[t] = "wait" /\ pc' = [pc EXCEPT ![t] = "test"] /\ program' = program
        /\ connected' = [connected EXCEPT ![Own(t)] = FALSE]
    BY <1>7 DEF AcceptFails, Goto, cgi, process
  <2> QED BY <2>1
<1>8. ASSUME NEW t \in Threads, RequestReady(t) PROVE ConnectedLater'
  BY <1>8 DEF RequestReady, InitRequest, Goto, cgi, process
<1>9. ASSUME NEW t \in Threads, AskIsCGI(t) \/ TestResult(t) PROVE ConnectedLater'
  BY <1>9 DEF AskIsCGI, TestResult, Goto, requests, cgi, process, Callers
<1>10. ASSUME NEW t \in Threads, Serve(t) PROVE ConnectedLater'
  <2>1. /\ pc[t] = "serve" /\ pc' = [pc EXCEPT ![t] = "accept"] /\ program' = program
        /\ connected' = connected \/ connected' = [connected EXCEPT ![Own(t)] = FALSE]
    BY <1>10 DEF Serve, Finish, Goto, cgi, process, requests
  <2> QED BY <2>1
<1>11. CASE MainReady \/ SetHandler \/ UNCHANGED startupVars
  BY <1>11 DEF MainReady, SetHandler, startupVars, requests, cgi, process, Goto, Callers
<1> QED BY <1>1, <1>2, <1>3, <1>4, <1>5, <1>6, <1>7, <1>8, <1>9, <1>10, <1>11
        DEF Steps, StartupNext, AllWait, FCGX_Init, FCGX_Accept_r, Loop

\* Every connection that is opened or closed is one of a request.
LEMMA CountedStep == StartupInv /\ Steps => Counted' /\ open' \in 0..MaxAccepts /\ accepts' \in 0..MaxAccepts
<1> DEFINE CountedNext == Counted' /\ open' \in 0..MaxAccepts /\ accepts' \in 0..MaxAccepts
<1> SUFFICES ASSUME StartupInv, Steps PROVE CountedNext
  OBVIOUS
<1> USE InitAssumption, OwnersApart
<1>1. /\ StartupTypeOK /\ open \in 0..MaxAccepts /\ accepts \in 0..MaxAccepts
      /\ Cardinality(Connected) <= open /\ open <= accepts
      /\ Undisturbed => open = Cardinality(Connected)
      /\ Undisturbed' => Undisturbed
  BY StaysDisturbed DEF StartupInv, Counted, StartupTypeOK
<1>2. Cardinality(Connected) \in Nat
  <2>1. IsFiniteSet(Requests) /\ Connected \in SUBSET Requests
    BY FS_AddElement DEF Requests, Connected
  <2>2. IsFiniteSet(Connected)
    BY <2>1, FS_Subset
  <2> QED BY <2>2, FS_CardinalityType
<1>3. ASSUME UNCHANGED <<accepts, open, connected>> PROVE CountedNext
  <2>1. Connected' = Connected
    BY <1>3 DEF Connected
  <2> QED BY <1>1, <1>3, <2>1 DEF Counted
<1>4. ASSUME NEW r \in Requests, accepts' = accepts,
             connected' = [connected EXCEPT ![r] = FALSE],
             open' = IF connected[r] THEN open - 1 ELSE open
      PROVE  CountedNext
  <2>1. Cardinality(Connected') = IF connected[r] THEN Cardinality(Connected) - 1 ELSE Cardinality(Connected)
    BY <1>1, <1>4, Counting
  <2>2. connected[r] => Cardinality(Connected) > 0
    BY <1>1, <1>4, Counting
  <2>3. CASE connected[r]
    <3>1. open' = open - 1 /\ Cardinality(Connected') = Cardinality(Connected) - 1 /\ Cardinality(Connected) > 0
      BY <1>4, <2>1, <2>2, <2>3
    <3> QED BY <1>1, <1>2, <1>4, <3>1 DEF Counted
  <2>4. CASE ~connected[r]
    <3>1. open' = open /\ Cardinality(Connected') = Cardinality(Connected)
      BY <1>4, <2>1, <2>4
    <3> QED BY <1>1, <1>2, <1>4, <3>1 DEF Counted
  <2> QED BY <2>3, <2>4
<1>5. ASSUME NEW r \in Requests, UNCHANGED <<accepts, open>>, ~connected[r] \/ ~Undisturbed',
             connected' = [connected EXCEPT ![r] = FALSE]
      PROVE  CountedNext
  <2>1. Cardinality(Connected') = IF connected[r] THEN Cardinality(Connected) - 1 ELSE Cardinality(Connected)
    BY <1>1, <1>5, Counting
  <2>2. connected[r] \in BOOLEAN
    BY <1>1 DEF StartupTypeOK
  <2> QED BY <1>1, <1>2, <1>5, <2>1, <2>2 DEF Counted
<1>6. ASSUME NEW r \in Requests, Finish(r), accepts' = accepts PROVE CountedNext
  BY <1>3, <1>4, <1>6 DEF Finish
<1>7. ASSUME NEW t \in Callers, Start(t) \/ TestInitialized(t) \/ LibInit(t) \/ LibInitFails(t)
                                \/ ReadAddresses(t) \/ SetInitialized(t)
      PROVE  CountedNext
  BY <1>3, <1>7 DEF Start, TestInitialized, LibInit, LibInitFails, ReadAddresses,
                    SetInitialized, requests
<1>8. ASSUME NEW t \in Callers, ResetTheRequest(t) PROVE CountedNext
  <2>1. /\ UNCHANGED <<accepts, open, result, program>> /\ pc[t] = "reset"
        /\ connected' = [connected EXCEPT ![Shared] = FALSE]
    BY <1>8 DEF ResetTheRequest, InitRequest, cgi, process
  <2>2. ~connected[Shared] \/ ~Undisturbed'
    BY <2>1 DEF StartupInv, ConnectedLater, MainFirst, Undisturbed, Callers
  <2> QED BY <1>5, <2>1, <2>2
<1>9. ASSUME NEW t \in Threads, NotInitialized(t) \/ TestResult(t) \/ AskIsCGI(t) PROVE CountedNext
  BY <1>3, <1>9 DEF NotInitialized, TestResult, AskIsCGI, requests
<1>10. ASSUME NEW t \in Threads, BeginAccept(t) PROVE CountedNext
  BY <1>6, <1>10 DEF BeginAccept
<1>11. ASSUME NEW t \in Threads, AcceptRequest(t) PROVE CountedNext
  <2> DEFINE r == Own(t)
  <2>1. /\ r \in Requests /\ accepts < MaxAccepts /\ accepts' = accepts + 1
        /\ connected' = [connected EXCEPT ![r] = TRUE]
        /\ open' = IF connected[r] THEN open ELSE open + 1
    BY <1>11 DEF AcceptRequest
  <2>2. Cardinality(Connected') = IF connected[r] THEN Cardinality(Connected) ELSE Cardinality(Connected) + 1
    BY <1>1, <2>1, Counting
  <2>3. connected[r] \in BOOLEAN
    BY <1>1, <2>1 DEF StartupTypeOK
  <2> HIDE DEF r
  <2>4. accepts' \in 0..MaxAccepts /\ open' \in 0..MaxAccepts /\ open' <= accepts'
    BY <1>1, <2>1, <2>3
  <2> QED BY <1>1, <1>2, <2>1, <2>2, <2>3, <2>4 DEF Counted
<1>12. ASSUME NEW t \in Threads, AcceptFails(t) PROVE CountedNext
  BY <1>4, <1>12 DEF AcceptFails
<1>13. ASSUME NEW t \in Threads, RequestReady(t) PROVE CountedNext
  <2>1. /\ UNCHANGED <<accepts, open>> /\ ~connected[t]
        /\ connected' = [connected EXCEPT ![t] = FALSE]
    BY <1>13 DEF RequestReady, InitRequest, StartupInv, ConnectedLater
  <2> QED BY <1>5, <2>1
<1>14. ASSUME NEW t \in Threads, Serve(t) PROVE CountedNext
  BY <1>3, <1>6, <1>14 DEF Serve, requests
<1>15. CASE MainReady \/ SetHandler \/ UNCHANGED startupVars
  BY <1>3, <1>15 DEF MainReady, SetHandler, startupVars, requests
<1> QED BY <1>7, <1>8, <1>9, <1>10, <1>11, <1>12, <1>13, <1>14, <1>15
        DEF Steps, StartupNext, AllWait, FCGX_Init, FCGX_Accept_r, Loop

\* What has been accepted stays until its thread is done with it.
LEMMA WholeStep == StartupInv /\ Steps => Whole'
<1> SUFFICES ASSUME StartupInv, Steps, Undisturbed' PROVE Whole'
  BY DEF Whole
<1> USE InitAssumption, OwnersApart
<1> DEFINE Looks(t) == pc[t] \in {"test", "serve"} /\ result[t] = "0"
           Live(t) == in[Own(t)] /\ envp[Own(t)] = "live"
<1>1. Undisturbed /\ program' = program /\ \A t \in Threads : Looks(t) => Live(t)
  BY StaysDisturbed DEF StartupInv, Whole
<1>2. SUFFICES \A t \in Threads : Looks(t)' => Live(t)'
  BY DEF Whole
<1>3. \A t \in Threads : Own(t)' = Own(t)
  BY <1>1 DEF Own, UsesStdio
<1> HIDE DEF Live
<1>4. StartupTypeOK
  BY DEF StartupInv
<1>5. ASSUME UNCHANGED <<in, envp>>, NEW c \in Callers, NEW where, where \notin {"test", "serve"},
             pc' = [pc EXCEPT ![c] = where] \/ pc' = [d \in Callers |-> "end"],
             \A t \in Threads : t # c => result'[t] = result[t]
      PROVE  \A t \in Threads : Looks(t)' => Live(t)'
  BY <1>1, <1>3, <1>4, <1>5 DEF StartupTypeOK, Live
<1>6. ASSUME NEW u \in Threads, NEW where,
             where \notin {"test", "serve"} \/ result'[u] # "0",
             pc' = [pc EXCEPT ![u] = where],
             \A t \in Threads : t # u => result'[t] = result[t],
             \A r \in Requests \ {Own(u)} : in'[r] = in[r] /\ envp'[r] = envp[r]
      PROVE  \A t \in Threads : Looks(t)' => Live(t)'
  BY <1>1, <1>3, <1>4, <1>6 DEF StartupTypeOK, Live
<1>7. ASSUME NEW t \in Callers, Start(t) PROVE \A u \in Threads : Looks(u)' => Live(u)'
  <2>1. /\ UNCHANGED <<in, envp, result>>
        /\ pc' = [pc EXCEPT ![t] = "ready"] \/ pc' = [pc EXCEPT ![t] = "init"]
    BY <1>7 DEF Start, Goto, requests
  <2> QED BY <1>5, <2>1
<1>8. ASSUME NEW t \in Callers, TestInitialized(t) PROVE \A u \in Threads : Looks(u)' => Live(u)'
  <2>1. /\ UNCHANGED <<in, envp>>
        /\ pc' = [pc EXCEPT ![t] = "ready"] \/ pc' = [pc EXCEPT ![t] = "reset"]
        /\ \A u \in Threads : u # t => result'[u] = result[u]
    BY <1>4, <1>8 DEF TestInitialized, Goto, Returns, requests, StartupTypeOK
  <2> QED BY <1>5, <2>1
<1>9. ASSUME NEW t \in Callers, ResetTheRequest(t) PROVE \A u \in Threads : Looks(u)' => Live(u)'
  <2>1. /\ pc[t] = "reset" /\ result' = result
        /\ pc' = [pc EXCEPT ![t] = "list"] \/ pc' = [pc EXCEPT ![t] = "table"]
        /\ \A r \in Requests \ {Shared} : in'[r] = in[r] /\ envp'[r] = envp[r]
    BY <1>4, <1>9 DEF ResetTheRequest, InitRequest, Goto, StartupTypeOK
  <2>2. \A u \in Threads : Looks(u) => Own(u) # Shared
    BY <1>1, <2>1 DEF StartupInv, MainFirst, Undisturbed, UsesStdio, Callers
  <2> QED BY <1>1, <1>3, <1>4, <2>1, <2>2 DEF StartupTypeOK, Live
<1>10. ASSUME NEW t \in Callers, LibInit(t) \/ LibInitFails(t) \/ ReadAddresses(t) \/ SetInitialized(t)
       PROVE  \A u \in Threads : Looks(u)' => Live(u)'
  <2>1. /\ UNCHANGED <<in, envp>>
        /\ \E where \in {"list", "ready", "flag"} : pc' = [pc EXCEPT ![t] = where]
        /\ \A u \in Threads : u # t => result'[u] = result[u]
    BY <1>4, <1>10 DEF LibInit, LibInitFails, ReadAddresses, SetInitialized, Goto, Returns,
                       requests, StartupTypeOK
  <2> QED BY <1>5, <2>1
<1>11. ASSUME NEW t \in Threads, NotInitialized(t) PROVE \A u \in Threads : Looks(u)' => Live(u)'
  <2>1. /\ UNCHANGED <<in, envp>> /\ pc' = [pc EXCEPT ![t] = "test"] /\ result'[t] # "0"
        /\ \A u \in Threads : u # t => result'[u] = result[u]
    BY <1>4, <1>11 DEF NotInitialized, Goto, Returns, requests, StartupTypeOK
  <2> QED BY <1>6, <2>1
<1>12. ASSUME NEW t \in Threads, Finish(Own(t))
       PROVE  \A r \in Requests \ {Own(t)} : in'[r] = in[r] /\ envp'[r] = envp[r]
  BY <1>4, <1>12 DEF Finish, StartupTypeOK
<1>13. ASSUME NEW t \in Threads, BeginAccept(t) PROVE \A u \in Threads : Looks(u)' => Live(u)'
  <2>1. result' = result /\ pc' = [pc EXCEPT ![t] = "wait"] /\ Finish(Own(t))
    BY <1>13 DEF BeginAccept, Goto
  <2> QED BY <1>6, <1>12, <2>1
<1>14. ASSUME NEW t \in Threads, AcceptRequest(t) PROVE \A u \in Threads : Looks(u)' => Live(u)'
  <2>1. /\ in' = [in EXCEPT ![Own(t)] = TRUE] /\ envp' = [envp EXCEPT ![Own(t)] = "live"]
        /\ pc' = [pc EXCEPT ![t] = "test"]
        /\ \A u \in Threads : u # t => result'[u] = result[u]
    BY <1>4, <1>14 DEF AcceptRequest, Goto, Returns, StartupTypeOK
  <2> QED BY <1>1, <1>3, <1>4, <2>1 DEF StartupTypeOK, Live
<1>15. ASSUME NEW t \in Threads, AcceptFails(t) PROVE \A u \in Threads : Looks(u)' => Live(u)'
  <2>1. /\ UNCHANGED <<in, envp>> /\ pc' = [pc EXCEPT ![t] = "test"] /\ result'[t] # "0"
        /\ \A u \in Threads : u # t => result'[u] = result[u]
    BY <1>4, <1>15 DEF AcceptFails, Goto, Returns, StartupTypeOK
  <2> QED BY <1>6, <2>1
<1>16. ASSUME NEW t \in Threads, RequestReady(t) PROVE \A u \in Threads : Looks(u)' => Live(u)'
  <2>1. /\ Own(t) = t /\ result' = result /\ pc' = [pc EXCEPT ![t] = "accept"]
        /\ \A r \in Requests \ {t} : in'[r] = in[r] /\ envp'[r] = envp[r]
    BY <1>4, <1>16 DEF RequestReady, InitRequest, Goto, StartupTypeOK
  <2> QED BY <1>6, <2>1
<1>17. ASSUME NEW t \in Threads, AskIsCGI(t) PROVE \A u \in Threads : Looks(u)' => Live(u)'
  <2>1. /\ UNCHANGED <<in, envp, result>>
        /\ \/ pc' = [d \in Callers |-> "end"]
           \/ \E where \in {"accept", "end"} : pc' = [pc EXCEPT ![t] = where]
    BY <1>17 DEF AskIsCGI, Goto, requests
  <2> QED BY <1>5, <2>1
<1>18. ASSUME NEW t \in Threads, TestResult(t) PROVE \A u \in Threads : Looks(u)' => Live(u)'
  <2>1. /\ UNCHANGED <<in, envp, result>> /\ pc[t] = "test"
        /\ pc' = [pc EXCEPT ![t] = IF Accepted(t) THEN "serve" ELSE "end"]
    BY <1>18 DEF TestResult, Goto, requests
  <2> QED BY <1>1, <1>3, <1>4, <2>1 DEF StartupTypeOK, Live
<1>19. ASSUME NEW t \in Threads, Serve(t) PROVE \A u \in Threads : Looks(u)' => Live(u)'
  <2>1. /\ result' = result /\ pc' = [pc EXCEPT ![t] = "accept"]
        /\ UNCHANGED <<in, envp>> \/ Finish(Own(t))
    BY <1>19 DEF Serve, Goto, requests
  <2> QED BY <1>6, <1>12, <2>1
<1>20. CASE MainReady
  <2>1. /\ UNCHANGED <<in, envp, result>> /\ Main \in Callers
        /\ pc' = [pc EXCEPT ![Main] = "end"] \/ pc' = [d \in Callers |-> "end"]
    BY <1>20 DEF MainReady, Goto, requests
  <2> QED BY <1>5, <2>1
<1>21. CASE SetHandler \/ UNCHANGED startupVars
  BY <1>1, <1>3, <1>21 DEF SetHandler, startupVars, requests, Live
<1> QED BY <1>7, <1>8, <1>9, <1>10, <1>11, <1>13, <1>14, <1>15, <1>16, <1>17, <1>18, <1>19,
           <1>20, <1>21
        DEF Steps, StartupNext, AllWait, FCGX_Init, FCGX_Accept_r, Loop

\* Only TestResult goes on to serve, and what it has looked at stays.
LEMMA SuccessfulStep == StartupInv /\ Steps => Successful'
<1> SUFFICES ASSUME StartupInv, Steps, program' # "example" PROVE Successful'
  BY DEF Successful
<1> USE InitAssumption, OwnersApart
<1>1. /\ StartupTypeOK /\ program' = program
      /\ \A t \in Threads : pc[t] = "serve" => result[t] = "0"
  BY StaysDisturbed DEF StartupInv, Successful
<1>2. ASSUME NEW c \in Callers, NEW where,
             pc' = [pc EXCEPT ![c] = where] \/ pc' = [d \in Callers |-> "end"],
             where # "serve" \/ result'[c] = "0",
             \A t \in Threads : t # c => result'[t] = result[t]
      PROVE  Successful'
  BY <1>1, <1>2 DEF StartupTypeOK, Successful
<1>3. ASSUME NEW c \in Callers, Start(c) \/ FCGX_Init(c) PROVE Successful'
  <2>1. /\ \E where \in {"ready", "init", "reset", "list", "table", "flag"} :
              pc' = [pc EXCEPT ![c] = where]
        /\ \A t \in Threads : t # c => result'[t] = result[t]
    BY <1>1, <1>3 DEF Start, FCGX_Init, TestInitialized, ResetTheRequest, LibInit, LibInitFails,
                      ReadAddresses, SetInitialized, Goto, Returns, StartupTypeOK
  <2> QED BY <1>2, <2>1
<1>4. ASSUME NEW c \in Threads, FCGX_Accept_r(c) \/ RequestReady(c) \/ Serve(c) PROVE Successful'
  <2>1. /\ \E where \in {"test", "wait", "accept"} : pc' = [pc EXCEPT ![c] = where]
        /\ \A t \in Threads : t # c => result'[t] = result[t]
    BY <1>1, <1>4 DEF FCGX_Accept_r, NotInitialized, BeginAccept, AcceptRequest, AcceptFails,
                      RequestReady, Serve, Goto, Returns, StartupTypeOK
  <2> QED BY <1>2, <2>1
<1>5. ASSUME NEW c \in Threads, AskIsCGI(c) PROVE Successful'
  <2>1. /\ result' = result
        /\ \/ pc' = [d \in Callers |-> "end"]
           \/ \E where \in {"accept", "end"} : pc' = [pc EXCEPT ![c] = where]
    BY <1>5 DEF AskIsCGI, Goto
  <2> QED BY <1>2, <2>1
<1>6. ASSUME NEW c \in Threads, TestResult(c) PROVE Successful'
  <2>1. /\ result' = result
        /\ pc' = [pc EXCEPT ![c] = IF Accepted(c) THEN "serve" ELSE "end"]
    BY <1>6 DEF TestResult, Goto
  <2>2. Accepted(c) <=> result[c] = "0"
    BY <1>1 DEF Accepted
  <2>3. CASE Accepted(c)
    <3>1. pc' = [pc EXCEPT ![c] = "serve"] /\ result'[c] = "0"
      BY <2>1, <2>2, <2>3
    <3> QED BY <1>2, <2>1, <3>1
  <2>4. CASE ~Accepted(c)
    <3>1. /\ pc' = [pc EXCEPT ![c] = "end"]
          /\ result' = result
      BY <2>1, <2>4
    <3> QED BY <1>1, <3>1 DEF StartupTypeOK, Successful
  <2> QED BY <2>3, <2>4
<1>7. CASE MainReady
  <2>1. /\ result' = result /\ Main \in Callers
        /\ pc' = [pc EXCEPT ![Main] = "end"] \/ pc' = [d \in Callers |-> "end"]
    BY <1>7 DEF MainReady, Goto
  <2> QED BY <1>2, <2>1
<1>8. CASE SetHandler \/ UNCHANGED startupVars
  BY <1>1, <1>8 DEF SetHandler, startupVars, Successful
<1> QED BY <1>3, <1>4, <1>5, <1>6, <1>7, <1>8 DEF Steps, StartupNext, AllWait, Loop

\* The rest of the types.
LEMMA StartupTypesStep == StartupInv /\ Steps => StartupTypeOK'
<1> SUFFICES ASSUME StartupInv, Steps PROVE StartupTypeOK'
  OBVIOUS
<1> USE InitAssumption, OwnersApart
<1>1. StartupTypeOK /\ open' \in 0..MaxAccepts /\ accepts' \in 0..MaxAccepts
  BY CountedStep DEF StartupInv
<1> DEFINE Places == {"start", "init", "reset", "table", "list", "flag", "ready",
                      "accept", "wait", "test", "serve", "end"}
           Results == {"0", "ENOMEM", "-1", "-errno", "-9998", "-9999"}
           Flags == /\ program' \in {"threads", "mixed", "example"}
                    /\ {libInitialized', osInitialized', fastCGI'} \subseteq BOOLEAN
                    /\ sigusr1' \in {"default", "application", "library"}
                    /\ webServerAddressList' \in {"unset", "read"} /\ isFcgi' \in {-1, 0, 1}
           Numbers == /\ tables' \in 0..MaxTables /\ asyncTable' \in 0..tables'
                      /\ failures' \in 0..MallocFailures
           Streams == /\ in' \in [Requests -> BOOLEAN] /\ connected' \in [Requests -> BOOLEAN]
                      /\ envp' \in [Requests -> {"NULL", "live", "freed"}]
                      /\ keepConnection' \in [Requests -> BOOLEAN]
           Where == pc' \in [Callers -> Places] /\ result' \in [Callers -> Results]
<1>2. SUFFICES Flags /\ Numbers /\ Streams /\ Where
  BY <1>1 DEF StartupTypeOK
<1>3. ASSUME NEW t \in Callers, Start(t) \/ TestInitialized(t)
      PROVE  Flags /\ Numbers /\ Streams /\ Where
  BY <1>1, <1>3 DEF StartupTypeOK, Start, TestInitialized, Goto, Returns, lib, cgi, process, requests
<1>4. ASSUME NEW t \in Callers, ResetTheRequest(t) PROVE Flags /\ Numbers /\ Streams /\ Where
  BY <1>1, <1>4 DEF StartupTypeOK, ResetTheRequest, InitRequest, Goto, lib, cgi, process
<1>5. ASSUME NEW t \in Callers, LibInit(t) PROVE Flags /\ Numbers /\ Streams /\ Where
  <2>1. Numbers
    BY <1>1, <1>5 DEF StartupTypeOK, LibInit
  <2>2. Flags /\ Streams /\ Where
    BY <1>1, <1>5 DEF StartupTypeOK, LibInit, Goto, cgi, process, requests
  <2> QED BY <2>1, <2>2
<1>6. ASSUME NEW t \in Callers, LibInitFails(t) PROVE Flags /\ Numbers /\ Streams /\ Where
  <2>1. Numbers
    BY <1>1, <1>6 DEF StartupTypeOK, LibInitFails
  <2>2. Flags /\ Streams /\ Where
    BY <1>1, <1>6 DEF StartupTypeOK, LibInitFails, Goto, Returns, cgi, process, requests
  <2> QED BY <2>1, <2>2
<1>7. ASSUME NEW t \in Callers, ReadAddresses(t) \/ SetInitialized(t)
      PROVE  Flags /\ Numbers /\ Streams /\ Where
  <2>1. Flags /\ Numbers
    BY <1>1, <1>7 DEF StartupTypeOK, ReadAddresses, SetInitialized, cgi, process
  <2>2. Streams
    BY <1>1, <1>7 DEF StartupTypeOK, ReadAddresses, SetInitialized, requests
  <2>3. Where
    BY <1>1, <1>7 DEF StartupTypeOK, ReadAddresses, SetInitialized, Goto, Returns
  <2> QED BY <2>1, <2>2, <2>3
<1>8. ASSUME NEW r \in Requests, Finish(r) PROVE Streams
  <2>1. /\ in' \in [Requests -> BOOLEAN] /\ keepConnection' \in [Requests -> BOOLEAN]
        /\ connected' \in [Requests -> BOOLEAN]
    BY <1>1, <1>8 DEF StartupTypeOK, Finish
  <2>2. envp' \in [Requests -> {"NULL", "live", "freed"}]
    BY <1>1, <1>8 DEF StartupTypeOK, Finish
  <2> QED BY <2>1, <2>2
<1>9. ASSUME NEW t \in Threads, NotInitialized(t) \/ AcceptRequest(t) \/ AcceptFails(t)
      PROVE  Flags /\ Numbers /\ Streams /\ Where
  <2>1. Flags /\ Numbers
    BY <1>1, <1>9 DEF StartupTypeOK, NotInitialized, AcceptRequest, AcceptFails, lib, cgi, process
  <2>2. Streams
    <3>1. CASE NotInitialized(t)
      BY <1>1, <3>1 DEF StartupTypeOK, NotInitialized, requests
    <3>2. CASE AcceptRequest(t)
      BY <1>1, <3>2 DEF StartupTypeOK, AcceptRequest, Begun
    <3>3. CASE AcceptFails(t)
      BY <1>1, <3>3 DEF StartupTypeOK, AcceptFails, Begun
    <3> QED BY <1>9, <3>1, <3>2, <3>3
  <2>3. Where
    BY <1>1, <1>9 DEF StartupTypeOK, NotInitialized, AcceptRequest, AcceptFails, Goto, Returns
  <2> QED BY <2>1, <2>2, <2>3
<1>10. ASSUME NEW t \in Threads, BeginAccept(t) \/ Serve(t)
       PROVE  Flags /\ Numbers /\ Streams /\ Where
  <2>1. Flags /\ Numbers
    BY <1>1, <1>10 DEF StartupTypeOK, BeginAccept, Serve, lib, cgi, process
  <2>2. Streams
    BY <1>1, <1>8, <1>10 DEF StartupTypeOK, BeginAccept, Serve, requests
  <2>3. Where
    BY <1>1, <1>10 DEF StartupTypeOK, BeginAccept, Serve, Goto
  <2> QED BY <2>1, <2>2, <2>3
<1>11. ASSUME NEW t \in Threads, RequestReady(t) \/ AskIsCGI(t) \/ TestResult(t)
       PROVE  Flags /\ Numbers /\ Streams /\ Where
  <2>1. Flags /\ Numbers
    BY <1>1, <1>11 DEF StartupTypeOK, RequestReady, AskIsCGI, TestResult, lib, cgi, process
  <2>2. Streams
    <3>1. CASE RequestReady(t)
      BY <1>1, <3>1 DEF StartupTypeOK, RequestReady, InitRequest
    <3>2. CASE AskIsCGI(t) \/ TestResult(t)
      BY <1>1, <3>2 DEF StartupTypeOK, AskIsCGI, TestResult, requests
    <3> QED BY <1>11, <3>1, <3>2
  <2>3. Where
    BY <1>1, <1>11 DEF StartupTypeOK, RequestReady, AskIsCGI, TestResult, Goto
  <2> QED BY <2>1, <2>2, <2>3
<1>12. CASE MainReady \/ SetHandler
  BY <1>1, <1>12 DEF StartupTypeOK, MainReady, SetHandler, Goto, lib, cgi, process, requests
<1>13. CASE UNCHANGED startupVars
  BY <1>1, <1>13 DEF StartupTypeOK, startupVars, lib, cgi, process, requests
<1> QED BY <1>3, <1>4, <1>5, <1>6, <1>7, <1>9, <1>10, <1>11, <1>12, <1>13
        DEF Steps, StartupNext, AllWait, FCGX_Init, FCGX_Accept_r, Loop

LEMMA StartupNextInv == StartupInv /\ [StartupNext]_startupVars => StartupInv'
BY StartupTypesStep, SetUpStep, MainFirstStep, ConnectedLaterStep, CountedStep, WholeStep,
   SuccessfulStep
   DEF StartupInv, Steps

\* What is kept of the library, the threads and their requests has its types.
THEOREM StartupTypes == StartupSpec => []StartupTypeOK
<1>1. StartupInv => StartupTypeOK
  BY DEF StartupInv
<1> QED BY <1>1, StartupInitInv, StartupNextInv, PTL DEF StartupSpec

\* FCGX_Init, FCGX_InitRequest, FCGX_Accept_r and FCGX_Finish_r by any number of threads:
\* who accepts finds the library set up, serves what was accepted, and no connection is lost.
THEOREM StartupIsSafe == StartupSpec => []StartupSafe
<1>1. StartupInv => StartupSafe
  <2> SUFFICES ASSUME StartupInv PROVE StartupSafe
    OBVIOUS
  <2>1. ReadyWhenAccepting
    BY DEF StartupInv, SetUp, ReadyWhenAccepting
  <2>2. ServesAccepted
    BY DEF StartupInv, Whole, Successful, ServesAccepted
  <2>3. ConnectionsHeld
    BY DEF StartupInv, Counted, ConnectionsHeld, Connected
  <2> QED BY <2>1, <2>2, <2>3 DEF StartupSafe
<1> QED BY <1>1, StartupInitInv, StartupNextInv, PTL DEF StartupSpec

-----------------------------------------------------------------------------
(* The vectors of parameters.                                              *)

\* A structure holds strings of the two owners, NULL behind them, and what malloc left.
VectorSlots == (Owners \X Nat) \cup {Null, Junk}
Structures == [vec : Seq(VectorSlots), cur : Nat]
Asked == Names \cup Questions

\* The vector of a request begins with the role, the other one with a pair.
Shift(o) == IF o = "request" THEN 1 ELSE 0
Stored(o) == Len(received[o]) - (IF held[o] THEN 1 ELSE 0)
Owned(o) == IF Used(o) THEN {<<o, k>> : k \in (1 - Shift(o))..Len(received[o])} ELSE {}

\* The types, without the parts of ParamsTypeOK that say when a structure is there.
ParamsShape ==
    /\ params \in [Owners -> Structures]
    /\ received \in [Owners -> Seq(Asked)]
    /\ held \in [Owners -> BOOLEAN]
    /\ readError \in BOOLEAN
    /\ {structs, unknown, moves, envpTaken, response} \subseteq Nat

\* An owner that is not at work has nothing.  The vector of one that is holds its strings in
\* their order, then a NULL that is within it.
OwnerSound(o) ==
    /\ Len(received[o]) <= MaxPairs
    /\ ~Used(o) => params[o] = Absent /\ received[o] = <<>> /\ ~held[o]
    /\ Used(o) =>
          /\ params[o].cur = Stored(o) + 1 + Shift(o)
          /\ params[o].cur \in 1..Len(params[o].vec)
          /\ params[o].vec[params[o].cur] = Null
          /\ \A i \in 1..params[o].cur - 1 : params[o].vec[i] = <<o, i - Shift(o)>>
OwnersSound == \A o \in Owners : OwnerSound(o)

\* A pair is only held where it is being read.
HeldWhereRead ==
    /\ held["values"] => stage = "values"
    /\ held["request"] => stage = "params" \/ (stage = "values" /\ back = "params")

\* envp is current also while questions are answered that came in the middle of the input.
EnvpKept == stage = "app" \/ (stage = "values" /\ back = "app") => envpTaken = moves

HeapOwned == heap = Owned("request") \cup Owned("values")

StructuresCounted ==
    structs = (IF stage = "begin" THEN 0 ELSE IF stage = "values" THEN 2 ELSE 1) + unknown

\* Each variable is asked for once, so the answers are at most those to all three.
AnswerTo(name) == IF name \in Range(received["values"]) THEN AnswerOf(name) ELSE 0
AnsweredOnce ==
    /\ AnswerLen = AnswerTo("FCGI_MAX_CONNS") + AnswerTo("FCGI_MAX_REQS")
                   + AnswerTo("FCGI_MPXS_CONNS")
    /\ ResponseFits

ParamsInv ==
    /\ ParamsShape /\ ParamsTypeOK
    /\ OwnersSound /\ HeldWhereRead /\ EnvpKept /\ HeapOwned /\ StructuresCounted
    /\ AnsweredOnce

LEMMA VectorSlotsApart ==
    /\ Null \in VectorSlots /\ Junk \in VectorSlots /\ Null # Junk
    /\ \A o \in Owners, k \in Nat :
          <<o, k>> \in VectorSlots /\ <<o, k>> # Null /\ <<o, k>> # Junk
    /\ "request" \in Owners /\ "values" \in Owners
    /\ \A o \in Owners : o = "request" \/ o = "values"
<1>1. /\ Null = <<"null", 0>> /\ Junk = <<"junk", 0>> /\ Null # Junk
      /\ Null \in VectorSlots /\ Junk \in VectorSlots
  BY DEF VectorSlots, Null, Junk
<1>2. \A o \in Owners, k \in Nat : <<o, k>> \in VectorSlots
  BY DEF VectorSlots
<1>3. \A o \in Owners : o = "request" \/ o = "values"
  BY DEF Owners
<1>4. \A o \in Owners, k \in Nat : <<o, k>> # <<"null", 0>> /\ <<o, k>> # <<"junk", 0>>
  <2> SUFFICES ASSUME NEW o \in Owners, NEW k \in Nat
               PROVE  <<o, k>> # <<"null", 0>> /\ <<o, k>> # <<"junk", 0>>
    OBVIOUS
  <2>1. o # "null" /\ o # "junk"
    BY <1>3
  <2> QED BY <2>1
<1> QED BY <1>1, <1>2, <1>3, <1>4 DEF Owners

LEMMA NewParamsHasRoom ==
    ASSUME NEW length \in Nat \ {0, 1}
    PROVE  /\ NewParams(length) \in Structures /\ NewParams(length) # Absent
           /\ NewParams(length).cur = 1 /\ Len(NewParams(length).vec) = length
           /\ NewParams(length).vec[1] = Null
<1> DEFINE v == [i \in 1..length |-> IF i = 1 THEN Null ELSE Junk]
<1>1. v \in Seq(VectorSlots) /\ Len(v) = length /\ v[1] = Null
  <2>1. v \in [1..length -> VectorSlots]
    BY VectorSlotsApart
  <2> QED BY <2>1
<1>2. NewParams(length) = [vec |-> v, cur |-> 1]
  BY DEF NewParams
<1> HIDE DEF v
<1> QED BY <1>1, <1>2 DEF Structures, Absent

\* PutParam adds a string and leaves room for the NULL behind it.
LEMMA PutParamKeeps ==
    ASSUME NEW p \in Structures, p.cur \in 1..Len(p.vec), NEW string \in VectorSlots
    PROVE  LET q == PutParam(p, string)
           IN  /\ q \in Structures /\ q # Absent
               /\ q.cur = p.cur + 1 /\ q.cur \in 1..Len(q.vec)
               /\ q.vec[q.cur] = Null
               /\ q.vec[p.cur] = string
               /\ \A i \in 1..p.cur - 1 : q.vec[i] = p.vec[i]
<1> DEFINE full == p.cur >= Len(p.vec)
           room == IF full THEN p.vec \o [i \in 1..Len(p.vec) |-> Junk] ELSE p.vec
           w == [i \in DOMAIN room |-> IF i = p.cur THEN string
                                       ELSE IF i = p.cur + 1 THEN Null ELSE room[i]]
<1>1. p.vec \in Seq(VectorSlots) /\ p.cur \in Nat /\ Len(p.vec) \in Nat
  BY DEF Structures
<1>2. /\ room \in Seq(VectorSlots)
      /\ Len(room) > p.cur
      /\ \A i \in 1..Len(p.vec) : room[i] = p.vec[i]
  <2>1. CASE full
    <3> DEFINE junk == [i \in 1..Len(p.vec) |-> Junk]
    <3>1. junk \in Seq(VectorSlots) /\ Len(junk) = Len(p.vec)
      <4>1. junk \in [1..Len(p.vec) -> VectorSlots]
        BY VectorSlotsApart
      <4> QED BY <4>1, <1>1
    <3> HIDE DEF junk
    <3>2. room = p.vec \o junk
      BY <2>1 DEF junk
    <3>3. /\ p.vec \o junk \in Seq(VectorSlots) /\ Len(p.vec \o junk) = 2 * Len(p.vec)
          /\ \A i \in 1..Len(p.vec) : (p.vec \o junk)[i] = p.vec[i]
      BY <1>1, <3>1
    <3> HIDE DEF room
    <3> QED BY <3>2, <3>3, <1>1, <2>1
  <2>2. CASE ~full
    BY <2>2, <1>1
  <2> QED BY <2>1, <2>2
<1>3. PutParam(p, string) = [vec |-> w, cur |-> p.cur + 1]
  BY DEF PutParam
<1> HIDE DEF room
<1>4. DOMAIN room = 1..Len(room) /\ Len(room) \in Nat
  BY <1>2
<1>5. w \in Seq(VectorSlots) /\ Len(w) = Len(room) /\ DOMAIN w = 1..Len(room)
  <2>1. w \in [1..Len(room) -> VectorSlots]
    BY <1>2, <1>4, VectorSlotsApart
  <2> QED BY <2>1, <1>4
<1>6. w[p.cur + 1] = Null /\ w[p.cur] = string
  BY <1>1, <1>2, <1>4
<1>7. \A i \in 1..p.cur - 1 : w[i] = p.vec[i]
  BY <1>1, <1>2, <1>4
<1> HIDE DEF w
<1> QED BY <1>1, <1>2, <1>3, <1>4, <1>5, <1>6, <1>7 DEF Structures, Absent

\* The strings of an owner, in its vector and held, are those it has begun.
LEMMA FreedAreOwned ==
    ASSUME ParamsShape, NEW o \in Owners, OwnerSound(o)
    PROVE  Freed(o) = Owned(o)
<1>1. CASE ~Used(o)
  <2>1. params[o].cur = 0 /\ ~held[o]
    BY <1>1 DEF OwnerSound, Used, Absent
  <2>2. Strings(params[o]) = {}
    BY <2>1 DEF Strings
  <2> QED BY <1>1, <2>1, <2>2 DEF Freed, Owned
<1>2. CASE Used(o)
  <2> DEFINE len == Len(received[o])
             s == Shift(o)
             c == params[o].cur
  <2>1. len \in Nat /\ s \in 0..1 /\ held[o] \in BOOLEAN
    BY DEF ParamsShape, Shift
  <2>2. c = (len - (IF held[o] THEN 1 ELSE 0)) + 1 + s /\ c >= 1 /\ c \in Nat
    <3>1. params[o] \in Structures /\ c \in 1..Len(params[o].vec)
      BY <1>2 DEF OwnerSound, ParamsShape
    <3>2. c = Stored(o) + 1 + s
      BY <1>2 DEF OwnerSound
    <3>3. c \in Nat /\ Len(params[o].vec) \in Nat
      BY <3>1 DEF Structures
    <3>4. Stored(o) = len - (IF held[o] THEN 1 ELSE 0)
      BY DEF Stored
    <3> HIDE DEF c, len, s
    <3> QED BY <3>1, <3>2, <3>3, <3>4
  <2>3. \A i \in 1..c - 1 : params[o].vec[i] = <<o, i - s>>
    BY <1>2 DEF OwnerSound
  <2>4. Strings(params[o]) = {params[o].vec[i] : i \in 1..c - 1}
    BY DEF Strings
  <2>5. Owned(o) = {<<o, k>> : k \in (1 - s)..len}
    BY <1>2 DEF Owned
  <2>6. Held(o) = <<o, len>>
    BY DEF Held
  <2> HIDE DEF len, s, c
  <2>7. Strings(params[o]) = {<<o, k>> : k \in (1 - s)..(c - 1 - s)}
    <3>1. ASSUME NEW x \in Strings(params[o])
          PROVE  x \in {<<o, k>> : k \in (1 - s)..(c - 1 - s)}
      <4>1. PICK i \in 1..c - 1 : x = params[o].vec[i]
        BY <2>4
      <4>2. x = <<o, i - s>> /\ i - s \in (1 - s)..(c - 1 - s)
        BY <4>1, <2>1, <2>2, <2>3
      <4> QED BY <4>2
    <3>2. ASSUME NEW k \in (1 - s)..(c - 1 - s)
          PROVE  <<o, k>> \in Strings(params[o])
      <4>1. k + s \in 1..c - 1 /\ (k + s) - s = k
        BY <2>1, <2>2
      <4>2. params[o].vec[k + s] = <<o, k>>
        BY <4>1, <2>3
      <4> QED BY <4>1, <4>2, <2>4
    <3> QED BY <3>1, <3>2
  <2>8. CASE held[o]
    <3>1. c - 1 - s = len - 1 /\ 1 - s <= len
      <4>1. c = len + s
        BY <2>1, <2>2, <2>8
      <4> QED BY <4>1, <2>1, <2>2
    <3>2. (1 - s)..len = ((1 - s)..(len - 1)) \cup {len}
      BY <3>1, <2>1
    <3>3. Freed(o) = Strings(params[o]) \cup {<<o, len>>}
      BY <2>8, <2>6 DEF Freed
    <3>4. {<<o, k>> : k \in (1 - s)..len} = {<<o, k>> : k \in (1 - s)..(len - 1)} \cup {<<o, len>>}
      BY <3>2
    <3> QED BY <3>1, <3>3, <3>4, <2>5, <2>7
  <2>9. CASE ~held[o]
    <3>1. c - 1 - s = len
      BY <2>9, <2>1, <2>2
    <3> QED BY <3>1, <2>9, <2>5, <2>7 DEF Freed
  <2> QED BY <2>1, <2>8, <2>9
<1> QED BY <1>1, <1>2

\* The strings of the two owners are never the same.
LEMMA OwnedApart ==
    /\ Owned("request") \cap Owned("values") = {}
BY DEF Owned

\* What may be asked and what is answered.
LEMMA AnswersSmall ==
    ASSUME AnsweredOnce
    PROVE  AnswerLen \in 0..51
<1>1. /\ Variables["FCGI_MAX_CONNS"] = 14 /\ Variables["FCGI_MAX_REQS"] = 13
      /\ Variables["FCGI_MPXS_CONNS"] = 15
  BY DEF Variables
<1>2. /\ AnswerTo("FCGI_MAX_CONNS") \in 0..17 /\ AnswerTo("FCGI_MAX_REQS") \in 0..16
      /\ AnswerTo("FCGI_MPXS_CONNS") \in 0..18
  BY <1>1 DEF AnswerTo, AnswerOf
<1> QED BY <1>2 DEF AnsweredOnce

LEMMA ParamsInitInv == ParamsInit => ParamsInv
<1> SUFFICES ASSUME ParamsInit PROVE ParamsInv
  OBVIOUS
<1>1. Absent \in Structures
  BY DEF Absent, Structures
<1>2. \A o \in Owners : ~Used(o) /\ received[o] = <<>> /\ held[o] = FALSE
  BY DEF ParamsInit, Used
<1>3. ParamsShape
  <2>1. <<>> \in Seq(Asked)
    OBVIOUS
  <2>2. params \in [Owners -> Structures] /\ received \in [Owners -> Seq(Asked)]
    BY <1>1, <2>1 DEF ParamsInit
  <2>3. held \in [Owners -> BOOLEAN] /\ readError \in BOOLEAN
    BY DEF ParamsInit
  <2>4. {structs, unknown, moves, envpTaken, response} \subseteq Nat
    BY DEF ParamsInit
  <2> QED BY <2>2, <2>3, <2>4 DEF ParamsShape
<1>4. ParamsTypeOK
  BY <1>2, VectorSlotsApart DEF ParamsInit, ParamsTypeOK, Used
<1>5. HeldWhereRead /\ EnvpKept
  BY <1>2, VectorSlotsApart DEF ParamsInit, HeldWhereRead, EnvpKept
<1>6. OwnersSound
  <2>1. \A o \in Owners : Len(received[o]) = 0 /\ params[o] = Absent
    BY <1>2 DEF ParamsInit
  <2> QED BY <1>2, <2>1, ParamsAssumption DEF OwnersSound, OwnerSound
<1>7. HeapOwned /\ StructuresCounted
  BY <1>2, VectorSlotsApart DEF ParamsInit, HeapOwned, StructuresCounted, Owned
<1>8. AnsweredOnce
  <2>1. received["values"] = <<>>
    BY <1>2, VectorSlotsApart
  <2>2. [i \in DOMAIN received["values"] |-> AnswerOf(received["values"][i])] = <<>>
    BY <2>1
  <2>3. AnswerLen = 0
    BY <2>2, TotalEmpty DEF AnswerLen
  <2>4. Range(received["values"]) = {}
    BY <2>1 DEF Range
  <2> QED BY <2>3, <2>4 DEF ParamsInit, AnsweredOnce, AnswerTo, ResponseFits, ResponseLen
<1> QED BY <1>3, <1>4, <1>5, <1>6, <1>7, <1>8 DEF ParamsInv

\* A step keeps the answers as they are unless it begins or ends with the questions.
LEMMA AnswersKept ==
    ASSUME AnsweredOnce, received'["values"] = received["values"],
           response' = response \/ response' <= ResponseLen
    PROVE  AnsweredOnce'
BY DEF AnsweredOnce, AnswerLen, AnswerTo, ResponseFits

LEMMA NoAnswers ==
    ASSUME received'["values"] = <<>>, response' <= ResponseLen
    PROVE  AnsweredOnce'
<1>1. [i \in DOMAIN received'["values"] |-> AnswerOf(received'["values"][i])] = <<>>
  OBVIOUS
<1>2. AnswerLen' = 0
  BY <1>1, TotalEmpty DEF AnswerLen
<1>3. Range(received'["values"]) = {}
  BY DEF Range
<1> QED BY <1>2, <1>3 DEF AnsweredOnce, AnswerTo, ResponseFits

\* A question more: one for a variable is the first of its kind.
LEMMA AnswerMore ==
    ASSUME AnsweredOnce, received["values"] \in Seq(Questions), NEW name \in Questions,
           name # "OTHER" => name \notin Range(received["values"]),
           received'["values"] = Append(received["values"], name), response' = response
    PROVE  AnsweredOnce'
<1> DEFINE old == received["values"]
           new == received'["values"]
           s == [i \in DOMAIN old |-> AnswerOf(old[i])]
           t == [i \in DOMAIN new |-> AnswerOf(new[i])]
<1>1. old \in Seq(Questions) /\ Len(old) \in Nat /\ DOMAIN old = 1..Len(old)
  OBVIOUS
<1>2. new \in Seq(Questions) /\ Len(new) = Len(old) + 1 /\ DOMAIN new = 1..Len(new)
  OBVIOUS
<1>3. \A i \in 1..Len(old) : new[i] = old[i] /\ old[i] \in Questions
  OBVIOUS
<1>4. new[Len(old) + 1] = name
  OBVIOUS
<1>5. AnswerLen = Total(s) /\ AnswerLen' = Total(t)
  BY DEF AnswerLen
<1>6. /\ Questions = {"FCGI_MAX_CONNS", "FCGI_MAX_REQS", "FCGI_MPXS_CONNS", "OTHER"}
      /\ \A q \in Questions : AnswerOf(q) \in Int
      /\ AnswerOf("OTHER") = 0
  BY DEF Questions, AnswerOf, Variables
<1> HIDE DEF old, new
<1>7. s \in Seq(Int) /\ Len(s) = Len(old)
  <2>1. s \in [1..Len(old) -> Int]
    BY <1>1, <1>3, <1>6
  <2> QED BY <2>1, <1>1
<1>8. t \in Seq(Int) /\ Len(t) = Len(s) + 1 /\ t[Len(t)] = AnswerOf(name)
  <2>1. \A i \in 1..Len(new) : new[i] \in Questions
    BY <1>2
  <2>2. t \in [1..Len(new) -> Int]
    BY <1>2, <1>6, <2>1
  <2>3. t \in Seq(Int) /\ Len(t) = Len(new)
    BY <2>2, <1>1, <1>2
  <2>4. Len(new) \in 1..Len(new) /\ DOMAIN new = 1..Len(new)
    BY <1>1, <1>2
  <2>5. t[Len(new)] = AnswerOf(new[Len(new)])
    BY <2>4
  <2> HIDE DEF t, s
  <2> QED BY <2>3, <2>5, <1>2, <1>4, <1>7
<1>9. \A i \in 1..Len(s) : t[i] = s[i]
  BY <1>1, <1>2, <1>3, <1>7
<1> HIDE DEF s, t
<1>10. AnswerLen' = AnswerLen + AnswerOf(name)
  BY <1>5, <1>7, <1>8, <1>9, TotalOneMore
<1>11. Range(new) = Range(old) \cup {name}
  <2>1. Range(new) = {new[i] : i \in 1..Len(old) + 1} /\ Range(old) = {old[i] : i \in 1..Len(old)}
    BY <1>1, <1>2 DEF Range
  <2>2. 1..Len(old) + 1 = (1..Len(old)) \cup {Len(old) + 1}
    BY <1>1
  <2>3. {new[i] : i \in 1..Len(old)} = {old[i] : i \in 1..Len(old)}
    BY <1>3
  <2> QED BY <2>1, <2>2, <2>3, <1>4
<1>12. /\ \A q \in Questions \ {"OTHER"} :
             AnswerTo(q)' = AnswerTo(q) + (IF q = name THEN AnswerOf(q) ELSE 0)
       /\ \A q \in Questions : AnswerTo(q) \in Int
  <2>1. \A q \in Questions : AnswerTo(q) = (IF q \in Range(old) THEN AnswerOf(q) ELSE 0)
    BY DEF AnswerTo, old
  <2>2. \A q \in Questions : AnswerTo(q)' = (IF q \in Range(new) THEN AnswerOf(q) ELSE 0)
    BY DEF AnswerTo, new
  <2>3. name # "OTHER" => name \notin Range(old)
    BY DEF old
  <2> QED BY <2>1, <2>2, <2>3, <1>6, <1>11
<1>13. AnswerLen' = AnswerTo("FCGI_MAX_CONNS")' + AnswerTo("FCGI_MAX_REQS")'
                    + AnswerTo("FCGI_MPXS_CONNS")'
  <2>1. AnswerLen = AnswerTo("FCGI_MAX_CONNS") + AnswerTo("FCGI_MAX_REQS")
                    + AnswerTo("FCGI_MPXS_CONNS")
    BY DEF AnsweredOnce
  <2> HIDE DEF AnswerTo
  <2>2. name \in {"FCGI_MAX_CONNS", "FCGI_MAX_REQS", "FCGI_MPXS_CONNS", "OTHER"}
    BY <1>6
  <2>3. CASE name = "OTHER"
    BY <2>1, <2>3, <1>6, <1>10, <1>12
  <2>4. CASE name = "FCGI_MAX_CONNS"
    BY <2>1, <2>4, <1>6, <1>10, <1>12
  <2>5. CASE name = "FCGI_MAX_REQS"
    BY <2>1, <2>5, <1>6, <1>10, <1>12
  <2>6. CASE name = "FCGI_MPXS_CONNS"
    BY <2>1, <2>6, <1>6, <1>10, <1>12
  <2> QED BY <2>2, <2>3, <2>4, <2>5, <2>6
<1> QED BY <1>13 DEF AnsweredOnce, ResponseFits

\* The facts of the invariant that every action needs.
LEMMA ParamsFacts ==
    ASSUME ParamsInv
    PROVE  /\ params \in [Owners -> Structures] /\ received \in [Owners -> Seq(Asked)]
           /\ held \in [Owners -> BOOLEAN]
           /\ structs \in Nat /\ unknown \in Nat /\ moves \in Nat /\ envpTaken \in Nat
           /\ response \in Nat /\ readError \in BOOLEAN
           /\ \A o \in Owners : OwnerSound(o) /\ Freed(o) = Owned(o)
           /\ Used("values") <=> stage = "values"
           /\ Used("request") <=> stage # "begin"
           /\ stage \in {"begin", "params", "app", "values"} /\ back \in {"params", "app"}
           /\ received["request"] \in Seq(Names) /\ received["values"] \in Seq(Questions)
<1>1. ParamsShape /\ ParamsTypeOK /\ OwnersSound
  BY DEF ParamsInv
<1>2. \A o \in Owners : OwnerSound(o) /\ Freed(o) = Owned(o)
  BY <1>1, FreedAreOwned DEF OwnersSound
<1>3. /\ structs \in Nat /\ unknown \in Nat /\ moves \in Nat /\ envpTaken \in Nat
      /\ response \in Nat /\ readError \in BOOLEAN
  BY <1>1 DEF ParamsShape
<1>4. /\ Used("values") <=> stage = "values"
      /\ Used("request") <=> stage # "begin"
      /\ stage \in {"begin", "params", "app", "values"} /\ back \in {"params", "app"}
      /\ received["request"] \in Seq(Names) /\ received["values"] \in Seq(Questions)
  BY <1>1 DEF ParamsTypeOK, Used
<1> QED BY <1>1, <1>2, <1>3, <1>4 DEF ParamsShape

\* An owner keeps what it has when its variables stay.
LEMMA OwnerKept ==
    ASSUME NEW o \in Owners, OwnerSound(o),
           params'[o] = params[o], received'[o] = received[o], held'[o] = held[o]
    PROVE  OwnerSound(o)' /\ Owned(o)' = Owned(o) /\ (Used(o)' <=> Used(o))
<1>1. Stored(o)' = Stored(o) /\ (Used(o)' <=> Used(o))
  BY DEF Stored, Used
<1>2. OwnerSound(o)'
  BY <1>1 DEF OwnerSound
<1> QED BY <1>1, <1>2 DEF Owned

\* The parts of the invariant that stay when an owner's string or structure comes or goes:
\* the rest is put together by what the action says of its owner.
LEMMA ParamsShapeAfter ==
    ASSUME params' \in [Owners -> Structures], received' \in [Owners -> Seq(Asked)],
           held' \in [Owners -> BOOLEAN], readError' \in BOOLEAN,
           structs' \in Nat, unknown' \in Nat, moves' \in Nat, envpTaken' \in Nat,
           response' \in Nat,
           stage' \in {"begin", "params", "app", "values"}, back' \in {"params", "app"},
           received'["request"] \in Seq(Names), received'["values"] \in Seq(Questions),
           Used("values")' <=> stage' = "values",
           Used("request")' <=> stage' # "begin"
    PROVE  ParamsShape' /\ ParamsTypeOK'
<1>1. {structs', unknown', moves', envpTaken', response'} \subseteq Nat
  OBVIOUS
<1>2. ParamsShape'
  BY <1>1 DEF ParamsShape
<1>3. /\ params'["values"] # Absent <=> stage' = "values"
      /\ params'["request"] # Absent <=> stage' # "begin"
  BY DEF Used
<1> QED BY <1>1, <1>2, <1>3 DEF ParamsTypeOK

LEMMA NewRequestKeeps == ParamsInv /\ NewRequest => ParamsInv'
<1> SUFFICES ASSUME ParamsInv, NewRequest PROVE ParamsInv'
  OBVIOUS
<1> DEFINE new == NewParams(RequestLength)
           role == <<"request", 0>>
           one == PutParam(new, role)
<1>1. new \in Structures /\ new.cur = 1 /\ new.cur \in 1..Len(new.vec) /\ <<"request", 0>> \in VectorSlots
  BY ParamsAssumption, NewParamsHasRoom, VectorSlotsApart
<1>2. /\ one \in Structures /\ one # Absent
      /\ one.cur = 2 /\ one.cur \in 1..Len(one.vec)
      /\ one.vec[2] = Null /\ one.vec[1] = <<"request", 0>>
  <2>1. role \in VectorSlots
    BY VectorSlotsApart
  <2> HIDE DEF new, role
  <2>2. new.cur \in 1..Len(new.vec)
    BY <1>1
  <2>3. /\ one \in Structures /\ one # Absent
        /\ one.cur = new.cur + 1 /\ one.cur \in 1..Len(one.vec)
        /\ one.vec[one.cur] = Null /\ one.vec[new.cur] = role
    BY <1>1, <2>1, <2>2, PutParamKeeps
  <2> QED BY <1>1, <2>3 DEF role
<1>3. params' = [params EXCEPT !["request"] = one]
  BY DEF NewRequest
<1> HIDE DEF one
<1> USE ParamsFacts, VectorSlotsApart
<1>4. params'["request"] = one /\ params'["values"] = params["values"]
      /\ params' \in [Owners -> Structures]
  BY <1>2, <1>3
<1>5. /\ stage = "begin" /\ stage' = "params" /\ readError' = FALSE /\ moves' = 0
      /\ received' = received /\ held' = held /\ unknown' = unknown /\ back' = back
      /\ envpTaken' = envpTaken /\ response' = response
      /\ structs' = structs + 1 /\ heap' = heap \cup {<<"request", 0>>}
  BY DEF NewRequest
<1>6. ~Used("request") /\ ~Used("values") /\ received["request"] = <<>> /\ ~held["request"]
      /\ ~held["values"]
  BY <1>5 DEF OwnerSound
<1>7. OwnerSound("values")' /\ Owned("values")' = Owned("values") /\ ~Used("values")'
  BY <1>4, <1>5, <1>6, OwnerKept
<1>8. Used("request")'
  BY <1>2, <1>4 DEF Used
<1>9. OwnerSound("request")'
  <2>1. Stored("request")' = 0 /\ Shift("request") = 1
    BY <1>5, <1>6 DEF Stored, Shift
  <2>2. Len(received'["request"]) <= MaxPairs
    BY <1>5 DEF OwnerSound
  <2>3. \A i \in 1..one.cur - 1 : one.vec[i] = <<"request", i - 1>>
    BY <1>2
  <2> QED BY <2>1, <2>2, <2>3, <1>2, <1>4, <1>8 DEF OwnerSound
<1>10. Owned("request")' = {<<"request", 0>>} /\ Owned("request") = {}
  <2>1. Len(received'["request"]) = 0 /\ Shift("request") = 1
    BY <1>5, <1>6 DEF Shift
  <2> QED BY <2>1, <1>6, <1>8 DEF Owned
<1>11. ParamsShape' /\ ParamsTypeOK'
  <2>1. /\ params' \in [Owners -> Structures] /\ received' \in [Owners -> Seq(Asked)]
        /\ held' \in [Owners -> BOOLEAN] /\ readError' \in BOOLEAN
    BY <1>4, <1>5
  <2>2. /\ structs' \in Nat /\ unknown' \in Nat /\ moves' \in Nat /\ envpTaken' \in Nat
        /\ response' \in Nat
    BY <1>5
  <2>3. /\ stage' \in {"begin", "params", "app", "values"} /\ back' \in {"params", "app"}
        /\ received'["request"] \in Seq(Names) /\ received'["values"] \in Seq(Questions)
    BY <1>5
  <2>4. (Used("values")' <=> stage' = "values") /\ (Used("request")' <=> stage' # "begin")
    BY <1>5, <1>7, <1>8
  <2> QED BY ONLY <2>1, <2>2, <2>3, <2>4, ParamsShapeAfter
<1>12. OwnersSound'
  BY <1>7, <1>9 DEF OwnersSound
<1>13. HeldWhereRead' /\ EnvpKept'
  BY <1>5, <1>6 DEF HeldWhereRead, EnvpKept
<1>14. HeapOwned'
  BY <1>5, <1>7, <1>10 DEF HeapOwned, ParamsInv
<1>15. StructuresCounted'
  BY <1>5 DEF StructuresCounted, ParamsInv
<1>16. AnsweredOnce'
  BY <1>5, AnswersKept DEF ParamsInv
<1> QED BY <1>11, <1>12, <1>13, <1>14, <1>15, <1>16 DEF ParamsInv

LEMMA BeginPairKeeps == ParamsInv /\ BeginPair => ParamsInv'
<1> SUFFICES ASSUME ParamsInv, BeginPair PROVE ParamsInv'
  OBVIOUS
<1> USE ParamsFacts, VectorSlotsApart
<1>0. PICK o \in Owners : o = Reader
  BY DEF Reader
<1> DEFINE len == Len(received[o])
<1>1. PICK name \in (IF stage = "params" THEN Names ELSE Questions) :
         /\ stage = "values" /\ name # "OTHER" => name \notin Range(received["values"])
         /\ received' = [received EXCEPT ![o] = Append(@, name)]
  BY <1>0 DEF BeginPair
<1>2. /\ stage \in {"params", "values"} /\ ~held[o] /\ len < MaxPairs
      /\ held' = [held EXCEPT ![o] = TRUE]
      /\ heap' = heap \cup {<<o, len + 1>>}
      /\ params' = params /\ structs' = structs /\ unknown' = unknown /\ stage' = stage
      /\ back' = back /\ readError' = readError /\ moves' = moves /\ envpTaken' = envpTaken
      /\ response' = response
  BY <1>0 DEF BeginPair
<1>3. /\ o \in Owners /\ (stage = "params" => o = "request") /\ (stage = "values" => o = "values")
      /\ Used(o) /\ name \in Asked
      /\ (o = "request" => name \in Names) /\ (o = "values" => name \in Questions)
  BY <1>0, <1>1, <1>2 DEF Reader, Asked
<1>4. received[o] \in Seq(Asked) /\ len \in Nat
  BY <1>3
<1>5. /\ received'[o] = Append(received[o], name) /\ Len(received'[o]) = len + 1
      /\ received' \in [Owners -> Seq(Asked)]
      /\ \A p \in Owners : p # o => received'[p] = received[p]
  <2>1. Append(received[o], name) \in Seq(Asked) /\ Len(Append(received[o], name)) = len + 1
    BY <1>3, <1>4
  <2> QED BY <2>1, <1>1, <1>3
<1>6. received'["request"] \in Seq(Names) /\ received'["values"] \in Seq(Questions)
  <2>1. CASE o = "request"
    <3>1. Append(received["request"], name) \in Seq(Names)
      BY <2>1, <1>3
    <3> QED BY <2>1, <3>1, <1>5
  <2>2. CASE o = "values"
    <3>1. Append(received["values"], name) \in Seq(Questions)
      BY <2>2, <1>3
    <3> QED BY <2>2, <3>1, <1>5
  <2> QED BY <2>1, <2>2
<1>7. /\ held'[o] = TRUE /\ held' \in [Owners -> BOOLEAN]
      /\ \A p \in Owners : p # o => held'[p] = held[p]
  BY <1>2, <1>3
<1>8. \A p \in Owners : Used(p)' <=> Used(p)
  BY <1>2 DEF Used
<1>9. ASSUME NEW p \in Owners, p # o
      PROVE  OwnerSound(p)' /\ Owned(p)' = Owned(p)
  BY <1>2, <1>5, <1>7, <1>9, OwnerKept
<1>10. OwnerSound(o)'
  <2>1. Stored(o)' = Stored(o)
    BY <1>2, <1>4, <1>5, <1>7 DEF Stored
  <2>2. OwnerSound(o)
    BY <1>3
  <2>3. Len(received'[o]) <= MaxPairs
    BY <1>2, <1>4, <1>5, ParamsAssumption
  <2> QED BY <2>1, <2>2, <2>3, <1>2, <1>3, <1>8 DEF OwnerSound
<1>11. Owned(o)' = Owned(o) \cup {<<o, len + 1>>}
  <2> DEFINE s == Shift(o)
  <2>1. s \in 0..1
    BY DEF Shift
  <2>2. Owned(o)' = {<<o, k>> : k \in (1 - s)..len + 1} /\ Owned(o) = {<<o, k>> : k \in (1 - s)..len}
    BY <1>3, <1>5, <1>8 DEF Owned
  <2> HIDE DEF s, len
  <2>3. (1 - s)..len + 1 = ((1 - s)..len) \cup {len + 1}
    BY <1>4, <2>1
  <2> QED BY <2>2, <2>3
<1>12. ParamsShape' /\ ParamsTypeOK'
  BY <1>2, <1>5, <1>6, <1>7, <1>8, ParamsShapeAfter
<1>13. OwnersSound'
  BY <1>9, <1>10 DEF OwnersSound
<1>14. HeldWhereRead' /\ EnvpKept'
  <2>1. HeldWhereRead /\ EnvpKept
    BY DEF ParamsInv
  <2> QED BY <2>1, <1>2, <1>3, <1>7 DEF HeldWhereRead, EnvpKept
<1>15. HeapOwned'
  <2>1. heap = Owned("request") \cup Owned("values")
    BY DEF ParamsInv, HeapOwned
  <2>2. heap' = Owned("request")' \cup Owned("values")'
    BY <2>1, <1>2, <1>3, <1>9, <1>11
  <2> QED BY <2>2 DEF HeapOwned
<1>16. StructuresCounted'
  BY <1>2 DEF StructuresCounted, ParamsInv
<1>17. AnsweredOnce'
  <2>1. AnsweredOnce
    BY DEF ParamsInv
  <2>2. CASE o = "request"
    BY <2>1, <2>2, <1>2, <1>5, AnswersKept
  <2>3. CASE o = "values"
    <3>1. stage = "values"
      BY <2>3, <1>2, <1>3
    <3> QED BY <3>1, <2>1, <2>3, <1>1, <1>2, <1>3, <1>5, AnswerMore
  <2> QED BY <2>2, <2>3, <1>3
<1> QED BY <1>12, <1>13, <1>14, <1>15, <1>16, <1>17 DEF ParamsInv

LEMMA EndPairKeeps == ParamsInv /\ EndPair => ParamsInv'
<1> SUFFICES ASSUME ParamsInv, EndPair PROVE ParamsInv'
  OBVIOUS
<1>0. PICK o \in Owners : o = Reader
  BY VectorSlotsApart DEF Reader
<1> DEFINE p == params[o]
           string == Held(o)
           q == PutParam(p, string)
<1>1. /\ stage \in {"params", "values"} /\ held[o]
      /\ params' = [params EXCEPT ![o] = q]
      /\ held' = [held EXCEPT ![o] = FALSE]
      /\ received' = received /\ heap' = heap /\ structs' = structs /\ unknown' = unknown
      /\ stage' = stage /\ back' = back /\ readError' = readError
      /\ envpTaken' = envpTaken /\ response' = response
  BY <1>0 DEF EndPair
<1>2. /\ (stage = "params" => o = "request") /\ (stage = "values" => o = "values") /\ Used(o)
  BY <1>0, <1>1, ParamsFacts DEF Reader
<1> DEFINE len == Len(received[o])
<1>3. /\ p \in Structures /\ p.cur \in 1..Len(p.vec) /\ p.cur \in Nat /\ len \in Nat
      /\ Len(p.vec) \in Nat
      /\ string = <<o, len>> /\ string \in VectorSlots
  <2>1. p \in Structures /\ len \in Nat /\ OwnerSound(o)
    BY ParamsFacts
  <2>2. p.cur \in 1..Len(p.vec)
    BY <2>1, <1>2 DEF OwnerSound
  <2>3. p.cur \in Nat /\ Len(p.vec) \in Nat
    BY <2>1 DEF Structures
  <2>4. string = <<o, len>>
    BY DEF Held
  <2> QED BY <2>1, <2>2, <2>3, <2>4, VectorSlotsApart
<1>4. /\ q \in Structures /\ q # Absent
      /\ q.cur = p.cur + 1 /\ q.cur \in 1..Len(q.vec)
      /\ q.vec[q.cur] = Null
      /\ q.vec[p.cur] = string
      /\ \A i \in 1..p.cur - 1 : q.vec[i] = p.vec[i]
  <2> HIDE DEF p, string
  <2> QED BY <1>3, PutParamKeeps
<1> HIDE DEF q
<1>5. /\ params'[o] = q /\ params' \in [Owners -> Structures]
      /\ \A r \in Owners : r # o => params'[r] = params[r]
  BY <1>1, <1>4, ParamsFacts
<1>6. /\ held'[o] = FALSE /\ held' \in [Owners -> BOOLEAN]
      /\ \A r \in Owners : r # o => held'[r] = held[r]
  BY <1>1, ParamsFacts
<1>7. ASSUME NEW r \in Owners, r # o
      PROVE  OwnerSound(r)' /\ Owned(r)' = Owned(r) /\ (Used(r)' <=> Used(r))
  BY <1>1, <1>5, <1>6, <1>7, OwnerKept, ParamsFacts
<1>8. Used(o)'
  BY <1>4, <1>5 DEF Used
<1>9. OwnerSound(o)'
  <2>1. Stored(o) = len - 1 /\ Stored(o)' = len
    BY <1>1, <1>3, <1>6 DEF Stored
  <2>2. /\ p.cur = len - 1 + 1 + Shift(o) /\ Len(received[o]) <= MaxPairs
        /\ \A i \in 1..p.cur - 1 : p.vec[i] = <<o, i - Shift(o)>>
    BY <2>1, <1>2, ParamsFacts DEF OwnerSound
  <2> DEFINE s == Shift(o)
  <2>3. s \in 0..1
    BY DEF Shift
  <2> HIDE DEF s, p, string, len
  <2>4. q.cur = len + 1 + s /\ p.cur = len + s
    BY <2>2, <2>3, <1>3, <1>4 DEF s
  <2>5. \A i \in 1..q.cur - 1 : q.vec[i] = <<o, i - s>>
    <3> SUFFICES ASSUME NEW i \in 1..q.cur - 1 PROVE q.vec[i] = <<o, i - s>>
      OBVIOUS
    <3>1. CASE i = p.cur
      <4>1. i - s = len
        BY <3>1, <2>3, <2>4, <1>3
      <4> QED BY <3>1, <4>1, <1>3, <1>4
    <3>2. CASE i # p.cur
      <4>1. i \in 1..p.cur - 1
        BY <3>2, <1>3, <1>4
      <4> QED BY <4>1, <1>4, <2>2 DEF s
    <3> QED BY <3>1, <3>2
  <2>6. Len(received'[o]) <= MaxPairs
    BY <2>2, <1>1
  <2> QED BY <2>1, <2>4, <2>5, <2>6, <1>4, <1>5, <1>8 DEF OwnerSound, s
<1>10. Owned(o)' = Owned(o)
  BY <1>1, <1>2, <1>8 DEF Owned
<1>11. ParamsShape' /\ ParamsTypeOK'
  <2>1. moves' \in Nat
    BY ParamsFacts DEF EndPair
  <2>2. (Used("values")' <=> stage' = "values") /\ (Used("request")' <=> stage' # "begin")
    BY <1>1, <1>2, <1>7, <1>8, ParamsFacts, VectorSlotsApart
  <2> QED BY <1>1, <1>5, <1>6, <2>1, <2>2, ParamsFacts, ParamsShapeAfter
<1>12. OwnersSound'
  BY <1>7, <1>9 DEF OwnersSound
<1>13. HeldWhereRead' /\ EnvpKept'
  <2>1. HeldWhereRead /\ EnvpKept
    BY DEF ParamsInv
  <2>2. \A r \in Owners : held'[r] => held[r]
    BY <1>6
  <2>3. stage = "values" => moves' = moves
    BY DEF EndPair
  <2> QED BY <2>1, <2>2, <2>3, <1>1, VectorSlotsApart DEF HeldWhereRead, EnvpKept
<1>14. HeapOwned'
  <2>1. \A r \in Owners : Owned(r)' = Owned(r)
    BY <1>7, <1>10
  <2> QED BY <2>1, <1>1, VectorSlotsApart DEF ParamsInv, HeapOwned
<1>15. StructuresCounted'
  BY <1>1 DEF StructuresCounted, ParamsInv
<1>16. AnsweredOnce'
  BY <1>1, AnswersKept DEF ParamsInv
<1> QED BY <1>11, <1>12, <1>13, <1>14, <1>15, <1>16 DEF ParamsInv

\* FreeParams, with what the reading of a pair has allocated, takes everything of an owner
\* and nothing of the other.
LEMMA FreeParamsKeeps ==
    ASSUME ParamsInv, NEW o \in Owners, Used(o), FreeParams(o), heap' = heap \ Freed(o),
           held' \in [Owners -> BOOLEAN], ~held'[o],
           \A r \in Owners : r # o => held'[r] = held[r]
    PROVE  /\ OwnersSound' /\ HeapOwned'
           /\ params' \in [Owners -> Structures] /\ received' \in [Owners -> Seq(Asked)]
           /\ received'[o] = <<>> /\ ~Used(o)'
           /\ \A r \in Owners : r # o => received'[r] = received[r] /\ (Used(r)' <=> Used(r))
           /\ received'["request"] \in Seq(Names) /\ received'["values"] \in Seq(Questions)
<1>1. Absent \in Structures
  BY DEF Absent, Structures
<1>2. /\ params' \in [Owners -> Structures] /\ params'[o] = Absent
      /\ received'[o] = <<>>
      /\ \A r \in Owners : r # o => params'[r] = params[r] /\ received'[r] = received[r]
  BY <1>1, ParamsFacts DEF FreeParams
<1>3. received' \in [Owners -> Seq(Asked)]
  <2>1. <<>> \in Seq(Asked)
    OBVIOUS
  <2> QED BY <2>1, ParamsFacts DEF FreeParams
<1>4. ~Used(o)'
  BY <1>2 DEF Used
<1>5. ASSUME NEW r \in Owners, r # o
      PROVE  OwnerSound(r)' /\ Owned(r)' = Owned(r) /\ (Used(r)' <=> Used(r))
  BY <1>2, <1>5, OwnerKept, ParamsFacts
<1>6. OwnerSound(o)'
  <2>1. Len(received'[o]) <= MaxPairs
    BY <1>2, ParamsAssumption
  <2> QED BY <2>1, <1>2, <1>4 DEF OwnerSound
<1>7. Owned(o)' = {} /\ Freed(o) = Owned(o)
  BY <1>4, ParamsFacts DEF Owned
<1>8. HeapOwned'
  <2>1. heap = Owned("request") \cup Owned("values")
    BY DEF ParamsInv, HeapOwned
  <2>2. heap' = Owned("request")' \cup Owned("values")'
    BY <2>1, <1>5, <1>7, OwnedApart, VectorSlotsApart
  <2> QED BY <2>2 DEF HeapOwned
<1>9. received'["request"] \in Seq(Names) /\ received'["values"] \in Seq(Questions)
  <2>1. <<>> \in Seq(Names) /\ <<>> \in Seq(Questions)
    OBVIOUS
  <2> QED BY <2>1, <1>2, ParamsFacts, VectorSlotsApart
<1> QED BY <1>2, <1>3, <1>4, <1>5, <1>6, <1>8, <1>9 DEF OwnersSound

\* The request's own environment goes, cut or finished.
LEMMA RequestFreedKeeps == ParamsInv /\ (CutParams \/ FinishRequest) => ParamsInv'
<1> SUFFICES ASSUME ParamsInv, CutParams \/ FinishRequest PROVE ParamsInv'
  OBVIOUS
<1> USE VectorSlotsApart
<1>1. /\ stage \in {"params", "app"} /\ stage' = "begin" /\ FreeParams("request")
      /\ heap' = heap \ Freed("request")
      /\ unknown' = unknown /\ back' = back /\ readError' = readError /\ moves' = moves
      /\ envpTaken' = envpTaken /\ response' = response
      /\ structs' = structs - 1
  BY DEF CutParams, FinishRequest, FreeParams
<1>2. Used("request") /\ ~Used("values") /\ ~held["values"]
  BY <1>1, ParamsFacts DEF OwnerSound
<1>3. /\ held' \in [Owners -> BOOLEAN] /\ ~held'["request"]
      /\ \A r \in Owners : r # "request" => held'[r] = held[r]
  <2>1. CASE CutParams
    BY <2>1, ParamsFacts DEF CutParams
  <2>2. CASE FinishRequest
    <3>1. ~held["request"] /\ held' = held
      BY <2>2, ParamsFacts DEF FinishRequest, ParamsInv, HeldWhereRead
    <3> QED BY <3>1, ParamsFacts
  <2> QED BY <2>1, <2>2
<1>4. /\ OwnersSound' /\ HeapOwned'
      /\ params' \in [Owners -> Structures] /\ received' \in [Owners -> Seq(Asked)]
      /\ received'["request"] = <<>> /\ ~Used("request")'
      /\ \A r \in Owners : r # "request" => received'[r] = received[r] /\ (Used(r)' <=> Used(r))
      /\ received'["request"] \in Seq(Names) /\ received'["values"] \in Seq(Questions)
  BY <1>1, <1>2, <1>3, FreeParamsKeeps
<1>5. structs = 1 + unknown /\ structs' = unknown'
  BY <1>1, ParamsFacts DEF ParamsInv, StructuresCounted
<1>6. ParamsShape' /\ ParamsTypeOK'
  BY <1>1, <1>2, <1>3, <1>4, <1>5, ParamsFacts, ParamsShapeAfter
<1>7. HeldWhereRead' /\ EnvpKept' /\ StructuresCounted'
  BY <1>1, <1>2, <1>3, <1>5, ParamsFacts DEF HeldWhereRead, EnvpKept, StructuresCounted
<1>8. AnsweredOnce'
  BY <1>1, <1>4, AnswersKept DEF ParamsInv
<1> QED BY <1>4, <1>6, <1>7, <1>8 DEF ParamsInv

\* The questions go, answered or cut, and what was being read before is read on.
LEMMA ValuesFreedKeeps == ParamsInv /\ (ValuesDone \/ ValuesCut) => ParamsInv'
<1> SUFFICES ASSUME ParamsInv, ValuesDone \/ ValuesCut PROVE ParamsInv'
  OBVIOUS
<1> USE VectorSlotsApart
<1>1. /\ stage = "values" /\ stage' = back /\ FreeParams("values")
      /\ heap' = heap \ Freed("values")
      /\ unknown' = unknown /\ back' = back /\ moves' = moves
      /\ envpTaken' = envpTaken
      /\ structs' = structs - 1 /\ readError' \in BOOLEAN
  BY ParamsFacts DEF ValuesDone, ValuesCut, FreeParams
<1>2. Used("request") /\ Used("values") /\ back \in {"params", "app"}
  BY <1>1, ParamsFacts
<1>3. /\ held' \in [Owners -> BOOLEAN] /\ ~held'["values"]
      /\ \A r \in Owners : r # "values" => held'[r] = held[r]
  <2>1. CASE ValuesCut
    BY <2>1, ParamsFacts DEF ValuesCut
  <2>2. CASE ValuesDone
    BY <2>2, ParamsFacts DEF ValuesDone
  <2> QED BY <2>1, <2>2
<1>4. /\ OwnersSound' /\ HeapOwned'
      /\ params' \in [Owners -> Structures] /\ received' \in [Owners -> Seq(Asked)]
      /\ received'["values"] = <<>> /\ ~Used("values")'
      /\ \A r \in Owners : r # "values" => received'[r] = received[r] /\ (Used(r)' <=> Used(r))
      /\ received'["request"] \in Seq(Names) /\ received'["values"] \in Seq(Questions)
  BY <1>1, <1>2, <1>3, FreeParamsKeeps
<1>5. structs = 2 + unknown /\ structs' = 1 + unknown'
  BY <1>1, ParamsFacts DEF ParamsInv, StructuresCounted
<1>6. response' \in Nat /\ response' <= ResponseLen
  <2>1. CASE ValuesCut
    BY <2>1, ParamsFacts DEF ValuesCut, ParamsInv, AnsweredOnce, ResponseFits
  <2>2. CASE ValuesDone
    <3> DEFINE len == AnswerLen
               pad == AlignInt8(len)
               most == Max({len + 1, pad})
    <3>1. len \in 0..51
      BY AnswersSmall DEF ParamsInv
    <3>2. response' = HeaderLen + most
      BY <2>2 DEF ValuesDone
    <3>3. pad \in 0..56
      <4>1. pad = ((len + 7) \div 8) * 8
        BY DEF AlignInt8
      <4> HIDE DEF len, pad
      <4>2. (len + 7) \div 8 \in 0..7
        BY <3>1
      <4> QED BY <4>1, <4>2
    <3> HIDE DEF len, pad
    <3>4. most \in {len + 1, pad}
      <4>1. len + 1 \in Int /\ pad \in Int
        BY <3>1, <3>3
      <4>2. \E x \in {len + 1, pad} : \A y \in {len + 1, pad} : x >= y
        BY <4>1
      <4> QED BY <4>2 DEF Max
    <3> HIDE DEF most
    <3> QED BY <3>1, <3>2, <3>3, <3>4 DEF HeaderLen, ResponseLen
  <2> QED BY <2>1, <2>2
<1>7. ParamsShape' /\ ParamsTypeOK'
  BY <1>1, <1>2, <1>3, <1>4, <1>5, <1>6, ParamsFacts, ParamsShapeAfter
<1>8. HeldWhereRead' /\ EnvpKept' /\ StructuresCounted'
  <2>1. held["request"] => back = "params"
    BY <1>1 DEF ParamsInv, HeldWhereRead
  <2>2. back = "app" => envpTaken = moves
    BY <1>1 DEF ParamsInv, EnvpKept
  <2> QED BY <2>1, <2>2, <1>1, <1>2, <1>3, <1>5 DEF HeldWhereRead, EnvpKept, StructuresCounted
<1>9. AnsweredOnce'
  BY <1>4, <1>6, NoAnswers
<1> QED BY <1>4, <1>7, <1>8, <1>9 DEF ParamsInv

LEMMA GetValuesKeeps == ParamsInv /\ GetValues => ParamsInv'
<1> SUFFICES ASSUME ParamsInv, GetValues PROVE ParamsInv'
  OBVIOUS
<1> USE VectorSlotsApart
<1> DEFINE new == NewParams(ValuesLength)
<1>1. /\ new \in Structures /\ new # Absent /\ new.cur = 1 /\ Len(new.vec) \in Nat
      /\ 1 <= Len(new.vec) /\ new.vec[1] = Null
  BY ParamsAssumption, NewParamsHasRoom
<1>2. /\ stage \in {"params", "app"} /\ stage' = "values" /\ back' = stage /\ response' = 0
      /\ params' = [params EXCEPT !["values"] = new]
      /\ structs' = structs + 1
      /\ received' = received /\ held' = held /\ heap' = heap /\ unknown' = unknown
      /\ readError' = readError /\ moves' = moves /\ envpTaken' = envpTaken
  BY DEF GetValues
<1> HIDE DEF new
<1>3. /\ params'["values"] = new /\ params'["request"] = params["request"]
      /\ params' \in [Owners -> Structures]
  BY <1>1, <1>2, ParamsFacts
<1>4. ~Used("values") /\ Used("request") /\ received["values"] = <<>> /\ ~held["values"]
  BY <1>2, ParamsFacts DEF OwnerSound
<1>5. OwnerSound("request")' /\ Owned("request")' = Owned("request") /\ Used("request")'
  BY <1>2, <1>3, <1>4, OwnerKept, ParamsFacts
<1>6. Used("values")'
  BY <1>1, <1>3 DEF Used
<1>7. OwnerSound("values")'
  <2>1. Stored("values")' = 0 /\ Shift("values") = 0
    BY <1>2, <1>4 DEF Stored, Shift
  <2>2. Len(received'["values"]) <= MaxPairs
    BY <1>2, ParamsFacts DEF OwnerSound
  <2> QED BY <2>1, <2>2, <1>1, <1>3, <1>6 DEF OwnerSound
<1>8. Owned("values")' = {} /\ Owned("values") = {}
  <2>1. Len(received'["values"]) = 0 /\ Shift("values") = 0
    BY <1>2, <1>4 DEF Shift
  <2> QED BY <2>1, <1>4 DEF Owned
<1>9. ParamsShape' /\ ParamsTypeOK'
  BY <1>2, <1>3, <1>5, <1>6, ParamsFacts, ParamsShapeAfter
<1>10. OwnersSound'
  BY <1>5, <1>7 DEF OwnersSound
<1>11. HeldWhereRead' /\ EnvpKept'
  BY <1>2 DEF ParamsInv, HeldWhereRead, EnvpKept
<1>12. HeapOwned'
  BY <1>2, <1>5, <1>8 DEF ParamsInv, HeapOwned
<1>13. StructuresCounted'
  BY <1>2, ParamsFacts DEF ParamsInv, StructuresCounted
<1>14. AnsweredOnce'
  BY <1>2, AnswersKept DEF ParamsInv, ResponseLen
<1> QED BY <1>9, <1>10, <1>11, <1>12, <1>13, <1>14 DEF ParamsInv

\* Nothing of an owner changes.
LEMMA OthersKeep ==
    ParamsInv /\ (ParamsDone \/ UnknownManagement \/ UNCHANGED paramsVars) => ParamsInv'
<1> SUFFICES ASSUME ParamsInv, ParamsDone \/ UnknownManagement \/ UNCHANGED paramsVars
             PROVE  ParamsInv'
  OBVIOUS
<1> USE VectorSlotsApart
<1>1. /\ params' = params /\ received' = received /\ held' = held /\ heap' = heap
      /\ back' = back /\ readError' = readError /\ moves' = moves /\ response' = response
  BY DEF ParamsDone, UnknownManagement, paramsVars
<1>2. \/ /\ stage = "params" /\ ~held["request"] /\ stage' = "app" /\ envpTaken' = moves
         /\ structs' = structs /\ unknown' = unknown
      \/ /\ stage' = stage /\ envpTaken' = envpTaken
         /\ structs' = structs + 1 /\ unknown' = unknown + 1
      \/ /\ stage' = stage /\ envpTaken' = envpTaken
         /\ structs' = structs /\ unknown' = unknown
  BY DEF ParamsDone, UnknownManagement, paramsVars
<1>3. \A o \in Owners : OwnerSound(o)' /\ Owned(o)' = Owned(o) /\ (Used(o)' <=> Used(o))
  BY <1>1, OwnerKept, ParamsFacts
<1>4. ParamsShape' /\ ParamsTypeOK'
  BY <1>1, <1>2, <1>3, ParamsFacts, ParamsShapeAfter
<1>5. OwnersSound' /\ HeapOwned'
  BY <1>1, <1>3 DEF OwnersSound, HeapOwned, ParamsInv
<1>6. HeldWhereRead' /\ EnvpKept' /\ StructuresCounted'
  <2>1. HeldWhereRead /\ EnvpKept /\ StructuresCounted /\ (held["values"] => stage = "values")
    BY DEF ParamsInv, HeldWhereRead
  <2> QED BY <2>1, <1>1, <1>2, ParamsFacts DEF HeldWhereRead, EnvpKept, StructuresCounted
<1>7. AnsweredOnce'
  BY <1>1, AnswersKept DEF ParamsInv
<1> QED BY <1>4, <1>5, <1>6, <1>7 DEF ParamsInv

LEMMA ParamsStepInv == ParamsInv /\ [ParamsNext]_paramsVars => ParamsInv'
BY NewRequestKeeps, BeginPairKeeps, EndPairKeeps, RequestFreedKeeps, ValuesFreedKeeps,
   GetValuesKeeps, OthersKeep DEF ParamsNext

LEMMA ParamsAlways == ParamsSpec => []ParamsInv
BY ParamsInitInv, ParamsStepInv, PTL DEF ParamsSpec

LEMMA VectorsHaveRoom == ParamsInv => RoomForNull
<1> SUFFICES ASSUME ParamsInv, NEW o \in Owners, Used(o)
             PROVE  /\ params[o].cur <= Len(params[o].vec)
                    /\ params[o].vec[params[o].cur] = Null
                    /\ Null \notin Strings(params[o]) /\ Junk \notin Strings(params[o])
  BY DEF RoomForNull
<1>1. OwnerSound(o) /\ params[o] \in Structures /\ Freed(o) = Owned(o)
      /\ received[o] \in Seq(Asked)
  BY ParamsFacts
<1>2. params[o].cur \in 1..Len(params[o].vec) /\ params[o].vec[params[o].cur] = Null
  BY <1>1 DEF OwnerSound
<1>3. Strings(params[o]) \subseteq {<<o, k>> : k \in (1 - Shift(o))..Len(received[o])}
  BY <1>1 DEF Freed, Owned
<1>4. (1 - Shift(o))..Len(received[o]) \subseteq Nat
  BY <1>1 DEF Shift
<1>5. \A k \in Nat : <<o, k>> # Null /\ <<o, k>> # Junk
  BY VectorSlotsApart
<1> QED BY <1>2, <1>3, <1>4, <1>5

\* The strings of a vector are as many as its cur says.
LEMMA StringsCounted ==
    ASSUME ParamsInv, NEW o \in Owners, Used(o)
    PROVE  Cardinality(Strings(params[o])) = params[o].cur - 1
<1> DEFINE n == params[o].cur - 1
           S == Strings(params[o])
           f == [i \in 1..n |-> <<o, i - Shift(o)>>]
<1>1. /\ n \in Nat
      /\ \A i \in 1..n : params[o].vec[i] = <<o, i - Shift(o)>>
  <2>1. OwnerSound(o) /\ params[o] \in Structures
    BY ParamsFacts
  <2>2. params[o].cur \in Nat /\ params[o].cur \in 1..Len(params[o].vec)
        /\ Len(params[o].vec) \in Nat
    BY <2>1 DEF OwnerSound, Structures
  <2> QED BY <2>1, <2>2 DEF OwnerSound
<1>2. S = {<<o, i - Shift(o)>> : i \in 1..n}
  BY <1>1 DEF Strings
<1>3. Shift(o) \in Int
  BY DEF Shift
<1> HIDE DEF n, S
<1>4. f \in [1..n -> S]
  BY <1>2
<1>5. \A i, j \in 1..n : f[i] = f[j] => i = j
  BY <1>1, <1>3
<1>6. \A x \in S : \E i \in 1..n : f[i] = x
  BY <1>2
<1> HIDE DEF f
<1>7. ExistsBijection(1..n, S)
  BY <1>4, <1>5, <1>6, Fun_IsBij, Fun_ExistsBij
<1>8. Cardinality(S) = n
  BY <1>1, <1>7, FS_CountingElements
<1> QED BY <1>8 DEF n, S

LEMMA HeapIsExact == ParamsInv => HeapExact
<1> SUFFICES ASSUME ParamsInv PROVE HeapExact
  OBVIOUS
<1> USE VectorSlotsApart
<1>1. heap = UNION {Strings(params[o]) \cup (IF held[o] THEN {Held(o)} ELSE {}) : o \in Owners}
  <2>1. heap = Freed("request") \cup Freed("values")
    BY ParamsFacts DEF ParamsInv, HeapOwned
  <2>2. \A o \in Owners : Freed(o) = Strings(params[o]) \cup (IF held[o] THEN {Held(o)} ELSE {})
    BY DEF Freed
  <2>3. Owners = {"request", "values"}
    BY DEF Owners
  <2> QED BY <2>1, <2>2, <2>3
<1>2. ASSUME NEW o \in Owners
      PROVE  Cardinality(Strings(params[o])) = (IF Used(o) THEN params[o].cur - 1 ELSE 0)
  <2>1. CASE Used(o)
    BY <2>1, StringsCounted
  <2>2. CASE ~Used(o)
    <3>1. params[o].cur = 0
      BY <2>2, ParamsFacts DEF OwnerSound, Absent
    <3>2. Strings(params[o]) = {}
      BY <3>1 DEF Strings
    <3> QED BY <2>2, <3>2, FS_EmptySet
  <2> QED BY <2>1, <2>2
<1>3. structs = Cardinality({o \in Owners : Used(o)}) + unknown
  <2> DEFINE U == {o \in Owners : Used(o)}
  <2>1. structs = (IF stage = "begin" THEN 0 ELSE IF stage = "values" THEN 2 ELSE 1) + unknown
    BY DEF ParamsInv, StructuresCounted
  <2>2. CASE stage = "begin"
    <3>1. U = {}
      BY <2>2, ParamsFacts
    <3> QED BY <2>1, <2>2, <3>1, FS_EmptySet
  <2>3. CASE stage = "values"
    <3>1. U = {"request"} \cup {"values"}
      BY <2>3, ParamsFacts
    <3>2. Cardinality({"request"}) = 1 /\ IsFiniteSet({"request"})
      BY FS_Singleton
    <3>3. Cardinality({"request"} \cup {"values"}) = 2
      BY <3>2, FS_AddElement
    <3> QED BY <2>1, <2>3, <3>1, <3>3
  <2>4. CASE stage \in {"params", "app"}
    <3>1. U = {"request"}
      BY <2>4, ParamsFacts
    <3> QED BY <2>1, <2>4, <3>1, FS_Singleton
  <2> QED BY <2>2, <2>3, <2>4, ParamsFacts
<1> QED BY <1>1, <1>2, <1>3 DEF HeapExact

\* FCGX_GetParam goes through the vector from its beginning, the role first.
LEMMA ParamsFound == ParamsInv => EnvironmentComplete
<1> SUFFICES ASSUME ParamsInv, stage = "app", NEW name \in Names \ {"ROLE"}
             PROVE  LET Sent(i) == i \in DOMAIN received["request"] /\ received["request"][i] = name
                    IN  IF \E i \in 1..MaxPairs : Sent(i)
                        THEN Sent(GetParam(name)) /\ \A j \in 1..GetParam(name)-1 : ~Sent(j)
                        ELSE GetParam(name) = -1
  BY DEF EnvironmentComplete
<1> DEFINE r == received["request"]
           p == params["request"]
           n == Len(r)
           Sent(i) == i \in DOMAIN r /\ r[i] = name
           Found(i) == i < p.cur /\ Name(p.vec[i]) = name
<1>1. /\ OwnerSound("request") /\ Used("request") /\ ~held["request"]
      /\ p \in Structures /\ r \in Seq(Asked)
  BY ParamsFacts, VectorSlotsApart DEF ParamsInv, HeldWhereRead
<1>2. /\ n \in 0..MaxPairs /\ DOMAIN r = 1..n
      /\ p.cur = n + 2 /\ p.cur \in 1..Len(p.vec) /\ DOMAIN p.vec = 1..Len(p.vec)
      /\ Len(p.vec) \in Nat
      /\ \A i \in 1..n + 1 : p.vec[i] = <<"request", i - 1>>
  <2>1. Stored("request") = n /\ Shift("request") = 1 /\ n \in Nat
    BY <1>1 DEF Stored, Shift
  <2>2. p.vec \in Seq(VectorSlots)
    BY <1>1 DEF Structures
  <2>3. /\ n <= MaxPairs /\ p.cur = n + 1 + 1 /\ p.cur \in 1..Len(p.vec)
        /\ \A i \in 1..p.cur - 1 : p.vec[i] = <<"request", i - 1>>
    BY <1>1, <2>1 DEF OwnerSound
  <2>4. p.cur - 1 = n + 1 /\ p.cur = n + 2
    BY <2>1, <2>3
  <2> QED BY <2>1, <2>2, <2>3, <2>4, <1>1, ParamsAssumption
<1>3. \A k \in 1..n : Name(<<"request", k>>) = r[k]
  BY DEF Name
<1>4. Name(<<"request", 0>>) = "ROLE"
  BY DEF Name
<1> HIDE DEF p, r, n
<1>5. \A i \in DOMAIN p.vec : Found(i) <=> i - 1 \in 1..n /\ r[i - 1] = name
  <2> SUFFICES ASSUME NEW i \in DOMAIN p.vec
               PROVE  Found(i) <=> i - 1 \in 1..n /\ r[i - 1] = name
    OBVIOUS
  <2>1. CASE i = 1
    BY <2>1, <1>2, <1>4
  <2>2. CASE i > 1 /\ i <= n + 1
    <3>1. i \in 1..n + 1 /\ i - 1 \in 1..n /\ i < p.cur
      BY <2>2, <1>2
    <3>2. Name(p.vec[i]) = r[i - 1]
      BY <3>1, <1>2, <1>3
    <3> QED BY <3>1, <3>2
  <2>3. CASE i > n + 1
    BY <2>3, <1>2
  <2> QED BY <2>1, <2>2, <2>3, <1>2
<1>6. \A i \in 1..n : i + 1 \in DOMAIN p.vec /\ (Found(i + 1) <=> Sent(i))
  <2> SUFFICES ASSUME NEW i \in 1..n PROVE i + 1 \in DOMAIN p.vec /\ (Found(i + 1) <=> Sent(i))
    OBVIOUS
  <2>1. i + 1 \in DOMAIN p.vec /\ (i + 1) - 1 = i
    BY <1>2
  <2> QED BY <2>1, <1>2, <1>5
<1> DEFINE hit == CHOOSE i \in DOMAIN p.vec : Found(i) /\ \A j \in 1..i-1 : ~Found(j)
<1>7. GetParam(name) = IF \E i \in DOMAIN p.vec : Found(i) THEN p.vec[hit][2] ELSE -1
  BY DEF GetParam, p
<1>8. (\E i \in DOMAIN p.vec : Found(i)) <=> \E i \in 1..MaxPairs : Sent(i)
  <2>1. ASSUME NEW i \in DOMAIN p.vec, Found(i) PROVE \E k \in 1..MaxPairs : Sent(k)
    <3>1. i - 1 \in 1..n /\ r[i - 1] = name
      BY <2>1, <1>5
    <3>2. i - 1 \in 1..MaxPairs
      BY <3>1, <1>2, ParamsAssumption
    <3> QED BY <3>1, <3>2, <1>2
  <2>2. ASSUME NEW k \in 1..MaxPairs, Sent(k) PROVE \E i \in DOMAIN p.vec : Found(i)
    BY <2>2, <1>2, <1>6
  <2> QED BY <2>1, <2>2
<1>9. CASE \E i \in DOMAIN p.vec : Found(i)
  <2> DEFINE F == {i \in DOMAIN p.vec : Found(i)}
  <2>1. F \subseteq Nat /\ F # {}
    BY <1>9, <1>2
  <2>2. PICK m \in F : \A k \in F : m <= k
    <3> HIDE DEF F
    <3> QED BY <2>1, LeastNatural
  <2>3. \A j \in 1..m - 1 : ~Found(j)
    <3>1. m \in Nat /\ m \in DOMAIN p.vec
      BY <2>1, <2>2
    <3>2. \A j \in 1..m - 1 : j \in DOMAIN p.vec /\ ~(m <= j)
      BY <3>1, <1>2
    <3>3. \A j \in 1..m - 1 : j \notin F
      <4> HIDE DEF F
      <4> QED BY <2>2, <3>2
    <3> HIDE DEF Found
    <3> QED BY <3>2, <3>3
  <2>4. hit \in DOMAIN p.vec /\ Found(hit) /\ \A j \in 1..hit - 1 : ~Found(j)
    BY <2>2, <2>3
  <2> HIDE DEF hit
  <2>5. hit - 1 \in 1..n /\ r[hit - 1] = name /\ hit \in 1..n + 1
    BY <2>4, <1>2, <1>5, SMTT(40)
  <2>6. GetParam(name) = hit - 1
    <3>1. GetParam(name) = p.vec[hit][2]
      BY <1>7, <1>9, Zenon
    <3>2. p.vec[hit][2] = hit - 1
      BY <2>5, <1>2
    <3> QED BY <3>1, <3>2
  <2>7. Sent(hit - 1)
    BY <2>5, <1>2
  <2>8. ASSUME NEW j \in 1..(hit - 1) - 1 PROVE ~Sent(j)
    <3>1. j \in 1..n /\ j + 1 \in 1..hit - 1
      BY <2>5, <1>2
    <3> QED BY <3>1, <2>4, <1>6
  <2>9. Sent(GetParam(name)) /\ \A j \in 1..GetParam(name)-1 : ~Sent(j)
    <3> HIDE DEF Sent
    <3> QED BY <2>6, <2>7, <2>8
  <2> QED BY <1>8, <1>9, <2>9 DEF r
<1>10. CASE ~\E i \in DOMAIN p.vec : Found(i)
  <2>1. GetParam(name) = -1
    BY <1>7, <1>10
  <2> QED BY <1>8, <1>10, <2>1 DEF r
<1> QED BY <1>9, <1>10

\* The vectors of parameters have the types of their states, and each owner has its
\* structure exactly while it is at work.
THEOREM ParamsTypes == ParamsSpec => []ParamsTypeOK
<1>1. ParamsInv => ParamsTypeOK
  BY DEF ParamsInv
<1> QED BY <1>1, ParamsAlways, PTL

\* For every length the vectors begin with and every number of pairs: a NULL within the
\* vector, no string lost or freed twice on any way out of the nested readings, an envp that
\* is the vector FreeParams will free, the first pair of each name found, and an answer to
\* FCGI_GET_VALUES that fits into response (FCGX_Accept_r, ReadParams, PutParam,
\* FCGX_GetParam and ProcessManagementRecord).
THEOREM EnvironmentSafe == ParamsSpec => []ParamsSafe
<1>1. ParamsInv => ParamsSafe
  BY VectorsHaveRoom, HeapIsExact, ParamsFound
     DEF ParamsInv, ParamsSafe, EnvpKept, EnvpCurrent, AnsweredOnce
<1> QED BY <1>1, ParamsAlways, PTL

-----------------------------------------------------------------------------
(* Formatted output.                                                       *)

\* What the conversions before the one in hand have read.
ReadBefore == Total([i \in 1..next-1 |-> Reads(format[i])])

\* The types, without next and path.
PrintfShape ==
    /\ format \in Seq(Items)
    /\ args \in Int /\ streamCount \in Int /\ fmtLen \in Nat
    /\ buffCount \in Nat /\ buffLen \in Nat /\ auxBuffLen \in Nat /\ blocks \in Nat
    /\ sent \in Seq(Nat \X Nat)

\* A conversion on the slow path is one the fast path gave up, before it read an argument.
ArgumentsRead ==
    /\ path \in {"scan", "slow"} => args = ReadBefore
    /\ path = "put" => args = ReadBefore + Reads(Item)
    /\ path = "slow" => ~Fast(Item) /\ Item.op # "text"

\* Each item before the one in hand was put.
PutBefore ==
    /\ path # "done" => Len(sent) = next - 1 /\ streamCount = SentLength
    /\ SentLength \in Nat

PrintfInv ==
    /\ PrintfShape /\ PrintfTypeOK /\ ArgumentsRead /\ PutBefore
    /\ SpecifierFits /\ OutputFits /\ CountMatches /\ NoneLost

\* What an item is, by its conversion.
LEMMA ItemFacts ==
    ASSUME NEW item \in Items
    PROVE  /\ item.op \in Ops /\ item.size \in {" ", "l", "L", "h"}
           /\ item.flags \in Nat /\ item.width \in Int /\ item.prec \in Int /\ item.arg \in Int
           /\ item.wstar \in BOOLEAN /\ item.pstar \in BOOLEAN
           /\ item.prec < -1 => item.pstar
           /\ item.op \in {"d", "x", "p"} => item.arg \in 1..25
           /\ item.op = "c" => item.arg \in 0..1
           /\ item.op = "e" => item.arg \in 4..6
           /\ item.op = "text" => item.arg > 0
           /\ item.op = "s" => item.arg \in Nat
           /\ Reads(item) \in Nat
           /\ item.op \in {"text", "%", "other"} => Reads(item) = 0
           /\ Precision(item) \in Int /\ Precision(item) >= -1
           /\ item.op \in {"f", "e"} => Precision(item) >= 0
<1>1. /\ item.op \in Ops /\ item.size \in {" ", "l", "L", "h"}
      /\ item.flags \in Nat /\ item.width \in Int /\ item.prec \in Int /\ item.arg \in Int
      /\ item.wstar \in BOOLEAN /\ item.pstar \in BOOLEAN
      /\ item.prec < -1 => item.pstar
      /\ item.op \in {"d", "x", "p"} => item.arg \in 1..25
      /\ item.op = "c" => item.arg \in 0..1
      /\ item.op = "e" => item.arg \in 4..6
      /\ item.op = "text" => item.arg > 0
      /\ item.op = "s" => item.arg \in Nat
  BY ItemsAssumption
<1>2. /\ Reads(item) \in Nat
      /\ item.op \in {"text", "%", "other"} => Reads(item) = 0
  <2> DEFINE w == IF item.wstar THEN 1 ELSE 0
             p == IF item.pstar THEN 1 ELSE 0
  <2>1. w \in Nat /\ p \in Nat
    OBVIOUS
  <2>2. Reads(item) = IF item.op \in {"text", "%", "other"} THEN 0 ELSE 1 + w + p
    BY DEF Reads
  <2> HIDE DEF w, p
  <2> QED BY <2>1, <2>2
<1>3. /\ Precision(item) \in Int /\ Precision(item) >= -1
      /\ item.op \in {"f", "e"} => Precision(item) >= 0
  <2>1. CASE item.pstar
    <3>1. Precision(item) = Larger(item.prec, 0)
      BY <2>1 DEF Precision
    <3>2. item.prec \in Int
      BY <1>1
    <3> QED BY <3>1, <3>2 DEF Larger
  <2>2. CASE ~item.pstar /\ item.prec = -1 /\ item.op \in {"f", "e"}
    BY <2>2 DEF Precision
  <2>3. CASE ~item.pstar /\ ~(item.prec = -1 /\ item.op \in {"f", "e"})
    <3>1. Precision(item) = item.prec
      BY <2>3 DEF Precision
    <3>2. item.prec \in Int /\ ~(item.prec < -1)
      BY <1>1, <2>3
    <3> QED BY <3>1, <3>2, <2>3
  <2> QED BY <2>1, <2>2, <2>3
<1> QED BY <1>1, <1>2, <1>3

\* A number below 2^exp has at most exp/3 + 1 digits.
LEMMA DigitsBound ==
    ASSUME NEW exp \in Int
    PROVE  /\ IntegerDigits(exp) \in Nat
           /\ IntegerDigits(exp) <= (IF exp > 0 THEN exp \div 3 ELSE 0) + 2
           /\ (IF exp > 0 THEN exp \div 3 ELSE 0) \in Nat
<1>1. CASE exp > 0
  <2> DEFINE d == (exp * 30103) \div 100000
             t == exp \div 3
  <2>1. d \in Int /\ 100000 * d <= exp * 30103 /\ d >= 0
    BY <1>1
  <2>2. t \in Nat /\ 3 * t + 2 >= exp
    BY <1>1
  <2> HIDE DEF d, t
  <2>3. d <= t + 1
    BY <2>1, <2>2, <1>1
  <2> QED BY <2>1, <2>2, <2>3, <1>1 DEF IntegerDigits, d, t
<1>2. CASE ~(exp > 0)
  BY <1>2 DEF IntegerDigits
<1> QED BY <1>1, <1>2

\* What sprintf writes for the item is shorter than the bound of the slow path.
LEMMA BodyBounded ==
    ASSUME NEW item \in Items, item.op \in {"d", "x", "c", "p", "s", "f", "e"}
    PROVE  Body(item) \in Nat /\ Bound(item) \in Nat /\ Body(item) < Bound(item) + 10
<1> DEFINE p == Precision(item)
<1>1. p \in Int /\ p >= -1
  BY ItemFacts
<1>2. CASE item.op \in {"d", "x", "p"}
  <2>1. Body(item) = Larger(p, item.arg) + 2 /\ Bound(item) = Larger(p, 46)
    BY <1>2 DEF Body, Bound
  <2>2. item.arg \in 1..25
    BY <1>2, ItemFacts
  <2> HIDE DEF p
  <2> QED BY <2>1, <2>2, <1>1 DEF Larger
<1>3. CASE item.op = "c"
  <2>1. Body(item) = item.arg /\ Bound(item) = Larger(p, 46) /\ item.arg \in 0..1
    BY <1>3, ItemFacts DEF Body, Bound
  <2> HIDE DEF p
  <2> QED BY <2>1, <1>1 DEF Larger
<1>4. CASE item.op = "s"
  <2>1. /\ Body(item) = IF p = -1 THEN item.arg ELSE Smaller(p, item.arg)
        /\ Bound(item) = Body(item) /\ item.arg \in Nat
    BY <1>4, ItemFacts DEF Body, Bound
  <2> HIDE DEF p
  <2> QED BY <2>1, <1>1 DEF Smaller
<1>5. CASE item.op = "f"
  <2> DEFINE third == IF item.arg > 0 THEN item.arg \div 3 ELSE 0
  <2>1. Body(item) = 1 + IntegerDigits(item.arg) + Fraction(p) /\ Bound(item) = p + 3 + third
    BY <1>5 DEF Body, Bound
  <2>2. /\ IntegerDigits(item.arg) \in Nat /\ third \in Nat
        /\ IntegerDigits(item.arg) <= third + 2 /\ p >= 0
    BY <1>5, ItemFacts, DigitsBound
  <2>3. Fraction(p) \in Nat /\ Fraction(p) <= p + 1
    BY <1>1, <2>2 DEF Fraction
  <2> HIDE DEF p, third
  <2> QED BY <2>1, <2>2, <2>3, <1>1
<1>6. CASE item.op = "e"
  <2>1. Body(item) = 2 + Fraction(p) + item.arg /\ Bound(item) = p + 8 /\ item.arg \in 4..6
        /\ p >= 0
    BY <1>6, ItemFacts DEF Body, Bound
  <2>2. Fraction(p) \in Nat /\ Fraction(p) <= p + 1
    BY <1>1, <2>1 DEF Fraction
  <2> HIDE DEF p
  <2> QED BY <2>1, <2>2, <1>1
<1> QED BY <1>2, <1>3, <1>4, <1>5, <1>6

\* Flags, width and precision are limited, so the specifier is.
LEMMA SpecifierBounded ==
    ASSUME NEW item \in Items, item.flags <= MaxFlags
    PROVE  SpecifierLen(item) \in Nat /\ SpecifierLen(item) < FMT_BUFFLEN
<1>1. \A n \in Int : Digits(n) \in 1..6
  BY DEF Digits
<1>2. Abs(item.width) \in Int /\ Larger(item.prec, 0) \in Int
  <2>1. item.width \in Int /\ item.prec \in Int
    BY ItemFacts
  <2> QED BY <2>1 DEF Abs, Larger
<1>3. Digits(Abs(item.width)) \in 1..6 /\ Digits(Larger(item.prec, 0)) \in 1..6
  BY <1>1, <1>2
<1>4. item.flags \in 0..5
  <2>1. item.flags \in Nat
    BY ItemFacts
  <2> QED BY <2>1 DEF MaxFlags
<1> DEFINE w == IF item.width = 0 /\ ~item.wstar THEN 0
                ELSE Digits(Abs(item.width)) + (IF item.width < 0 THEN 1 ELSE 0)
           p == IF item.prec = -1 /\ ~item.pstar THEN 0 ELSE 1 + Digits(Larger(item.prec, 0))
           size == IF item.size = " " THEN 0 ELSE 1
<1>5. w \in 0..7 /\ p \in 0..7 /\ size \in 0..1
  BY <1>3
<1>6. SpecifierLen(item) = 1 + item.flags + w + p + size + 1
  BY DEF SpecifierLen
<1> HIDE DEF w, p, size
<1> QED BY <1>4, <1>5, <1>6 DEF FMT_BUFFLEN

LEMMA ItemInHand ==
    ASSUME PrintfShape, next \in 1..Len(format)
    PROVE  Item \in Items
BY DEF PrintfShape, Item

\* The arguments of one item more.
LEMMA ReadsAdded ==
    ASSUME PrintfShape, next \in 1..Len(format), format' = format, next' = next + 1
    PROVE  ReadBefore' = ReadBefore + Reads(Item) /\ ReadBefore \in Int
<1> DEFINE s == [i \in 1..next-1 |-> Reads(format[i])]
           t == [i \in 1..next |-> Reads(format[i])]
<1>1. \A i \in 1..next : Reads(format[i]) \in Int
  <2>1. \A i \in 1..next : format[i] \in Items
    BY DEF PrintfShape
  <2>2. ASSUME NEW item \in Items PROVE Reads(item) \in Int
    <3>1. Reads(item) \in Nat
      BY ItemFacts
    <3> QED BY <3>1
  <2> QED BY <2>1, <2>2
<1>2. next \in Nat
  OBVIOUS
<1>3. s \in Seq(Int) /\ Len(s) = next - 1
  <2>1. s \in [1..next-1 -> Int] /\ next - 1 \in Nat
    BY <1>1, <1>2
  <2> QED BY <2>1
<1>4. t \in Seq(Int) /\ Len(t) = next /\ t[next] = Reads(Item)
  <2>1. t \in [1..next -> Int]
    BY <1>1
  <2> QED BY <2>1, <1>2 DEF Item
<1>5. \A i \in 1..Len(s) : t[i] = s[i]
  BY <1>2, <1>3
<1>6. ReadBefore = Total(s)
  BY DEF ReadBefore
<1>7. ReadBefore' = Total(t)
  <2>1. next' - 1 = next
    BY <1>2
  <2>2. ReadBefore' = Total([i \in 1..next'-1 |-> Reads(format'[i])])
    BY DEF ReadBefore
  <2> QED BY <2>1, <2>2
<1> HIDE DEF s, t
<1> QED BY <1>2, <1>3, <1>4, <1>5, <1>6, <1>7, TotalOneMore

\* What is put is added to what was sent.
LEMMA SentAdded ==
    ASSUME PrintfShape, PutBefore, CountMatches, path # "done", next \in 1..Len(format),
           path' # "done", NEW len \in Nat,
           sent' = Append(sent, <<next, len>>), streamCount' = streamCount + len,
           next' = next + 1, format' = format
    PROVE  PutBefore' /\ CountMatches' /\ sent' \in Seq(Nat \X Nat) /\ streamCount' \in Int
<1> DEFINE s == [i \in DOMAIN sent |-> sent[i][2]]
           t == [i \in DOMAIN sent' |-> sent'[i][2]]
<1>1. /\ sent \in Seq(Nat \X Nat) /\ Len(sent) = next - 1 /\ DOMAIN sent = 1..next - 1
      /\ next \in Nat /\ next - 1 \in Nat
  BY DEF PrintfShape, PutBefore
<1>2. /\ sent' \in Seq(Nat \X Nat) /\ Len(sent') = next /\ DOMAIN sent' = 1..next
      /\ sent'[next] = <<next, len>>
      /\ \A i \in 1..next - 1 : sent'[i] = sent[i]
  <2>1. <<next, len>> \in Nat \X Nat
    BY <1>1
  <2> QED BY <1>1, <2>1
<1>3. s \in Seq(Int) /\ Len(s) = next - 1
  <2>1. s \in [1..next-1 -> Int]
    <3>1. \A i \in 1..next - 1 : sent[i] \in Nat \X Nat
      BY <1>1
    <3>2. \A i \in 1..next - 1 : sent[i][2] \in Int
      BY <3>1
    <3> QED BY <3>2, <1>1
  <2> QED BY <2>1, <1>1
<1>4. t \in Seq(Int) /\ Len(t) = next /\ t[next] = len
  <2>1. t \in [1..next -> Int]
    <3>1. \A i \in 1..next : sent'[i] \in Nat \X Nat
      BY <1>2
    <3>2. \A x \in Nat \X Nat : x[2] \in Int
      OBVIOUS
    <3>3. \A i \in 1..next : sent'[i][2] \in Int
      BY <3>1, <3>2
    <3> QED BY <3>3, <1>2
  <2> QED BY <2>1, <1>1, <1>2
<1>5. \A i \in 1..Len(s) : t[i] = s[i]
  BY <1>1, <1>2, <1>3
<1>6. SentLength = Total(s) /\ SentLength' = Total(t)
  BY DEF SentLength
<1> HIDE DEF s, t
<1>7. SentLength' = SentLength + len
  <2>1. Len(t) = Len(s) + 1
    BY <1>1, <1>3, <1>4
  <2>2. Total(t) = Total(s) + t[Len(t)]
    BY <2>1, <1>3, <1>4, <1>5, TotalOneMore
  <2> QED BY <2>2, <1>4, <1>6
<1>8. SentLength \in Nat /\ streamCount = SentLength
  BY DEF PutBefore
<1>9. PutBefore'
  BY <1>1, <1>2, <1>7, <1>8 DEF PutBefore
<1>10. \A i \in DOMAIN sent' : sent'[i][1] = i
  <2>1. \A i \in 1..next - 1 : sent[i][1] = i
    BY <1>1 DEF CountMatches
  <2> QED BY <2>1, <1>1, <1>2
<1> QED BY <1>2, <1>7, <1>8, <1>9, <1>10 DEF CountMatches

LEMMA PrintfInitInv == PrintfInit => PrintfInv
<1> SUFFICES ASSUME PrintfInit PROVE PrintfInv
  OBVIOUS
<1>1. PICK n \in 0..MaxItems : format \in [1..n -> Items]
  BY DEF PrintfInit
<1>2. format \in Seq(Items) /\ Len(format) = n /\ n \in Nat
  <2>1. MaxItems \in Nat
    BY ItemsAssumption
  <2>2. n \in Nat
    BY <2>1
  <2> QED BY <2>2, <1>1
<1>3. /\ next = 1 /\ path = "scan" /\ args = 0 /\ fmtLen = 0 /\ buffCount = 0 /\ buffLen = 100
      /\ auxBuffLen = 0 /\ blocks = 0 /\ sent = <<>> /\ streamCount = 0
  BY DEF PrintfInit, PRINTF_BUFFLEN
<1>4. PrintfShape
  BY <1>2, <1>3 DEF PrintfShape
<1>5. PrintfTypeOK
  BY <1>2, <1>3 DEF PrintfTypeOK
<1>6. ReadBefore = 0
  <2>1. [i \in 1..next-1 |-> Reads(format[i])] = <<>>
    BY <1>3
  <2> QED BY <2>1, TotalEmpty DEF ReadBefore
<1>7. SentLength = 0
  <2>1. [i \in DOMAIN sent |-> sent[i][2]] = <<>>
    BY <1>3
  <2> QED BY <2>1, TotalEmpty DEF SentLength
<1>8. ArgumentsRead
  BY <1>3, <1>6 DEF ArgumentsRead
<1>9. PutBefore /\ CountMatches
  BY <1>3, <1>7 DEF PutBefore, CountMatches
<1>10. SpecifierFits /\ OutputFits /\ NoneLost
  BY <1>3 DEF SpecifierFits, FMT_BUFFLEN, OutputFits, NoneLost
<1> QED BY <1>4, <1>5, <1>8, <1>9, <1>10 DEF PrintfInv

\* Every action needs these facts of the invariant.
LEMMA PrintfFacts ==
    ASSUME PrintfInv
    PROVE  /\ format \in Seq(Items) /\ next \in 1..Len(format)+1 /\ Len(format) \in Nat
           /\ path \in {"scan", "slow", "put", "done"}
           /\ path \in {"slow", "put"} => next <= Len(format)
           /\ args \in Nat /\ streamCount \in Int /\ fmtLen \in Nat
           /\ buffCount \in Nat /\ buffLen \in Nat /\ auxBuffLen \in Nat /\ blocks \in Nat
           /\ sent \in Seq(Nat \X Nat)
           /\ fmtLen < FMT_BUFFLEN
           /\ blocks = (IF path # "done" /\ auxBuffLen > 0 THEN 1 ELSE 0)
<1>1. /\ format \in Seq(Items) /\ Len(format) \in Nat
      /\ streamCount \in Int /\ fmtLen \in Nat
      /\ buffCount \in Nat /\ buffLen \in Nat /\ auxBuffLen \in Nat /\ blocks \in Nat
      /\ sent \in Seq(Nat \X Nat)
  BY DEF PrintfInv, PrintfShape
<1>2. /\ next \in 1..Len(format)+1 /\ path \in {"scan", "slow", "put", "done"}
      /\ path \in {"slow", "put"} => next <= Len(format)
      /\ args \in Nat
  <2>1. PrintfTypeOK
    BY DEF PrintfInv
  <2>2. {args, fmtLen, buffCount, buffLen, auxBuffLen, blocks} \subseteq Nat
    BY <2>1 DEF PrintfTypeOK
  <2>3. /\ next \in 1..Len(format)+1
        /\ path \in {"scan", "slow", "put", "done"}
        /\ path \in {"slow", "put"} => next <= Len(format)
    BY <2>1 DEF PrintfTypeOK
  <2>4. args \in Nat
    BY <2>2
  <2> QED BY <2>3, <2>4
<1> QED BY <1>1, <1>2 DEF PrintfInv, SpecifierFits, NoneLost

\* PutText and PutConverted.
LEMMA PutKeeps == PrintfInv /\ (PutText \/ PutConverted) => PrintfInv'
<1> SUFFICES ASSUME PrintfInv, PutText \/ PutConverted PROVE PrintfInv'
  OBVIOUS
<1>1. /\ path \in {"scan", "put"} /\ path' = "scan" /\ next <= Len(format)
      /\ next' = next + 1
      /\ format' = format /\ args' = args /\ fmtLen' = fmtLen /\ buffCount' = buffCount
      /\ buffLen' = buffLen /\ auxBuffLen' = auxBuffLen /\ blocks' = blocks
  BY PrintfFacts DEF PutText, PutConverted, buffer
<1>2. next \in 1..Len(format) /\ Item \in Items /\ PrintfShape
  BY <1>1, PrintfFacts, ItemInHand DEF PrintfInv
<1>3. PICK len \in Nat : sent' = Append(sent, <<next, len>>) /\ streamCount' = streamCount + len
  <2>1. CASE PutText
    <3>1. Item.op = "text" /\ sent' = Append(sent, <<next, Item.arg>>)
          /\ streamCount' = streamCount + Item.arg
      BY <2>1 DEF PutText
    <3>2. Item.arg \in Int /\ Item.arg > 0
      BY <3>1, <1>2, ItemFacts
    <3>3. Item.arg \in Nat
      BY <3>2
    <3> QED BY <3>1, <3>3
  <2>2. CASE PutConverted
    BY <2>2, PrintfFacts DEF PutConverted
  <2> QED BY <2>1, <2>2
<1>4. PutBefore' /\ CountMatches' /\ sent' \in Seq(Nat \X Nat) /\ streamCount' \in Int
  BY <1>1, <1>2, <1>3, SentAdded DEF PrintfInv
<1>5. ReadBefore' = ReadBefore + Reads(Item) /\ ReadBefore \in Int
  BY <1>1, <1>2, ReadsAdded
<1>6. args = ReadBefore + Reads(Item)
  <2>1. CASE PutText
    <3>1. Reads(Item) = 0
      BY <2>1 DEF PutText, Reads
    <3> QED BY <3>1, <2>1, <1>5 DEF PutText, PrintfInv, ArgumentsRead
  <2>2. CASE PutConverted
    BY <2>2 DEF PutConverted, PrintfInv, ArgumentsRead
  <2> QED BY <2>1, <2>2
<1>7. ArgumentsRead'
  BY <1>1, <1>5, <1>6 DEF ArgumentsRead
<1>8. PrintfShape'
  BY <1>1, <1>4, PrintfFacts DEF PrintfShape
<1>9. PrintfTypeOK'
  BY <1>1, <1>2, <1>4, PrintfFacts DEF PrintfTypeOK
<1>10. SpecifierFits' /\ OutputFits' /\ NoneLost'
  BY <1>1, PrintfFacts DEF SpecifierFits, OutputFits, NoneLost
<1> QED BY <1>4, <1>7, <1>8, <1>9, <1>10 DEF PrintfInv

LEMMA FastPathKeeps == PrintfInv /\ FastPath => PrintfInv'
<1> SUFFICES ASSUME PrintfInv, FastPath PROVE PrintfInv'
  OBVIOUS
<1>0. Fast(Item)
  BY DEF FastPath
<1>1. /\ path = "scan" /\ next <= Len(format)
      /\ auxBuffLen' = auxBuffLen /\ blocks' = blocks
  BY DEF FastPath
<1>2. next \in 1..Len(format) /\ Item \in Items
  <2>1. next \in 1..Len(format)
    BY <1>1, PrintfFacts
  <2> QED BY <2>1, ItemInHand DEF PrintfInv
<1>3. \E len \in Nat, room \in Nat : Convert(len, room) /\ len < room
  <2>1. Item.op \in Ops /\ Item.op \notin {"text", "f", "other"}
    BY <1>0, <1>2, ItemFacts DEF Fast
  <2>2. CASE Item.op = "n"
    <3>1. Convert(0, 100)
      BY <2>2 DEF FastPath, PRINTF_BUFFLEN
    <3> QED BY <3>1
  <2>3. CASE Item.op = "%"
    <3>1. Convert(1, 100)
      BY <2>3 DEF FastPath, PRINTF_BUFFLEN
    <3> QED BY <3>1
  <2>4. CASE Item.op = "s"
    <3>0. Item.arg \in Nat
      BY <2>4, <1>2, ItemFacts
    <3>1. Item.arg \in Nat /\ Item.arg + 1 \in Nat /\ Item.arg < Item.arg + 1
      BY <3>0
    <3>2. Convert(Item.arg, Item.arg + 1)
      BY <2>4 DEF FastPath
    <3> QED BY <3>1, <3>2
  <2>5. CASE Item.op \in {"d", "x", "c", "p", "e"}
    <3>1. Convert(Body(Item), PRINTF_BUFFLEN)
      BY <2>5 DEF FastPath
    <3>2. Body(Item) \in Nat /\ Body(Item) < Bound(Item) + 10
      BY <2>5, <1>2, BodyBounded
    <3>3. Body(Item) < PRINTF_BUFFLEN
      <4>1. Item.prec = -1 /\ ~Item.pstar
        BY <1>0 DEF Fast, Bare
      <4>2. Precision(Item) = IF Item.op = "e" THEN 6 ELSE -1
        BY <4>1, <2>5 DEF Precision
      <4>3. Bound(Item) = IF Item.op = "e" THEN 14 ELSE 46
        BY <4>2, <2>5 DEF Bound, Larger
      <4> QED BY <4>3, <3>2 DEF PRINTF_BUFFLEN
    <3> QED BY <3>1, <3>2, <3>3 DEF PRINTF_BUFFLEN
  <2> QED BY <2>1, <2>2, <2>3, <2>4, <2>5 DEF Ops
<1>4. PICK len \in Nat, room \in Nat : Convert(len, room) /\ len < room
  BY <1>3
<1>5. /\ path' = "put" /\ args' = args + Reads(Item) /\ buffCount' = len /\ buffLen' = room
      /\ format' = format /\ next' = next /\ sent' = sent /\ streamCount' = streamCount
  BY <1>4 DEF Convert, output
<1>6. Reads(Item) \in Nat
  BY <1>2, ItemFacts
<1>7. ReadBefore' = ReadBefore /\ SentLength' = SentLength /\ Item' = Item
  BY <1>5 DEF ReadBefore, SentLength, Item
<1>7a. args' \in Nat /\ fmtLen' \in Nat /\ fmtLen' < 25
  <2>1. args \in Nat
    BY PrintfFacts
  <2>2. args' \in Nat
    BY <2>1, <1>5, <1>6
  <2>3. fmtLen' = 2 \/ fmtLen' = 3
    <3> DEFINE size == IF Item.size = " " THEN 0 ELSE 1
    <3>1. fmtLen' = 2 + size
      BY DEF FastPath
    <3>2. size = 0 \/ size = 1
      OBVIOUS
    <3> HIDE DEF size
    <3> QED BY <3>1, <3>2
  <2> QED BY <2>2, <2>3
<1>8. PrintfShape'
  BY <1>7a, <1>1, <1>5, PrintfFacts DEF PrintfShape
<1>9. PrintfTypeOK'
  <2>1. {args', fmtLen', buffCount', buffLen', auxBuffLen', blocks'} \subseteq Nat
    BY <1>7a, <1>1, <1>5, PrintfFacts
  <2> QED BY <2>1, <1>1, <1>5, PrintfFacts DEF PrintfTypeOK
<1>10. ArgumentsRead'
  BY <1>1, <1>5, <1>7 DEF PrintfInv, ArgumentsRead
<1>11. PutBefore' /\ CountMatches'
  BY <1>1, <1>5, <1>7 DEF PrintfInv, PutBefore, CountMatches
<1>12. SpecifierFits' /\ OutputFits' /\ NoneLost'
  <2>1. SpecifierFits'
    BY <1>7a DEF SpecifierFits, FMT_BUFFLEN
  <2>2. buffCount' < buffLen'
    BY <1>4, <1>5
  <2>3. NoneLost'
    BY <1>1, <1>5, PrintfFacts DEF NoneLost
  <2> QED BY <2>1, <2>2, <2>3 DEF OutputFits
<1> QED BY <1>8, <1>9, <1>10, <1>11, <1>12 DEF PrintfInv

\* A conversion of the slow path, in a buffer that Room chose.
LEMMA SlowPathKeeps == PrintfInv /\ SlowPath => PrintfInv'
<1> SUFFICES ASSUME PrintfInv, SlowPath PROVE PrintfInv'
  OBVIOUS
<1>1. /\ path = "slow" /\ path' = "put" /\ ~Refused(Item) /\ fmtLen' = SpecifierLen(Item)
      /\ Room(Item) /\ buffCount' = Formatted(Item) /\ args' = args + Reads(Item)
      /\ format' = format /\ next' = next /\ sent' = sent /\ streamCount' = streamCount
  BY DEF SlowPath, output
<1>2. next \in 1..Len(format) /\ Item \in Items
  BY <1>1, PrintfFacts, ItemInHand DEF PrintfInv
<1>3. Item.op \in {"d", "x", "c", "p", "s", "f", "e"} /\ Item.flags <= MaxFlags
  <2>1. Item.op \in Ops /\ Item.op # "text" /\ Item.flags \in Nat
    BY <1>1, <1>2, ItemFacts DEF PrintfInv, ArgumentsRead
  <2> QED BY <2>1, <1>1 DEF Refused, Ops, MaxFlags
<1> DEFINE body == Body(Item)
           most == Bound(Item) + 10
           width == Item.width
           reqd == BuffReqd(Item)
<1>4. body \in Nat /\ most \in Nat /\ body < most /\ width \in Int
  <2>1. width \in Int
    BY <1>2, ItemFacts
  <2>2. body \in Nat /\ Bound(Item) \in Nat /\ body < Bound(Item) + 10
    BY <1>2, <1>3, BodyBounded
  <2> QED BY <2>1, <2>2
<1>5. reqd = (IF most > width THEN most ELSE width)
  BY DEF BuffReqd, Larger
<1>6. buffCount' = (IF (IF width < 0 THEN -width ELSE width) > body
                    THEN (IF width < 0 THEN -width ELSE width) ELSE body)
  BY <1>1 DEF Formatted, Larger, Abs
<1>7. \/ reqd <= 100 /\ auxBuffLen' = auxBuffLen /\ blocks' = blocks /\ buffLen' = 100
      \/ /\ reqd > 100 /\ auxBuffLen >= reqd
         /\ auxBuffLen' = auxBuffLen /\ blocks' = blocks /\ buffLen' = auxBuffLen
      \/ /\ reqd > 100 /\ auxBuffLen' = reqd /\ buffLen' = reqd
         /\ blocks' = (IF auxBuffLen > 0 THEN blocks - 1 ELSE blocks) + 1
  <2>1. reqd \in Int
    BY <1>4, <1>5
  <2> HIDE DEF reqd
  <2>2. Room(Item) <=> IF reqd <= PRINTF_BUFFLEN
           THEN UNCHANGED <<auxBuffLen, blocks>> /\ buffLen' = PRINTF_BUFFLEN
           ELSE IF auxBuffLen >= reqd
           THEN UNCHANGED <<auxBuffLen, blocks>> /\ buffLen' = auxBuffLen
           ELSE /\ auxBuffLen' = reqd /\ buffLen' = reqd
                /\ blocks' = (IF auxBuffLen > 0 THEN blocks - 1 ELSE blocks) + 1
    BY DEF Room, reqd
  <2> QED BY <2>1, <2>2, <1>1 DEF PRINTF_BUFFLEN
<1>8. Covered(Item) \/ Bare(Item) => width >= 0 /\ (width < most \/ width < 100)
  <2>1. Covered(Item) => width >= 0 /\ width < (IF most > 100 THEN most ELSE 100)
    BY DEF Covered, Larger, PRINTF_BUFFLEN
  <2>2. Bare(Item) => width = 0
    BY DEF Bare
  <2> HIDE DEF most, width
  <2> QED BY <2>1, <2>2, <1>4
<1>9. Reads(Item) \in Nat
  BY <1>2, ItemFacts
<1>10. fmtLen' \in Nat /\ fmtLen' < FMT_BUFFLEN
  BY <1>1, <1>2, <1>3, SpecifierBounded
<1>11. ReadBefore' = ReadBefore /\ SentLength' = SentLength /\ Item' = Item
  BY <1>1 DEF ReadBefore, SentLength, Item
<1>12. Covered(Item)' = Covered(Item) /\ Bare(Item)' = Bare(Item)
  BY <1>11 DEF Covered, Bare, Bound, Precision
<1> HIDE DEF body, most, width, reqd
<1>13. buffCount' \in Nat /\ buffLen' \in Nat /\ auxBuffLen' \in Nat
  <2>1. reqd \in Nat
    BY <1>4, <1>5
  <2> QED BY <2>1, <1>4, <1>6, <1>7, PrintfFacts
<1>14. blocks' \in Nat /\ blocks' = (IF auxBuffLen' > 0 THEN 1 ELSE 0)
  <2>1. blocks = (IF auxBuffLen > 0 THEN 1 ELSE 0)
    BY <1>1, PrintfFacts
  <2>2. reqd \in Nat
    BY <1>4, <1>5
  <2> QED BY <2>1, <2>2, <1>7, PrintfFacts
<1>15. Covered(Item) \/ Bare(Item) => buffCount' < buffLen'
  <2> SUFFICES ASSUME Covered(Item) \/ Bare(Item) PROVE buffCount' < buffLen'
    OBVIOUS
  <2>1. width >= 0 /\ (width < most \/ width < 100)
    BY <1>8
  <2>2. buffCount' = (IF width > body THEN width ELSE body)
    BY <2>1, <1>4, <1>6
  <2>3. buffLen' >= reqd /\ buffLen' >= 100
    BY <1>4, <1>5, <1>7, PrintfFacts
  <2> QED BY <2>1, <2>2, <2>3, <1>4, <1>5, <1>13
<1>16. PrintfShape'
  <2>1. /\ format' \in Seq(Items) /\ streamCount' \in Int /\ sent' \in Seq(Nat \X Nat)
        /\ fmtLen' \in Nat
    BY <1>1, <1>10, PrintfFacts
  <2>2. args' \in Int
    BY <1>1, <1>9, PrintfFacts
  <2> QED BY <1>13, <1>14, <2>1, <2>2 DEF PrintfShape
<1>17. PrintfTypeOK'
  <2>1. {args', fmtLen', buffCount', buffLen', auxBuffLen', blocks'} \subseteq Nat
    BY <1>1, <1>9, <1>10, <1>13, <1>14, PrintfFacts, SMTT(40)
  <2> QED BY <2>1, <1>1, PrintfFacts DEF PrintfTypeOK
<1>18. ArgumentsRead'
  BY <1>1, <1>11 DEF PrintfInv, ArgumentsRead
<1>19. PutBefore' /\ CountMatches'
  BY <1>1, <1>11 DEF PrintfInv, PutBefore, CountMatches
<1>20. SpecifierFits' /\ NoneLost'
  BY <1>1, <1>10, <1>14 DEF SpecifierFits, NoneLost
<1>21. OutputFits'
  <2>1. OutputFits' = (path' = "put" /\ (Bare(Item)' \/ Covered(Item)') => buffCount' < buffLen')
    BY DEF OutputFits
  <2> QED BY <2>1, <1>12, <1>15
<1> QED BY <1>16, <1>17, <1>18, <1>19, <1>20, <1>21 DEF PrintfInv

\* Giving up the fast path, and doing nothing.
LEMMA GiveUpKeeps == PrintfInv /\ (GiveUpFastPath \/ Over \/ UNCHANGED printfVars) => PrintfInv'
<1> SUFFICES ASSUME PrintfInv, GiveUpFastPath \/ Over \/ UNCHANGED printfVars PROVE PrintfInv'
  OBVIOUS
<1>1. /\ format' = format /\ next' = next /\ args' = args
      /\ fmtLen' = fmtLen /\ buffCount' = buffCount /\ buffLen' = buffLen
      /\ auxBuffLen' = auxBuffLen /\ blocks' = blocks
      /\ sent' = sent /\ streamCount' = streamCount
  BY DEF GiveUpFastPath, Over, printfVars, buffer, output
<1>2. \/ path' = path
      \/ /\ path = "scan" /\ path' = "slow" /\ next <= Len(format)
         /\ Item.op # "text" /\ ~Fast(Item)
  BY DEF GiveUpFastPath, Over, printfVars
<1>3. ReadBefore' = ReadBefore /\ SentLength' = SentLength /\ Item' = Item
  BY <1>1 DEF ReadBefore, SentLength, Item
<1>4. /\ Covered(Item)' = Covered(Item) /\ Bare(Item)' = Bare(Item)
      /\ Fast(Item)' = Fast(Item) /\ Reads(Item)' = Reads(Item)
  BY <1>3 DEF Covered, Bare, Bound, Precision, Fast, Reads
<1>5. PrintfShape'
  BY <1>1, PrintfFacts DEF PrintfShape
<1>6. PrintfTypeOK'
  <2>1. PrintfTypeOK
    BY DEF PrintfInv
  <2>2. {args', fmtLen', buffCount', buffLen', auxBuffLen', blocks'} \subseteq Nat
    BY <1>1, PrintfFacts
  <2> QED BY <2>2, <1>1, <1>2, PrintfFacts DEF PrintfTypeOK
<1>7. ArgumentsRead'
  <2>1. ArgumentsRead
    BY DEF PrintfInv
  <2>2. (Item.op)' = Item.op
    BY <1>3
  <2> QED BY <2>1, <2>2, <1>1, <1>2, <1>3, <1>4 DEF ArgumentsRead
<1>8. PutBefore' /\ CountMatches'
  <2>1. PutBefore /\ CountMatches
    BY DEF PrintfInv
  <2> QED BY <2>1, <1>1, <1>2, <1>3 DEF PutBefore, CountMatches
<1>9. SpecifierFits' /\ NoneLost'
  BY <1>1, <1>2, PrintfFacts DEF SpecifierFits, NoneLost
<1>10. OutputFits'
  <2>1. OutputFits
    BY DEF PrintfInv
  <2>2. (path' = "put" => path = "put")
    BY <1>2
  <2> QED BY <2>1, <2>2, <1>1, <1>4 DEF OutputFits
<1> QED BY <1>5, <1>6, <1>7, <1>8, <1>9, <1>10 DEF PrintfInv

\* Each way out.
LEMMA ReturnKeeps ==
    PrintfInv /\ (PutFails \/ ErrorReturn \/ MallocFails \/ NormalReturn) => PrintfInv'
<1> SUFFICES ASSUME PrintfInv, PutFails \/ ErrorReturn \/ MallocFails \/ NormalReturn
             PROVE  PrintfInv'
  OBVIOUS
<1>1. /\ path \in {"scan", "slow", "put"} /\ path' = "done"
      /\ blocks' = IF auxBuffLen > 0 THEN blocks - 1 ELSE blocks
      /\ format' = format /\ next' = next /\ args' = args /\ fmtLen' = fmtLen
      /\ buffCount' = buffCount /\ buffLen' = buffLen /\ auxBuffLen' = auxBuffLen /\ sent' = sent
  BY DEF PutFails, ErrorReturn, MallocFails, NormalReturn, Return
<1>2. streamCount' = -1 \/ (streamCount' = streamCount /\ next > Len(format))
  BY DEF PutFails, ErrorReturn, MallocFails, NormalReturn, Return
<1>3. blocks' = 0
  <2>1. blocks = (IF auxBuffLen > 0 THEN 1 ELSE 0) /\ auxBuffLen \in Nat
    BY <1>1, PrintfFacts
  <2> QED BY <2>1, <1>1
<1>4. SentLength' = SentLength
  BY <1>1 DEF SentLength
<1>5. streamCount' \in Int
  BY <1>2, PrintfFacts
<1>6. PrintfShape'
  BY <1>1, <1>3, <1>5, PrintfFacts DEF PrintfShape
<1>7. PrintfTypeOK'
  <2>1. {args', fmtLen', buffCount', buffLen', auxBuffLen', blocks'} \subseteq Nat
    BY <1>1, <1>3, PrintfFacts
  <2> QED BY <2>1, <1>1, <1>5, PrintfFacts DEF PrintfTypeOK
<1>8. ArgumentsRead' /\ SpecifierFits' /\ OutputFits' /\ NoneLost'
  BY <1>1, <1>3, PrintfFacts DEF ArgumentsRead, SpecifierFits, OutputFits, NoneLost
<1>9. PutBefore' /\ CountMatches'
  <2>1. PutBefore /\ CountMatches
    BY DEF PrintfInv
  <2>2. SentLength \in Nat /\ Len(sent) = next - 1 /\ streamCount = SentLength
    BY <2>1, <1>1 DEF PutBefore
  <2>3. next > Len(format) => Len(sent) = Len(format)
    BY <2>2, PrintfFacts
  <2> QED BY <2>1, <2>2, <2>3, <1>1, <1>2, <1>4 DEF PutBefore, CountMatches
<1> QED BY <1>6, <1>7, <1>8, <1>9 DEF PrintfInv

LEMMA PrintfAlways == PrintfSpec => []PrintfInv
<1>1. PrintfInv /\ [PrintfNext]_printfVars => PrintfInv'
  BY PutKeeps, FastPathKeeps, SlowPathKeeps, GiveUpKeeps, ReturnKeeps DEF PrintfNext
<1> QED BY <1>1, PrintfInitInv, PTL DEF PrintfSpec

\* The variables of FCGX_VFPrintF have their types, and it stays within the format.
THEOREM PrintfTypes == PrintfSpec => []PrintfTypeOK
<1>1. PrintfInv => PrintfTypeOK
  BY DEF PrintfInv
<1> QED BY <1>1, PrintfAlways, PTL

\* For every format made of items as they can occur, of any length: the specifier fits into
\* fmtBuff, the output into its buffer for the widths the bound allows for, each conversion
\* reads its own arguments on whichever path it takes, what is returned is what was put, and
\* the allocated buffer is freed on every return (FCGX_VFPrintF).
THEOREM FormattedSafely == PrintfSpec => []PrintfSafe
<1>1. PrintfInv => PrintfSafe
  BY DEF PrintfInv, PrintfSafe, ArgumentsRead, ArgumentsAligned, ReadBefore
<1> QED BY <1>1, PrintfAlways, PTL

-----------------------------------------------------------------------------
(* The parts side by side, as MCParts has them.                            *)

\* What one part does is all that happens to it: a behaviour of the parts is one of each.
LEMMA PartsAlone ==
    PartsSpec => StartupSpec /\ ParamsSpec /\ PrintfSpec /\ AsyncSpec /\ ProcessesSpec
<1>1. PartsInit => StartupInit /\ ParamsInit /\ PrintfInit /\ AsyncInit /\ ProcessesInit
  BY DEF PartsInit
<1>2. [PartsNext]_<<part, startupVars, paramsVars, printfVars, asyncVars, processesVars>>
        => /\ [StartupNext]_startupVars /\ [ParamsNext]_paramsVars /\ [PrintfNext]_printfVars
           /\ [AsyncNext]_asyncVars /\ [ProcessesNext]_processesVars
  BY DEF PartsNext
<1> QED
  BY <1>1, <1>2, PTL DEF PartsSpec, StartupSpec, ParamsSpec, PrintfSpec, AsyncSpec, ProcessesSpec

\* Whatever the library is in the middle of, setting itself up, reading parameters,
\* formatting, beginning an operation or a process, its state keeps its types: indices stay
\* inside their tables, cursors inside their vectors, counters within their bounds.
THEOREM PartsTypes == PartsSpec => []PartsTypeOK
<1>1. StartupTypeOK /\ ParamsTypeOK /\ PrintfTypeOK /\ AsyncTypeOK /\ ProcessesTypeOK => PartsTypeOK
  BY DEF PartsTypeOK
<1> QED
  BY <1>1, PartsAlone, StartupTypes, ParamsTypes, PrintfTypes, AsyncTypes, ProcessesTypes, PTL

=============================================================================
