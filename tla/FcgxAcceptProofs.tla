-------------------------- MODULE FcgxAcceptProofs --------------------------
(***************************************************************************)
(* Proofs about FcgxAccept, for any number of threads, connections and     *)
(* descriptors: when OS_Accept cannot meet a rejected client and a         *)
(* shutdown together, no descriptor is shared, leaked or closed by a       *)
(* thread that does not own it.                                            *)
(***************************************************************************)
EXTENDS FcgxAccept, TLAPS

\* The configurations the theorems are about: in the others a thread keeps the
\* number of a descriptor it has closed (run accept_stale).
Sound == ~(Inet /\ Barred # {} /\ "shutdown" \in Signals)

\* t holds descriptor f: as its connection, or fresh from accept(2).
Holds(t, f) == ipcFd[t] = f \/ (pc[t] = "test" /\ socket[t] = f)

Types ==
    /\ backlog \in Seq(Conns)
    /\ holder \in [Fds -> Conns \cup {Free}]
    /\ shutdownPending \in BOOLEAN
    /\ pc \in [Threads -> Locations]
    /\ socket \in [Threads -> Fds \cup {None}]
    /\ ipcFd \in [Threads -> Fds \cup {None}]
    /\ mine \in [Threads -> Conns \cup {Free}]

\* Who may hold a connection at which point of its loop.
Placed(t) ==
    /\ pc[t] \in {"read", "serve", "close"} => ipcFd[t] # None
    /\ ipcFd[t] # None => pc[t] \in {"call", "read", "serve", "close"}
    /\ (pc[t] = "check" /\ socket[t] # None) => Inet /\ Barred # {}

\* What a thread holds is the connection it accepted, and its alone.
Owner(t) == \A f \in Fds : Holds(t, f) =>
    /\ holder[f] = mine[t] /\ mine[t] \in Conns
    /\ \A u \in Threads : Holds(u, f) => u = t

IInv ==
    /\ Types
    /\ shutdownPending => "shutdown" \in Signals
    /\ \A t \in Threads : Placed(t) /\ Owner(t)
    /\ \A f \in Fds : holder[f] # Free => \E t \in Threads : Holds(t, f)

\* None is no descriptor.
LEMMA NoneIsNoFd == None \notin Fds
BY ConstantsAssumption, SMT DEF None

LEMMA InitIInv == Init => IInv
<1> SUFFICES ASSUME Init PROVE IInv
  OBVIOUS
<1>1. Types
  <2>1. backlog \in Seq(Conns)
    BY DEF Init
  <2> QED
    BY <2>1 DEF Init, Types, Locations
<1>2. \A t \in Threads : Placed(t) /\ Owner(t)
  BY NoneIsNoFd DEF Init, Placed, Owner, Holds
<1> QED
  BY <1>1, <1>2 DEF Init, IInv

\* No step of a thread or of its surroundings takes a descriptor from its owner.
LEMMA NextIInv == ASSUME Sound, IInv, [Next]_vars PROVE IInv'
<1> USE NoneIsNoFd, FreeAssumption DEF Types, Locations
<1>1. CASE UNCHANGED vars
  BY <1>1 DEF IInv, Placed, Owner, Holds, vars, net
<1>2. ASSUME NEW c \in Conns, Connect(c) PROVE IInv'
  BY <1>2, SMT DEF IInv, Placed, Owner, Holds, Connect
<1>3. ASSUME NEW c \in Conns, Request(c) PROVE IInv'
  BY <1>3 DEF IInv, Placed, Owner, Holds, Request
<1>4. CASE ShutdownPending
  BY <1>4 DEF IInv, Placed, Owner, Holds, ShutdownPending, net
<1>5. ASSUME NEW t \in Threads, SignalAccept(t) PROVE IInv'
  <2>1. Types'
    BY <1>5 DEF IInv, SignalAccept, Interrupt, net
  <2>2. shutdownPending' => "shutdown" \in Signals
    BY <1>5 DEF IInv, SignalAccept, Interrupt
  <2>3. \A u \in Threads, f \in Fds : Holds(u, f)' <=> Holds(u, f)
    BY <1>5 DEF IInv, SignalAccept, Interrupt, Holds
  <2> QED
    BY <1>5, <2>1, <2>2, <2>3 DEF IInv, Placed, Owner, SignalAccept, Interrupt, net
<1>6. ASSUME NEW t \in Threads, SignalRead(t) PROVE IInv'
  <2>1. Types'
    BY <1>6 DEF IInv, SignalRead, Interrupt, net
  <2>2. shutdownPending' => "shutdown" \in Signals
    BY <1>6 DEF IInv, SignalRead, Interrupt
  <2>3. \A u \in Threads, f \in Fds : Holds(u, f)' <=> Holds(u, f)
    BY <1>6 DEF IInv, SignalRead, Interrupt, Holds
  <2> QED
    BY <1>6, <2>1, <2>2, <2>3 DEF IInv, Placed, Owner, SignalRead, Interrupt, net
<1>7. ASSUME NEW t \in Threads, CheckShutdown(t) PROVE IInv'
  BY <1>7, SMT DEF IInv, Placed, Owner, Holds, CheckShutdown, net, Sound
<1>8. ASSUME NEW t \in Threads, AcceptConn(t) PROVE IInv'
  BY <1>8, SMT DEF IInv, Placed, Owner, Holds, AcceptConn, Available
<1>9. ASSUME NEW t \in Threads, AcceptFails(t) PROVE IInv'
  <2>1. backlog' \in Seq(Conns)
    <3>1. backlog \in Seq(Conns)
      BY DEF IInv
    <3>2. CASE UNCHANGED backlog
      BY <3>1, <3>2
    <3>3. CASE backlog # <<>> /\ backlog' = Tail(backlog)
      BY <3>1, <3>3
    <3> QED
      BY <1>9, <3>2, <3>3 DEF AcceptFails
  <2>2. Types'
    BY <1>9, <2>1 DEF IInv, AcceptFails
  <2>3. \A u \in Threads, f \in Fds : Holds(u, f)' <=> Holds(u, f)
    BY <1>9 DEF IInv, AcceptFails, Holds
  <2> QED
    BY <1>9, <2>2, <2>3 DEF IInv, Placed, Owner, AcceptFails
<1>10. ASSUME NEW t \in Threads, TestRetry(t) PROVE IInv'
  BY <1>10, SMT DEF IInv, Placed, Owner, Holds, TestRetry, net
<1>11. ASSUME NEW t \in Threads, TestError(t) PROVE IInv'
  BY <1>11, SMT DEF IInv, Placed, Owner, Holds, TestError, net
<1>12. ASSUME NEW t \in Threads, TestOK(t) PROVE IInv'
  BY <1>12, SMT DEF IInv, Placed, Owner, Holds, TestOK, net
<1>13. ASSUME NEW t \in Threads, TestReject(t) PROVE IInv'
  BY <1>13, SMT DEF IInv, Placed, Owner, Holds, TestReject, net, ClientAddrOK
<1>14. ASSUME NEW t \in Threads, Call(t) PROVE IInv'
  BY <1>14, SMT DEF IInv, Placed, Owner, Holds, Call, net
<1>15. ASSUME NEW t \in Threads, ReadRequest(t) PROVE IInv'
  BY <1>15, SMT DEF IInv, Placed, Owner, Holds, ReadRequest
<1>16. ASSUME NEW t \in Threads, ReadFails(t) PROVE IInv'
  BY <1>16, SMT DEF IInv, Placed, Owner, Holds, ReadFails, net
<1>17. ASSUME NEW t \in Threads, TryAgain(t) PROVE IInv'
  BY <1>17, SMT DEF IInv, Placed, Owner, Holds, TryAgain, CloseConn
<1>18. ASSUME NEW t \in Threads, Finish(t) PROVE IInv'
  <2>1. CASE CloseConn(t)
    BY <1>18, <2>1, SMT DEF IInv, Placed, Owner, Holds, Finish, CloseConn
  <2>2. CASE UNCHANGED <<holder, sent, ipcFd>>
    BY <1>18, <2>2, SMT DEF IInv, Placed, Owner, Holds, Finish
  <2> QED
    BY <1>18, <2>1, <2>2 DEF Finish
<1>19. ASSUME NEW t \in Threads, Failed(t) PROVE IInv'
  BY <1>19, SMT DEF IInv, Placed, Owner, Holds, Failed, net, Sound
<1> QED
  BY <1>1, <1>2, <1>3, <1>4, <1>5, <1>6, <1>7, <1>8, <1>9, <1>10, <1>11, <1>12,
     <1>13, <1>14, <1>15, <1>16, <1>17, <1>18, <1>19
     DEF Next, Thread, OS_Accept, Environment, Quiet

\* The descriptor a thread reads, serves and closes is that of the connection it
\* accepted, whatever the other threads do.
THEOREM DescriptorsOwned == ASSUME Sound PROVE Spec => []OwnDescriptor
<1>1. IInv => OwnDescriptor
  BY NoneIsNoFd DEF IInv, Types, Placed, Owner, Holds, OwnDescriptor
<1> QED
  BY <1>1, InitIInv, NextIInv, PTL DEF Spec

\* Every open connection is held by a thread: FCGX_Accept_r and FCGX_Finish_r
\* leave no descriptor behind.
THEOREM NoneLeaked == ASSUME Sound PROVE Spec => []NoLeak
<1>1. IInv => NoLeak
  BY DEF IInv, Holds, NoLeak
<1> QED
  BY <1>1, InitIInv, NextIInv, PTL DEF Spec

-----------------------------------------------------------------------------
(* The shutdown flag, in every configuration.                              *)

\* A thread that accepted a connection after the shutdown never comes back to
\* accept(2): it would have to pass the test of the flag again.
LateInv ==
    /\ pc \in [Threads -> Locations] /\ late \in [Threads -> Nat]
    /\ shutdownPending \in BOOLEAN
    /\ \A t \in Threads : late[t] # 0 =>
          late[t] = 1 /\ shutdownPending /\ pc[t] # "accept"

LEMMA NextLateInv == ASSUME LateInv, [Next]_vars PROVE LateInv'
<1> USE DEF LateInv, Locations
<1>1. CASE UNCHANGED vars
  BY <1>1 DEF vars
<1>2. ASSUME NEW c \in Conns, Connect(c) PROVE LateInv'
  BY <1>2 DEF Connect
<1>3. ASSUME NEW c \in Conns, Request(c) PROVE LateInv'
  BY <1>3 DEF Request
<1>4. CASE ShutdownPending
  BY <1>4 DEF ShutdownPending, net
<1>5. ASSUME NEW t \in Threads, SignalAccept(t) PROVE LateInv'
  BY <1>5 DEF SignalAccept, Interrupt
<1>6. ASSUME NEW t \in Threads, SignalRead(t) PROVE LateInv'
  BY <1>6 DEF SignalRead, Interrupt
<1>7. ASSUME NEW t \in Threads, CheckShutdown(t) PROVE LateInv'
  BY <1>7 DEF CheckShutdown
<1>8. ASSUME NEW t \in Threads, AcceptConn(t) PROVE LateInv'
  BY <1>8 DEF AcceptConn, Available
<1>9. ASSUME NEW t \in Threads, AcceptFails(t) PROVE LateInv'
  BY <1>9 DEF AcceptFails
<1>10. ASSUME NEW t \in Threads, TestRetry(t) PROVE LateInv'
  BY <1>10 DEF TestRetry
<1>11. ASSUME NEW t \in Threads, TestError(t) PROVE LateInv'
  BY <1>11 DEF TestError
<1>12. ASSUME NEW t \in Threads, TestOK(t) PROVE LateInv'
  BY <1>12 DEF TestOK
<1>13. ASSUME NEW t \in Threads, TestReject(t) PROVE LateInv'
  BY <1>13 DEF TestReject
<1>14. ASSUME NEW t \in Threads, Call(t) PROVE LateInv'
  BY <1>14 DEF Call
<1>15. ASSUME NEW t \in Threads, ReadRequest(t) PROVE LateInv'
  BY <1>15 DEF ReadRequest
<1>16. ASSUME NEW t \in Threads, ReadFails(t) PROVE LateInv'
  BY <1>16 DEF ReadFails
<1>17. ASSUME NEW t \in Threads, TryAgain(t) PROVE LateInv'
  BY <1>17 DEF TryAgain, CloseConn
<1>18. ASSUME NEW t \in Threads, Finish(t) PROVE LateInv'
  BY <1>18 DEF Finish, CloseConn
<1>19. ASSUME NEW t \in Threads, Failed(t) PROVE LateInv'
  BY <1>19 DEF Failed
<1> QED
  BY <1>1, <1>2, <1>3, <1>4, <1>5, <1>6, <1>7, <1>8, <1>9,
     <1>10, <1>11, <1>12, <1>13, <1>14, <1>15, <1>16, <1>17, <1>18, <1>19
     DEF Next, Thread, OS_Accept, Environment, Quiet

\* No thread accepts two connections after FCGX_ShutdownPending: the window
\* between the test of the flag and accept(2) lets at most one through.
THEOREM OneLateConnection == Spec => []AtMostOneLate
<1>1. ASSUME Init PROVE LateInv
  <2>1. pc \in [Threads -> Locations]
    BY <1>1 DEF Init, Locations
  <2>2. late \in [Threads -> Nat] /\ \A t \in Threads : late[t] = 0
    BY <1>1 DEF Init
  <2>3. shutdownPending \in BOOLEAN
    BY <1>1 DEF Init
  <2> QED
    BY <2>1, <2>2, <2>3 DEF LateInv
<1>2. LateInv => AtMostOneLate
  BY DEF LateInv, AtMostOneLate
<1> QED
  BY <1>1, <1>2, NextLateInv, PTL DEF Spec

-----------------------------------------------------------------------------
(* The types, in every configuration.                                      *)

\* OS_Close leaves a free descriptor and nothing unread.
LEMMA ClosingTypes ==
    ASSUME TypeOK, NEW t \in Threads, CloseConn(t)
    PROVE  /\ holder' \in [Fds -> Conns \cup {Free}] /\ sent' \in [Conns -> 0..MaxUnread]
           /\ ipcFd' \in [Threads -> Fds \cup {None}]
<1> DEFINE c == holder[ipcFd[t]]
<1>1. 0 \in 0..MaxUnread
  BY ConstantsAssumption
<1>2. sent' = sent \/ sent' = [sent EXCEPT ![c] = 0]
  BY DEF CloseConn
<1> HIDE DEF c
<1>3. sent' \in [Conns -> 0..MaxUnread]
  BY <1>1, <1>2 DEF TypeOK
<1> QED
  BY <1>3 DEF CloseConn, TypeOK

LEMMA NextTypes == ASSUME TypeOK, [Next]_vars PROVE TypeOK'
<1> USE DEF TypeOK, Locations
<1>1. CASE UNCHANGED vars
  BY <1>1 DEF vars, net
<1>2. ASSUME NEW c \in Conns, Connect(c) PROVE TypeOK'
  BY <1>2 DEF Connect
<1>3. ASSUME NEW c \in Conns, Request(c) PROVE TypeOK'
  <2>1. sent[c] + 1 \in 0..MaxUnread
    BY <1>3, ConstantsAssumption DEF Request
  <2>2. sent' \in [Conns -> 0..MaxUnread]
    BY <1>3, <2>1 DEF Request
  <2> QED
    BY <1>3, <2>2 DEF Request
<1>4. CASE ShutdownPending
  BY <1>4 DEF ShutdownPending, net
<1>5. ASSUME NEW t \in Threads, SignalAccept(t) PROVE TypeOK'
  BY <1>5 DEF SignalAccept, Interrupt, net
<1>6. ASSUME NEW t \in Threads, SignalRead(t) PROVE TypeOK'
  BY <1>6 DEF SignalRead, Interrupt, net
<1>7. ASSUME NEW t \in Threads, CheckShutdown(t) PROVE TypeOK'
  BY <1>7 DEF CheckShutdown, net
<1>8. ASSUME NEW t \in Threads, AcceptConn(t) PROVE TypeOK'
  BY <1>8 DEF AcceptConn, Available
<1>9. ASSUME NEW t \in Threads, AcceptFails(t) PROVE TypeOK'
  <2>1. backlog' \in Seq(Conns)
    <3>1. backlog # <<>> => Tail(backlog) \in Seq(Conns)
      OBVIOUS
    <3> QED
      BY <1>9, <3>1 DEF AcceptFails
  <2> QED
    BY <1>9, <2>1 DEF AcceptFails
<1>10. ASSUME NEW t \in Threads, TestRetry(t) \/ TestError(t) PROVE TypeOK'
  BY <1>10 DEF TestRetry, TestError, net
<1>11. ASSUME NEW t \in Threads, TestOK(t) \/ TestReject(t) PROVE TypeOK'
  BY <1>11 DEF TestOK, TestReject, net
<1>12. ASSUME NEW t \in Threads, Call(t) \/ ReadFails(t) \/ Failed(t) PROVE TypeOK'
  BY <1>12 DEF Call, ReadFails, Failed, net
<1>13. ASSUME NEW t \in Threads, ReadRequest(t) PROVE TypeOK'
  <2> DEFINE c == holder[ipcFd[t]]
  <2>1. sent' = [sent EXCEPT ![c] = sent[c] - 1] /\ sent[c] > 0
    BY <1>13 DEF ReadRequest
  <2>2. sent' \in [Conns -> 0..MaxUnread]
    <3> HIDE DEF c
    <3>1. CASE c \in Conns
      <4>1. sent[c] - 1 \in 0..MaxUnread
        BY <2>1, <3>1, ConstantsAssumption
      <4> QED
        BY <2>1, <4>1
    <3>2. CASE c \notin Conns
      BY <2>1, <3>2
    <3> QED
      BY <3>1, <3>2
  <2>3. keepConnection' \in [Threads -> BOOLEAN]
    BY <1>13 DEF ReadRequest
  <2> HIDE DEF c
  <2> QED
    BY <1>13, <2>2, <2>3 DEF ReadRequest
<1>14. ASSUME NEW t \in Threads, TryAgain(t) PROVE TypeOK'
  <2>1. /\ holder' \in [Fds -> Conns \cup {Free}] /\ sent' \in [Conns -> 0..MaxUnread]
        /\ ipcFd' \in [Threads -> Fds \cup {None}]
    BY <1>14, ClosingTypes DEF TryAgain
  <2> QED
    BY <1>14, <2>1 DEF TryAgain
<1>15. ASSUME NEW t \in Threads, Finish(t) PROVE TypeOK'
  <2>1. CASE CloseConn(t)
    <3>1. /\ holder' \in [Fds -> Conns \cup {Free}] /\ sent' \in [Conns -> 0..MaxUnread]
          /\ ipcFd' \in [Threads -> Fds \cup {None}]
      BY <1>15, <2>1, ClosingTypes
    <3> QED
      BY <1>15, <3>1 DEF Finish
  <2>2. CASE UNCHANGED <<holder, sent, ipcFd>>
    BY <1>15, <2>2 DEF Finish
  <2> QED
    BY <1>15, <2>1, <2>2 DEF Finish
<1> QED
  BY <1>1, <1>2, <1>3, <1>4, <1>5, <1>6, <1>7, <1>8, <1>9, <1>10, <1>11, <1>12, <1>13, <1>14, <1>15
     DEF Next, Thread, OS_Accept, Environment, Quiet

\* Every variable keeps its type, also where a thread goes on with the number of a
\* descriptor it has closed: what it then reads, serves or closes is a descriptor of the
\* process (OS_Accept, FCGX_Accept_r, FCGX_Finish_r).
THEOREM AcceptTypes == Spec => []TypeOK
<1>1. ASSUME Init PROVE TypeOK
  <2>1. backlog \in Seq(Conns) /\ connected \subseteq Conns
    BY <1>1 DEF Init
  <2>2. sent \in [Conns -> 0..MaxUnread]
    BY <1>1, ConstantsAssumption DEF Init
  <2> QED
    BY <1>1, <2>1, <2>2 DEF Init, TypeOK, Locations
<1> QED
  BY <1>1, NextTypes, PTL DEF Spec

=============================================================================
