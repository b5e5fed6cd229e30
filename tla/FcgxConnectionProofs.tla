------------------------ MODULE FcgxConnectionProofs ------------------------
(***************************************************************************)
(* Proofs about a connection (FcgxConnection), for every room of the       *)
(* sockets, every body and number of requests, and every server.           *)
(*                                                                         *)
(* ConnectionInv says what is under way and where.  Position: what the     *)
(* library has not read is the part of the script behind what it has.      *)
(* Answered, about what the server has, will have and is being written as  *)
(* one: each request has its answers together, its content whole and its   *)
(* end behind it.  Waited and Drained: what an orderly server has when it  *)
(* begins a request, and the library when it ends one.  Unharmed: without  *)
(* a timeout no close resets the connection.  ResponseWhole and            *)
(* KeptWhenDrained follow, and that each step is one of RequestLog or      *)
(* changes nothing of the log.                                             *)
(***************************************************************************)
EXTENDS FcgxConnection, SequenceOpsProofs, FiniteSetTheorems

-----------------------------------------------------------------------------
(* The cells that the server sends.                                        *)

BodyKinds == {"PARAMS", "STDIN", "data", "MGMT"}
InKinds == BodyKinds \cup {"BEGIN", "EOF"}
InCells == InKinds \X Requests

\* What the content records of a request and the management records among them look like:
\* the header of a record is followed by its content.
BodyShape(s, q) ==
    /\ s \in Seq({"STDIN", "data", "MGMT"} \X {q})
    /\ \A i \in 1..Len(s) : s[i][1] = "STDIN" => i < Len(s) /\ s[i + 1][1] = "data"

LEMMA PieceShape ==
    ASSUME NEW kind \in {"STDIN", "MGMT"}, NEW q
    PROVE  BodyShape(Piece(kind, q), q)
<1>1. CASE kind = "STDIN"
  <2>1. Piece(kind, q) = <<<<"STDIN", q>>, <<"data", q>>>>
    BY <1>1 DEF Piece
  <2> QED BY <2>1 DEF BodyShape
<1>2. CASE kind = "MGMT"
  <2>1. Piece(kind, q) = <<<<"MGMT", q>>>>
    BY <1>2 DEF Piece
  <2> QED BY <2>1 DEF BodyShape
<1> QED BY <1>1, <1>2

LEMMA BodiesJoin ==
    ASSUME NEW q, NEW s, NEW t, BodyShape(s, q), BodyShape(t, q)
    PROVE  BodyShape(s \o t, q)
<1> DEFINE T == {"STDIN", "data", "MGMT"} \X {q}
<1>1. s \in Seq(T) /\ t \in Seq(T)
  BY DEF BodyShape
<1>2. /\ s \o t \in Seq(T) /\ Len(s \o t) = Len(s) + Len(t)
      /\ \A i \in 1..Len(s) + Len(t) : (s \o t)[i] = IF i <= Len(s) THEN s[i] ELSE t[i - Len(s)]
  <2> HIDE DEF T
  <2> QED BY <1>1, ConcatProperties
<1>3. Len(s) \in Nat /\ Len(t) \in Nat
  <2> HIDE DEF T
  <2> QED BY <1>1, LenProperties
<1> DEFINE u == s \o t
<1>4. ASSUME NEW i \in 1..Len(u), u[i][1] = "STDIN" PROVE i < Len(u) /\ u[i + 1][1] = "data"
  <2>1. CASE i <= Len(s)
    <3>1. s[i][1] = "STDIN" /\ i \in 1..Len(s)
      BY <1>2, <1>3, <1>4, <2>1
    <3>2. i < Len(s) /\ s[i + 1][1] = "data"
      BY <3>1 DEF BodyShape
    <3>3. i + 1 \in 1..Len(s) + Len(t) /\ i + 1 <= Len(s) /\ i < Len(u)
      BY <1>2, <1>3, <3>1, <3>2
    <3>4. u[i + 1] = s[i + 1]
      BY <1>2, <3>3
    <3> QED BY <3>2, <3>3, <3>4
  <2>2. CASE ~(i <= Len(s))
    <3> DEFINE j == i - Len(s)
    <3>1. j \in 1..Len(t) /\ t[j][1] = "STDIN"
      BY <1>2, <1>3, <1>4, <2>2
    <3>2. j < Len(t) /\ t[j + 1][1] = "data"
      BY <3>1 DEF BodyShape
    <3>3. i + 1 \in 1..Len(s) + Len(t) /\ ~(i + 1 <= Len(s)) /\ i < Len(u) /\ (i + 1) - Len(s) = j + 1
      BY <1>2, <1>3, <3>1, <3>2, <2>2
    <3>4. u[i + 1] = t[j + 1]
      BY <1>2, <3>3
    <3> QED BY <3>2, <3>3, <3>4
  <2> QED BY <2>1, <2>2
<1> QED BY <1>2, <1>4 DEF BodyShape

LEMMA BodyHasShape ==
    ASSUME NEW q, NEW body \in Seq({"STDIN", "MGMT"})
    PROVE  BodyShape(FlattenSeq([i \in DOMAIN body |-> Piece(body[i], q)]), q)
<1> DEFINE T == {"STDIN", "data", "MGMT"} \X {q}
           G == {s \in Seq(T) : BodyShape(s, q)}
           ss == [i \in DOMAIN body |-> Piece(body[i], q)]
<1>1. <<>> \in G
  <2>1. <<>> \in Seq(T) /\ Len(<<>>) = 0
    OBVIOUS
  <2> QED BY <2>1 DEF BodyShape
<1>2. \A s, t \in G : s \o t \in G
  <2> SUFFICES ASSUME NEW s \in G, NEW t \in G PROVE s \o t \in G
    OBVIOUS
  <2>1. BodyShape(s \o t, q)
    BY BodiesJoin
  <2>2. s \o t \in Seq(T)
    BY <2>1 DEF BodyShape
  <2> QED BY <2>1, <2>2
<1>3. \A i \in 1..Len(body) : ss[i] \in G
  <2> SUFFICES ASSUME NEW i \in 1..Len(body) PROVE ss[i] \in G
    OBVIOUS
  <2>1. i \in DOMAIN body /\ body[i] \in {"STDIN", "MGMT"}
    OBVIOUS
  <2>2. BodyShape(Piece(body[i], q), q)
    BY <2>1, PieceShape
  <2>3. Piece(body[i], q) \in Seq(T)
    BY <2>2 DEF BodyShape
  <2> QED BY <2>1, <2>2, <2>3
<1>4. G \in SUBSET Seq(T)
  OBVIOUS
<1>5. ss = [i \in 1..Len(body) |-> ss[i]] /\ Len(body) \in Nat
  OBVIOUS
<1> HIDE DEF T, G, ss
<1>6. ss \in Seq(G)
  BY <1>3, <1>5
<1>7. FlattenSeq(ss) \in G
  BY <1>1, <1>2, <1>4, <1>6, FlattenClosed
<1> QED BY <1>7 DEF G, ss

\* The cells of a request: its BEGIN, its environment and its body, its EOF.
RequestShape(c, q) ==
    /\ c \in Seq(InKinds \X {q}) /\ Len(c) >= 3
    /\ c[1] = <<"BEGIN", q>> /\ c[Len(c)] = <<"EOF", q>>
    /\ \A i \in 2..Len(c) - 1 : c[i][1] \in BodyKinds
    /\ \A i \in 1..Len(c) : c[i][1] = "STDIN" => i < Len(c) /\ c[i + 1][1] = "data"

LEMMA CellsHaveShape ==
    ASSUME NEW q, NEW body \in Seq({"STDIN", "MGMT"})
    PROVE  RequestShape(Cells(q, body), q)
<1> DEFINE T == InKinds \X {q}
           h == <<<<"BEGIN", q>>, <<"PARAMS", q>>>>
           s == FlattenSeq([i \in DOMAIN body |-> Piece(body[i], q)])
           e == <<<<"EOF", q>>>>
           n == Len(s)
           hs == h \o s
           c == hs \o e
<1>1. BodyShape(s, q)
  BY BodyHasShape
<1>2. /\ h \in Seq(T) /\ Len(h) = 2 /\ h[1] = <<"BEGIN", q>> /\ h[2] = <<"PARAMS", q>>
      /\ e \in Seq(T) /\ Len(e) = 1 /\ e[1] = <<"EOF", q>>
  BY DEF InKinds, BodyKinds
<1>3. s \in Seq(T) /\ n \in Nat
  <2>1. s \in Seq({"STDIN", "data", "MGMT"} \X {q})
    BY <1>1 DEF BodyShape
  <2>2. {"STDIN", "data", "MGMT"} \X {q} \subseteq T
    BY DEF InKinds, BodyKinds
  <2> HIDE DEF s, T
  <2> QED BY <2>1, <2>2, SeqMonotonic, LenProperties
<1>4. \A i \in 1..n : /\ s[i][1] \in {"STDIN", "data", "MGMT"}
                      /\ s[i][1] = "STDIN" => i < n /\ s[i + 1][1] = "data"
  <2> HIDE DEF s
  <2> QED BY <1>1 DEF BodyShape
<1>5. Cells(q, body) = c
  BY DEF Cells
<1> HIDE DEF T, h, s, e
<1>6. /\ hs \in Seq(T) /\ Len(hs) = 2 + n
      /\ \A i \in 1..2 + n : hs[i] = IF i <= 2 THEN h[i] ELSE s[i - 2]
  <2>1. /\ hs \in Seq(T) /\ Len(hs) = Len(h) + n
        /\ \A i \in 1..Len(h) + n : hs[i] = IF i <= Len(h) THEN h[i] ELSE s[i - Len(h)]
    BY <1>2, <1>3, ConcatProperties
  <2> HIDE DEF hs, n
  <2> QED BY <2>1, <1>2
<1> HIDE DEF hs
<1>7. /\ c \in Seq(T) /\ Len(c) = 3 + n
      /\ \A i \in 1..(2 + n) + 1 : c[i] = IF i <= 2 + n THEN hs[i] ELSE e[i - (2 + n)]
  <2>1. /\ c \in Seq(T) /\ Len(c) = Len(hs) + Len(e)
        /\ \A i \in 1..Len(hs) + Len(e) : c[i] = IF i <= Len(hs) THEN hs[i] ELSE e[i - Len(hs)]
    BY <1>2, <1>6, ConcatProperties
  <2> HIDE DEF c
  <2> QED BY <2>1, <1>2, <1>6, <1>3
<1> HIDE DEF c, n
<1>8. c[1] = <<"BEGIN", q>> /\ c[2] = <<"PARAMS", q>> /\ c[3 + n] = <<"EOF", q>>
  BY <1>2, <1>3, <1>6, <1>7
<1>9. \A i \in 1..n : c[i + 2] = s[i]
  BY <1>3, <1>6, <1>7
<1>10. \A i \in 2..Len(c) - 1 : i # 2 => i - 2 \in 1..n /\ (i - 2) + 2 = i
  BY <1>3, <1>7
<1>11. \A i \in 2..Len(c) - 1 : c[i][1] \in BodyKinds
  <2> SUFFICES ASSUME NEW i \in 2..Len(c) - 1 PROVE c[i][1] \in BodyKinds
    OBVIOUS
  <2>1. CASE i = 2
    BY <2>1, <1>8 DEF BodyKinds
  <2>2. CASE i # 2
    <3>1. c[i] = s[i - 2] /\ i - 2 \in 1..n
      BY <2>2, <1>9, <1>10
    <3> QED BY <3>1, <1>4 DEF BodyKinds
  <2> QED BY <2>1, <2>2
<1>12. \A i \in 1..Len(c) : c[i][1] = "STDIN" => i < Len(c) /\ c[i + 1][1] = "data"
  <2> SUFFICES ASSUME NEW i \in 1..Len(c), c[i][1] = "STDIN" PROVE i < Len(c) /\ c[i + 1][1] = "data"
    OBVIOUS
  <2>1. i # 1 /\ i # 2 /\ i # 3 + n
    BY <1>8
  <2> DEFINE j == i - 2
  <2>2. j \in 1..n /\ i = j + 2
    BY <2>1, <1>3, <1>7
  <2> HIDE DEF j
  <2>3. s[j][1] = "STDIN"
    BY <2>2, <1>9
  <2>4. j < n /\ s[j + 1][1] = "data"
    BY <2>2, <2>3, <1>4
  <2>5. j + 1 \in 1..n /\ (j + 1) + 2 = i + 1 /\ i < Len(c)
    BY <2>2, <2>4, <1>3, <1>7
  <2>6. c[(j + 1) + 2] = s[j + 1]
    BY <2>5, <1>9
  <2> QED BY <2>4, <2>5, <2>6
<1>13. c \in Seq(InKinds \X {q}) /\ Len(c) >= 3 /\ c[Len(c)] = <<"EOF", q>>
  BY <1>7, <1>8, <1>3 DEF T
<1> QED BY <1>5, <1>8, <1>11, <1>12, <1>13 DEF RequestShape

\* What the server sends for n requests.  The cells of a request are together and begin with
\* its BEGIN, which no other request has, and end with its EOF.
Sorted(s) == \A i, j \in 1..Len(s) : i < j =>
    /\ s[i][2] <= s[j][2]
    /\ s[j][1] = "BEGIN" \/ s[i][1] = "EOF" => s[i][2] < s[j][2]
EndsFollow(s) == \A i \in 1..Len(s) :
    s[i][1] = "BEGIN" => \E j \in i + 1..Len(s) : s[j] = <<"EOF", s[i][2]>>
BeginsPrecede(s) == \A i \in 1..Len(s) :
    \A q \in 1..s[i][2] : \E j \in 1..i : s[j] = <<"BEGIN", q>>
BeginsFirst(s) == \A i \in 1..Len(s) : i = 1 \/ s[i - 1][1] = "EOF" => s[i][1] = "BEGIN"
HeadersFirst(s) == \A i \in 1..Len(s) :
    s[i][1] = "STDIN" => i < Len(s) /\ s[i + 1][1] = "data"

ScriptShape(s, n) ==
    /\ s \in Seq(InKinds \X (1..n))
    /\ Sorted(s) /\ EndsFollow(s) /\ BeginsPrecede(s) /\ BeginsFirst(s) /\ HeadersFirst(s)
    /\ \A q \in 1..n : \E j \in 1..Len(s) : s[j] = <<"BEGIN", q>>

LEMMA ScriptsGrow ==
    ASSUME NEW n \in Nat, NEW s, ScriptShape(s, n), NEW c, RequestShape(c, n + 1)
    PROVE  ScriptShape(s \o c, n + 1)
<1> DEFINE T == InKinds \X (1..n + 1)
           a == Len(s)
           b == Len(c)
           u == s \o c
<1>1. s \in Seq(InKinds \X (1..n)) /\ c \in Seq(InKinds \X {n + 1}) /\ b >= 3
  BY DEF ScriptShape, RequestShape
<1>2. s \in Seq(T) /\ c \in Seq(T)
  <2>1. InKinds \X (1..n) \subseteq T /\ InKinds \X {n + 1} \subseteq T
    OBVIOUS
  <2> HIDE DEF T
  <2> QED BY <1>1, <2>1, SeqMonotonic
<1>3. a \in Nat /\ b \in Nat
  <2> HIDE DEF T
  <2> QED BY <1>2, LenProperties
<1>4. /\ u \in Seq(T) /\ Len(u) = a + b
      /\ \A i \in 1..a + b : u[i] = IF i <= a THEN s[i] ELSE c[i - a]
  <2> HIDE DEF T
  <2> QED BY <1>2, ConcatProperties
<1>5. \A i \in 1..a : s[i] \in InKinds \X (1..n) /\ s[i][2] \in 1..n
  BY <1>1
<1>6. \A i \in 1..b : c[i] \in InKinds \X {n + 1} /\ c[i][2] = n + 1
  BY <1>1
<1>7. /\ c[1] = <<"BEGIN", n + 1>> /\ c[b] = <<"EOF", n + 1>>
      /\ \A i \in 2..b - 1 : c[i][1] \in BodyKinds
      /\ \A i \in 1..b : c[i][1] = "STDIN" => i < b /\ c[i + 1][1] = "data"
  BY DEF RequestShape
<1>8. \A i \in 1..b : i # 1 => c[i][1] # "BEGIN"
  <2> SUFFICES ASSUME NEW i \in 1..b, i # 1 PROVE c[i][1] # "BEGIN"
    OBVIOUS
  <2>1. CASE i = b
    BY <2>1, <1>7
  <2>2. CASE i # b
    <3>1. i \in 2..b - 1
      BY <2>2, <1>3
    <3> QED BY <3>1, <1>7 DEF BodyKinds
  <2> QED BY <2>1, <2>2
<1>9. \A i \in 1..b : i # b => c[i][1] # "EOF"
  <2> SUFFICES ASSUME NEW i \in 1..b, i # b PROVE c[i][1] # "EOF"
    OBVIOUS
  <2>1. CASE i = 1
    BY <2>1, <1>7
  <2>2. CASE i # 1
    <3>1. i \in 2..b - 1
      BY <2>2, <1>3
    <3> QED BY <3>1, <1>7 DEF BodyKinds
  <2> QED BY <2>1, <2>2
<1>10. /\ Sorted(s) /\ EndsFollow(s) /\ BeginsPrecede(s) /\ BeginsFirst(s) /\ HeadersFirst(s)
       /\ \A q \in 1..n : \E j \in 1..a : s[j] = <<"BEGIN", q>>
  BY DEF ScriptShape
<1> HIDE DEF a, b, u, T
<1>11. \A i \in 1..a : u[i] = s[i] /\ i \in 1..Len(u)
  BY <1>3, <1>4
<1>12. \A k \in 1..b : u[a + k] = c[k] /\ a + k \in 1..Len(u)
  BY <1>3, <1>4
<1>13. \A i \in 1..Len(u) : i \in 1..a \/ (i - a \in 1..b /\ i = a + (i - a) /\ u[i] = c[i - a])
  BY <1>3, <1>4
<1>14. Sorted(u)
  <2> SUFFICES ASSUME NEW i \in 1..Len(u), NEW j \in 1..Len(u), i < j
               PROVE  /\ u[i][2] <= u[j][2]
                      /\ u[j][1] = "BEGIN" \/ u[i][1] = "EOF" => u[i][2] < u[j][2]
    BY DEF Sorted
  <2>1. CASE i \in 1..a /\ j \in 1..a
    BY <2>1, <1>10, <1>11 DEF Sorted, a
  <2>2. CASE i \in 1..a /\ j \notin 1..a
    <3>1. u[i][2] \in 1..n /\ u[j][2] = n + 1
      BY <2>2, <1>5, <1>6, <1>11, <1>13
    <3> QED BY <3>1
  <2>3. CASE i \notin 1..a
    <3>1. i - a \in 1..b /\ j - a \in 1..b /\ j - a # 1 /\ i - a # b /\ u[i] = c[i - a] /\ u[j] = c[j - a]
      BY <2>3, <1>3, <1>13
    <3>2. u[j][1] # "BEGIN" /\ u[i][1] # "EOF" /\ u[i][2] = n + 1 /\ u[j][2] = n + 1
      BY <3>1, <1>6, <1>8, <1>9
    <3> QED BY <3>2
  <2> QED BY <2>1, <2>2, <2>3
<1>15. EndsFollow(u)
  <2> SUFFICES ASSUME NEW i \in 1..Len(u), u[i][1] = "BEGIN"
               PROVE  \E j \in i + 1..Len(u) : u[j] = <<"EOF", u[i][2]>>
    BY DEF EndsFollow
  <2>1. CASE i \in 1..a
    <3>1. s[i][1] = "BEGIN" /\ u[i] = s[i]
      BY <2>1, <1>11
    <3>2. PICK j \in i + 1..a : s[j] = <<"EOF", s[i][2]>>
      BY <2>1, <3>1, <1>10 DEF EndsFollow, a
    <3>3. j \in 1..a /\ j \in i + 1..Len(u)
      BY <2>1, <1>3, <1>4
    <3> QED BY <3>1, <3>2, <3>3, <1>11
  <2>2. CASE i \notin 1..a
    <3>1. i - a \in 1..b /\ u[i] = c[i - a] /\ i - a = 1
      BY <2>2, <1>8, <1>13
    <3>2. u[a + b] = <<"EOF", n + 1>> /\ u[i][2] = n + 1 /\ b \in 1..b
      BY <3>1, <1>1, <1>3, <1>6, <1>7, <1>12, SMTT(40) DEF b
    <3>3. a + b \in i + 1..Len(u)
      BY <2>2, <3>1, <1>1, <1>3, <1>4 DEF b
    <3> QED BY <3>2, <3>3
  <2> QED BY <2>1, <2>2
<1>16. \A q \in 1..n + 1 : \E j \in 1..a + 1 : u[j] = <<"BEGIN", q>>
  <2> SUFFICES ASSUME NEW q \in 1..n + 1 PROVE \E j \in 1..a + 1 : u[j] = <<"BEGIN", q>>
    OBVIOUS
  <2>1. CASE q = n + 1
    <3>1. 1 \in 1..b
      BY <1>1, <1>3 DEF b
    <3>2. u[a + 1] = <<"BEGIN", q>> /\ a + 1 \in 1..a + 1
      BY <2>1, <3>1, <1>3, <1>7, <1>12
    <3> QED BY <3>2
  <2>2. CASE q # n + 1
    <3>1. q \in 1..n
      BY <2>2
    <3>2. PICK j \in 1..a : s[j] = <<"BEGIN", q>>
      BY <3>1, <1>10
    <3>3. j \in 1..a + 1
      BY <1>3
    <3> QED BY <3>2, <3>3, <1>11
  <2> QED BY <2>1, <2>2
<1>17. BeginsPrecede(u)
  <2> SUFFICES ASSUME NEW i \in 1..Len(u), NEW q \in 1..u[i][2]
               PROVE  \E j \in 1..i : u[j] = <<"BEGIN", q>>
    BY DEF BeginsPrecede
  <2>1. CASE i \in 1..a
    <3>1. q \in 1..s[i][2]
      BY <2>1, <1>11
    <3>2. PICK j \in 1..i : s[j] = <<"BEGIN", q>>
      BY <2>1, <3>1, <1>10 DEF BeginsPrecede, a
    <3>3. j \in 1..a
      BY <2>1, <1>3
    <3> QED BY <3>2, <3>3, <1>11
  <2>2. CASE i \notin 1..a
    <3>1. i >= a + 1 /\ u[i][2] = n + 1
      BY <2>2, <1>3, <1>6, <1>13
    <3>2. PICK j \in 1..a + 1 : u[j] = <<"BEGIN", q>>
      BY <3>1, <1>16
    <3>3. j \in 1..i
      BY <3>1, <1>3
    <3> QED BY <3>2, <3>3
  <2> QED BY <2>1, <2>2
<1>18. BeginsFirst(u)
  <2> SUFFICES ASSUME NEW i \in 1..Len(u), i = 1 \/ u[i - 1][1] = "EOF" PROVE u[i][1] = "BEGIN"
    BY DEF BeginsFirst
  <2>1. CASE i \in 1..a
    <3>1. i = 1 \/ i - 1 \in 1..a
      BY <2>1, <1>3
    <3>2. i = 1 \/ s[i - 1][1] = "EOF"
      BY <3>1, <1>11
    <3>3. s[i][1] = "BEGIN"
      BY <2>1, <3>2, <1>10 DEF BeginsFirst, a
    <3> QED BY <2>1, <3>3, <1>11
  <2>2. CASE i \notin 1..a /\ i - a = 1
    <3>1. u[i] = c[1]
      BY <2>2, <1>13
    <3> QED BY <3>1, <1>7
  <2>3. CASE i \notin 1..a /\ i - a # 1
    <3> DEFINE k == (i - a) - 1
    <3>1. k \in 1..b /\ k # b /\ i - 1 = a + k /\ i # 1
      BY <2>3, <1>3, <1>13
    <3> HIDE DEF k
    <3>2. u[i - 1] = c[k] /\ c[k][1] # "EOF"
      BY <3>1, <1>9, <1>12
    <3> QED BY <3>1, <3>2
  <2> QED BY <2>1, <2>2, <2>3
<1>19. HeadersFirst(u)
  <2> SUFFICES ASSUME NEW i \in 1..Len(u), u[i][1] = "STDIN"
               PROVE  i < Len(u) /\ u[i + 1][1] = "data"
    BY DEF HeadersFirst
  <2>1. CASE i \in 1..a
    <3>1. s[i][1] = "STDIN"
      BY <2>1, <1>11
    <3>2. i < a /\ s[i + 1][1] = "data"
      BY <2>1, <3>1, <1>10 DEF HeadersFirst, a
    <3>3. i + 1 \in 1..a /\ i < Len(u)
      BY <2>1, <3>2, <1>3, <1>4
    <3> QED BY <3>2, <3>3, <1>11
  <2>2. CASE i \notin 1..a
    <3> DEFINE k == i - a
    <3>1. k \in 1..b /\ i = a + k /\ u[i] = c[k]
      BY <2>2, <1>13
    <3> HIDE DEF k
    <3>2. k < b /\ c[k + 1][1] = "data"
      BY <3>1, <1>7
    <3>3. k + 1 \in 1..b /\ i + 1 = a + (k + 1) /\ i < Len(u)
      BY <3>1, <3>2, <1>3, <1>4
    <3>4. u[i + 1] = c[k + 1]
      BY <3>3, <1>12
    <3> QED BY <3>2, <3>3, <3>4
  <2> QED BY <2>1, <2>2
<1>20. \A q \in 1..n + 1 : \E j \in 1..Len(u) : u[j] = <<"BEGIN", q>>
  <2>1. \A j \in 1..a + 1 : j \in 1..Len(u)
    BY <1>1, <1>3, <1>4 DEF b
  <2> QED BY <2>1, <1>16
<1>21. ScriptShape(u, n + 1)
  BY <1>4, <1>14, <1>15, <1>17, <1>18, <1>19, <1>20 DEF ScriptShape, T
<1> QED BY <1>21 DEF u

\* Every script of the initial states has this shape.
LEMMA ScriptHasShape ==
    ASSUME NEW n \in Nat, NEW body, \A q \in 1..n : body[q] \in Seq({"STDIN", "MGMT"})
    PROVE  ScriptShape(FlattenSeq([q \in 1..n |-> Cells(q, body[q])]), n)
<1> DEFINE First(k) == [q \in 1..k |-> Cells(q, body[q])]
           S == InKinds \X (1..n)
           Missing == {k \in 0..n : ~ScriptShape(FlattenSeq(First(k)), k)}
<1>1. \A q \in 1..n : RequestShape(Cells(q, body[q]), q)
  BY CellsHaveShape
<1>2. \A q \in 1..n : Cells(q, body[q]) \in Seq(S)
  <2> SUFFICES ASSUME NEW q \in 1..n PROVE Cells(q, body[q]) \in Seq(S)
    OBVIOUS
  <2>1. Cells(q, body[q]) \in Seq(InKinds \X {q})
    BY <1>1 DEF RequestShape
  <2>2. InKinds \X {q} \subseteq S
    OBVIOUS
  <2> HIDE DEF S
  <2> QED BY <2>1, <2>2, SeqMonotonic
<1> HIDE DEF S
<1>3. \A k \in 0..n : /\ First(k) \in Seq(Seq(S)) /\ Len(First(k)) = k
                      /\ \A i \in 1..k : First(k)[i] = Cells(i, body[i])
  BY <1>2
<1> HIDE DEF First
<1>4. Missing \subseteq Nat /\ Missing \subseteq 0..n
  OBVIOUS
<1>5. Missing = {}
  <2>1. SUFFICES ASSUME Missing # {} PROVE FALSE
    OBVIOUS
  <2>2. PICK m \in Missing : \A k \in Missing : m <= k
    <3> HIDE DEF Missing
    <3> QED BY <2>1, <1>4, LeastNatural
  <2>3. 0 \notin Missing
    <3>1. First(0) = <<>>
      BY DEF First
    <3>2. FlattenSeq(<<>>) = <<>>
      BY DEF FlattenSeq
    <3>3. ScriptShape(<<>>, 0)
      BY DEF ScriptShape, Sorted, EndsFollow, BeginsPrecede, BeginsFirst, HeadersFirst
    <3> QED BY <3>1, <3>2, <3>3
  <2> DEFINE k == m - 1
  <2>4. m \in 1..n /\ k \in 0..n /\ m \in 0..n /\ k \notin Missing /\ m = k + 1 /\ k \in Nat
    <3> HIDE DEF Missing
    <3> QED BY <2>2, <2>3, <1>4
  <2> HIDE DEF k
  <2>5. ScriptShape(FlattenSeq(First(k)), k)
    BY <2>4
  <2>6. /\ First(m) \in Seq(Seq(S)) /\ Len(First(m)) = m
        /\ \A i \in 1..m : First(m)[i] = Cells(i, body[i])
    BY <2>4, <1>3
  <2>7. /\ First(k) \in Seq(Seq(S)) /\ Len(First(k)) = k
        /\ \A i \in 1..k : First(k)[i] = Cells(i, body[i])
    BY <2>4, <1>3
  <2>8. \A i \in 1..k : First(m)[i] = First(k)[i]
    BY <2>4, <2>6, <2>7
  <2>9. Len(First(m)) = Len(First(k)) + 1
    BY <2>4, <2>6, <2>7
  <2>10. \A i \in 1..Len(First(k)) : First(m)[i] = First(k)[i]
    BY <2>7, <2>8
  <2>11. FlattenSeq(First(m)) = FlattenSeq(First(k)) \o First(m)[Len(First(m))]
    BY <2>6, <2>7, <2>9, <2>10, FlattenOneMore
  <2>12. First(m)[Len(First(m))] = Cells(m, body[m])
    BY <2>4, <2>6
  <2>13. RequestShape(Cells(m, body[m]), k + 1)
    BY <2>4, <1>1
  <2>14. ScriptShape(FlattenSeq(First(k)) \o Cells(m, body[m]), k + 1)
    BY <2>4, <2>5, <2>13, ScriptsGrow
  <2> QED BY <2>2, <2>4, <2>11, <2>12, <2>14
<1>6. n \in 0..n /\ n \notin Missing
  BY <1>5
<1> QED BY <1>6 DEF First

-----------------------------------------------------------------------------
(* The invariant.                                                          *)

OutKinds == {"ANSWER", "out", "end out", "END"}
OutCells == OutKinds \X Requests

\* The application has the request; FCGX_Finish_r has it.
Serving == pc \in {"params", "app", "read"} \/ (pc = "write" /\ back \in {"app", "read"})
Finishing == pc = "finish" \/ (pc = "write" /\ back = "finish")
Closing == pc \in {"drain", "closed"}

Streams ==
    /\ setting \in Settings /\ ScriptShape(script, setting.requests)
    /\ toApp \in Seq(InCells) /\ unread \in Seq(InCells)
    /\ toServer \in Seq(OutCells) /\ seen \in Seq(OutCells) /\ pending \in Seq(OutCells)

\* Where a request is not served there is nothing of it in a buffer or a write.
Phases ==
    /\ Serving => r >= 1
    /\ ~Serving \/ pc = "params" => held = 0
    /\ pc = "params" => puts = 0
    /\ pc # "write" => pending = <<>>
    /\ pc \in {"params", "read"} \/ (pc = "write" /\ back = "read") => ~isClosed
    /\ Closing => unread = <<>> /\ contentLen = 0
    /\ pc = "closed" => toApp = <<>>

\* What is under way to the library is a part of the script, up to what has been sent.
Base == pos - Len(toApp) - Len(unread)
Position ==
    /\ Base \in 0..pos
    /\ \A i \in 1..Len(unread) : unread[i] = script[Base + i]
    /\ \A i \in 1..Len(toApp) : toApp[i] = script[Base + Len(unread) + i]
    /\ r > 0 => \E k \in 1..Base : script[k] = <<"BEGIN", r>>
    /\ contentLen = 1 => Base >= 1 /\ script[Base][1] = "STDIN"

\* What the server has and what will reach it, unless it is gone.
Output == IF serverShut THEN seen \o toServer ELSE (seen \o toServer) \o pending

Answers(c) == c[1] \in {"out", "END"}
InTurn(s) == \A i, j \in 1..Len(s) : i < j /\ Answers(s[i]) /\ Answers(s[j]) =>
    s[i][2] <= s[j][2] /\ s[i] # <<"END", s[j][2]>>
Completed(s) == \A i, j \in 1..Len(s) :
    i < j /\ s[i][1] = "out" /\ Answers(s[j]) /\ s[i][2] # s[j][2] =>
        \E k \in 1..j - 1 : s[k] = <<"END", s[i][2]>>

Before(s, i, x) == Cardinality({j \in 1..i - 1 : s[j] = x})
Count(s, x) == Cardinality({i \in DOMAIN s : s[i] = x})

\* Each request has its answers together and in turn, and the end of the one that is served
\* comes once all that was written has.
Answered ==
    /\ InTurn(Output) /\ Completed(Output)
    /\ \A i \in 1..Len(Output) : Answers(Output[i]) =>
          /\ Output[i][2] <= r
          /\ \E k \in 1..Base : script[k] = <<"BEGIN", Output[i][2]>>
    /\ \A i \in 1..Len(Output) : Output[i] = <<"END", r>> => Before(Output, i, <<"out", r>>) = puts
    /\ Serving => \A i \in 1..Len(Output) : Output[i] # <<"END", r>>
    /\ Serving /\ ~serverShut => Count(Output, <<"out", r>>) + held = puts
    /\ ~serverShut /\ pc # "closed" => \A i \in 1..Len(Output) :
          Output[i][1] = "out" /\ ~(Serving /\ Output[i][2] = r) =>
              \E k \in 1..Len(Output) : Output[k] = <<"END", Output[i][2]>>

\* An orderly server has the end of every request before the one it begins.
Waited == ~setting.pipelined => \A i \in 1..pos : script[i][1] = "BEGIN" =>
    \A q \in 1..script[i][2] - 1 : Received("END", q)

AtEnd == Base >= 1 /\ script[Base] = <<"EOF", r>>

\* What FCGX_Finish_r leaves of an input that was read to its end.
Drained ==
    /\ writeError => serverShut
    /\ Serving /\ ~isClosed => \E i \in Base + 1..Len(script) : script[i] = <<"EOF", r>>
    /\ Serving /\ isClosed /\ ~readError => AtEnd
    /\ Finishing => (drained <=> isClosed /\ ~readError)
    /\ Finishing /\ drained => AtEnd
    /\ Finishing /\ ~setting.pipelined => \A i \in 1..Len(unread) : unread[i][2] <= r
    /\ ~setting.pipelined /\ drained =>
          /\ pc = "accept" => /\ Base = 0 \/ script[Base][1] = "EOF"
                              /\ ~skip /\ contentLen = 0
          /\ pc = "write" => back # "accept"

\* Without a timeout only a server that is gone lets the library close.
Unharmed ==
    "timeout" \notin setting.faults => ~reset /\ (pc = "closed" => serverShut)

ConnectionInv ==
    TypeOK /\ Streams /\ Phases /\ Position /\ Answered /\ Waited /\ Drained /\ Unharmed

-----------------------------------------------------------------------------
(* The types.                                                              *)

LEMMA SettingFacts ==
    ASSUME Streams
    PROVE  /\ setting.requests \in 0..MaxRequests /\ setting.puts \in Nat
           /\ setting.pipelined \in BOOLEAN /\ script \in Seq(InCells)
           /\ RoomIn \in Nat \ {0} /\ RoomOut \in Nat \ {0} /\ BufLen \in Nat \ {0}
           /\ MaxRequests \in Nat
<1>1. setting \in Settings /\ script \in Seq(InKinds \X (1..setting.requests))
  BY DEF Streams, ScriptShape
<1>2. MaxRequests \in Nat /\ {RoomIn, RoomOut, BufLen} \subseteq Nat \ {0}
  BY ConnectionAssumption
<1>3. setting.requests \in 0..MaxRequests /\ setting.puts \in Nat /\ setting.pipelined \in BOOLEAN
  BY <1>1, SettingsAssumption
<1>4. InKinds \X (1..setting.requests) \subseteq InCells
  BY <1>2, <1>3 DEF InCells, Requests
<1>5. script \in Seq(InCells)
  BY <1>1, <1>4, SeqMonotonic
<1> QED BY <1>2, <1>3, <1>5

\* The script is what it is from the beginning on.
LEMMA ScriptIsConstant ==
    ASSUME [Next]_vars
    PROVE  setting' = setting /\ script' = script /\ keep' = keep
<1> USE DEF server
<1>1. CASE Server
  BY <1>1 DEF Server, ServerSend, ServerReceive, ServerClose
<1>2. CASE Library
  <2>1. CASE OSRead \/ OSReadFails \/ AnswerManagement \/ AcceptBegin \/ AcceptSkips \/ SkipContent
    BY <2>1 DEF OSRead, OSReadFails, AnswerManagement, AcceptBegin, AcceptSkips, SkipContent
  <2>2. CASE AcceptRefuses \/ ReadEnvironment \/ ReadHeader \/ ReadContent \/ ReadRefuses \/ ReadEnd
    BY <2>2 DEF AcceptRefuses, ReadEnvironment, ReadHeader, ReadContent, ReadRefuses, ReadEnd
  <2>3. CASE WriteCell \/ WriteFails \/ WriteDone \/ Finish \/ Drain \/ Close
    BY <2>3 DEF WriteCell, WriteFails, WriteDone, Finish, Drain, Close
  <2> QED BY <1>2, <2>1, <2>2, <2>3 DEF Library
<1>3. CASE App
  BY <1>3 DEF App, AppRead, AppPut, AppFlush, AppFinish
<1>4. CASE UNCHANGED vars
  BY <1>4 DEF vars
<1> QED BY <1>1, <1>2, <1>3, <1>4 DEF Next, Over

\* The three ways in which what a reader holds changes.
LEMMA ReaderMoves ==
    ASSUME Streams, TypeOK
    PROVE  /\ unread # <<>> /\ Consume =>
                unread' \in Seq(InCells) /\ Len(unread') = Len(unread) - 1
           /\ \A n \in 1..BufLen : n <= Len(toApp) =>
                 /\ SubSeq(toApp, 1, n) \in Seq(InCells) /\ Len(SubSeq(toApp, 1, n)) = n
                 /\ SubSeq(toApp, n + 1, Len(toApp)) \in Seq(InCells)
                 /\ Len(SubSeq(toApp, n + 1, Len(toApp))) = Len(toApp) - n
                 /\ \A i \in 1..n : SubSeq(toApp, 1, n)[i] = toApp[i]
                 /\ \A i \in 1..Len(toApp) - n : SubSeq(toApp, n + 1, Len(toApp))[i] = toApp[n + i]
           /\ unread # <<>> =>
                 /\ Len(unread) >= 1 /\ Head(unread) = unread[1]
                 /\ \A i \in 1..Len(unread) - 1 : Tail(unread)[i] = unread[i + 1]
           /\ Len(unread) \in Nat /\ Len(toApp) \in Nat
<1>1. unread \in Seq(InCells) /\ toApp \in Seq(InCells) /\ BufLen \in Nat
  BY SettingFacts DEF Streams
<1>2. Len(unread) \in Nat /\ Len(toApp) \in Nat /\ \A i \in 1..Len(toApp) : toApp[i] \in InCells
  BY <1>1, LenProperties
<1>3. unread # <<>> /\ Consume => unread' \in Seq(InCells) /\ Len(unread') = Len(unread) - 1
  BY <1>1, HeadTailProperties DEF Consume
<1>4. ASSUME NEW n \in 1..BufLen, n <= Len(toApp)
      PROVE  /\ SubSeq(toApp, 1, n) \in Seq(InCells) /\ Len(SubSeq(toApp, 1, n)) = n
             /\ SubSeq(toApp, n + 1, Len(toApp)) \in Seq(InCells)
             /\ Len(SubSeq(toApp, n + 1, Len(toApp))) = Len(toApp) - n
             /\ \A i \in 1..n : SubSeq(toApp, 1, n)[i] = toApp[i]
             /\ \A i \in 1..Len(toApp) - n : SubSeq(toApp, n + 1, Len(toApp))[i] = toApp[n + i]
  <2>1. /\ 1 \in Int /\ n \in Int /\ n + 1 \in Int /\ Len(toApp) \in Int
        /\ \A i \in 1..n : toApp[i] \in InCells
        /\ \A i \in n + 1..Len(toApp) : toApp[i] \in InCells
    BY <1>1, <1>2, <1>4
  <2>2. /\ SubSeq(toApp, 1, n) \in Seq(InCells)
        /\ Len(SubSeq(toApp, 1, n)) = IF 1 <= n THEN n - 1 + 1 ELSE 0
        /\ \A i \in 1..n - 1 + 1 : SubSeq(toApp, 1, n)[i] = toApp[1 + i - 1]
    BY <2>1, SubSeqProperties
  <2>3. /\ SubSeq(toApp, n + 1, Len(toApp)) \in Seq(InCells)
        /\ Len(SubSeq(toApp, n + 1, Len(toApp))) =
              IF n + 1 <= Len(toApp) THEN Len(toApp) - (n + 1) + 1 ELSE 0
        /\ \A i \in 1..Len(toApp) - (n + 1) + 1 :
              SubSeq(toApp, n + 1, Len(toApp))[i] = toApp[(n + 1) + i - 1]
    BY <2>1, SubSeqProperties
  <2> DEFINE u == SubSeq(toApp, 1, n)
             t == SubSeq(toApp, n + 1, Len(toApp))
             len == Len(toApp)
  <2> HIDE DEF u, t
  <2>4. Len(u) = n /\ Len(t) = len - n
    BY <2>2, <2>3, <1>2, <1>4 DEF u, t
  <2>5. \A i \in 1..n : i \in 1..n - 1 + 1 /\ 1 + i - 1 = i
    BY <1>4
  <2>6. \A i \in 1..n : u[i] = toApp[i]
    BY <2>2, <2>5 DEF u
  <2>7. \A i \in 1..len - n : i \in 1..len - (n + 1) + 1 /\ (n + 1) + i - 1 = n + i
    BY <1>2, <1>4
  <2>8. \A i \in 1..len - n : t[i] = toApp[n + i]
    BY <2>3, <2>7 DEF t
  <2> QED BY <2>2, <2>3, <2>4, <2>6, <2>8 DEF u, t
<1>5. unread # <<>> =>
         /\ Len(unread) >= 1 /\ Head(unread) = unread[1]
         /\ \A i \in 1..Len(unread) - 1 : Tail(unread)[i] = unread[i + 1]
  <2> SUFFICES ASSUME unread # <<>>
               PROVE  /\ Len(unread) >= 1 /\ Head(unread) = unread[1]
                      /\ \A i \in 1..Len(unread) - 1 : Tail(unread)[i] = unread[i + 1]
    OBVIOUS
  <2>1. Len(unread) >= 1 /\ Head(unread) = unread[1]
    BY <1>1
  <2>2. /\ Len(Tail(unread)) = Len(unread) - 1
        /\ \A i \in 1..Len(Tail(unread)) : Tail(unread)[i] = unread[i + 1]
    BY <1>1, HeadTailProperties
  <2> QED BY <2>1, <2>2
<1> QED BY <1>2, <1>3, <1>4, <1>5

\* The parts of TypeOK.
PlaceTypes == keep \in [1..setting.requests -> BOOLEAN] /\ pos \in 0..Len(script) /\ r \in 0..MaxRequests
RoomTypes == Len(toApp) <= RoomIn /\ Len(toServer) <= RoomOut /\ Len(unread) <= BufLen
ControlTypes ==
    /\ pc \in {"accept", "params", "app", "read", "write", "finish", "drain", "closed"}
    /\ back \in {"accept", "app", "read", "finish"} /\ contentLen \in 0..1
WriterTypes == held \in 0..puts /\ puts \in 0..setting.puts
FlagTypes ==
    /\ serverShut \in BOOLEAN /\ reset \in BOOLEAN /\ skip \in BOOLEAN /\ isClosed \in BOOLEAN
    /\ readError \in BOOLEAN /\ writeError \in BOOLEAN /\ drained \in BOOLEAN

LEMMA TypeParts == TypeOK <=> PlaceTypes /\ RoomTypes /\ ControlTypes /\ WriterTypes /\ FlagTypes
<1>1. TypeOK => PlaceTypes /\ RoomTypes /\ ControlTypes /\ WriterTypes
  BY DEF TypeOK, PlaceTypes, RoomTypes, ControlTypes, WriterTypes
<1>2. TypeOK => FlagTypes
  BY DEF TypeOK, FlagTypes
<1>3. FlagTypes => {serverShut, reset, skip, isClosed, readError, writeError, drained} \subseteq BOOLEAN
  BY DEF FlagTypes
<1>4. PlaceTypes /\ RoomTypes /\ ControlTypes /\ WriterTypes /\ FlagTypes => TypeOK
  BY <1>3 DEF TypeOK, PlaceTypes, RoomTypes, ControlTypes, WriterTypes
<1> QED BY <1>1, <1>2, <1>4

LEMMA PlaceTypesStep ==
    ASSUME Streams, PlaceTypes, [Next]_vars
    PROVE  PlaceTypes'
<1> USE DEF server, reader, writer
<1>1. setting.requests \in 0..MaxRequests /\ setting.puts \in Nat /\ setting' = setting /\ script' = script /\ keep' = keep
  BY SettingFacts, ScriptIsConstant
<1>2. CASE ServerSend
  <2>1. script \in Seq(InCells) /\ pos + 1 \in 0..Len(script)
    BY <1>2, SettingFacts DEF ServerSend, PlaceTypes
  <2> QED BY <1>1, <1>2, <2>1 DEF ServerSend, PlaceTypes
<1>3. CASE AcceptBegin
  <2>1. Head(unread) \in InCells
    BY <1>3 DEF AcceptBegin, At, Streams
  <2>2. Head(unread)[2] \in Requests
    BY <2>1 DEF InCells
  <2> QED BY <1>1, <1>3, <2>2, SettingFacts DEF AcceptBegin, PlaceTypes, Requests
<1>4. CASE ServerReceive \/ ServerClose \/ OSRead \/ OSReadFails \/ AnswerManagement \/ AcceptSkips
  BY <1>4, ScriptIsConstant DEF ServerReceive, ServerClose, OSRead, OSReadFails,
     AnswerManagement, AcceptSkips, PlaceTypes
<1>5. CASE SkipContent \/ AcceptRefuses \/ ReadEnvironment \/ ReadHeader \/ ReadContent
          \/ ReadRefuses
  BY <1>5, ScriptIsConstant DEF SkipContent, AcceptRefuses, ReadEnvironment, ReadHeader,
     ReadContent, ReadRefuses, PlaceTypes
<1>6. CASE ReadEnd \/ WriteCell \/ WriteFails \/ WriteDone \/ Finish \/ Drain
  BY <1>6, ScriptIsConstant DEF ReadEnd, WriteCell, WriteFails, WriteDone, Finish, Drain, PlaceTypes
<1>7. CASE Close \/ AppRead \/ AppPut \/ AppFlush \/ AppFinish
  BY <1>7, ScriptIsConstant DEF Close, AppRead, AppPut, AppFlush, AppFinish, PlaceTypes
<1>8. CASE UNCHANGED vars
  BY <1>8 DEF vars, PlaceTypes
<1> QED BY <1>2, <1>3, <1>4, <1>5, <1>6, <1>7, <1>8 DEF Next, Server, Library, App, Over

LEMMA RoomTypesStep ==
    ASSUME Streams, TypeOK, RoomTypes, [Next]_vars
    PROVE  RoomTypes'
<1> USE DEF server, reader, writer
<1>1. /\ Len(toApp) \in Nat /\ Len(unread) \in Nat /\ Len(toServer) \in Nat
      /\ RoomIn \in Nat \ {0} /\ RoomOut \in Nat \ {0} /\ BufLen \in Nat \ {0}
  BY SettingFacts, ReaderMoves, LenProperties DEF Streams
<1>2. unread # <<>> => Len(Tail(unread)) = Len(unread) - 1
  BY HeadTailProperties DEF Streams
<1>3. toServer # <<>> => Len(Tail(toServer)) = Len(toServer) - 1
  BY HeadTailProperties DEF Streams
<1>4. \A c : Len(Append(toApp, c)) = Len(toApp) + 1 /\ Len(Append(toServer, c)) = Len(toServer) + 1
  BY DEF Streams
<1>5. Len(<<>>) = 0
  OBVIOUS
<1>6. CASE ServerSend
  BY <1>6, <1>1, <1>2, <1>3, <1>4, <1>5 DEF ServerSend, RoomTypes, At, Consume, BeginClose
<1>7. CASE ServerReceive
  BY <1>7, <1>1, <1>2, <1>3, <1>4, <1>5 DEF ServerReceive, RoomTypes, At, Consume, BeginClose
<1>8. CASE OSRead
  <2>1. PICK n \in 1..BufLen : /\ n <= Len(toApp) /\ unread' = SubSeq(toApp, 1, n)
                              /\ toApp' = SubSeq(toApp, n + 1, Len(toApp))
    BY <1>8 DEF OSRead
  <2>2. Len(unread') = n /\ Len(toApp') = Len(toApp) - n
    BY <2>1, ReaderMoves
  <2> QED BY <1>8, <1>1, <2>1, <2>2 DEF OSRead, RoomTypes
<1>9. CASE OSReadFails
  BY <1>9, <1>1, <1>2, <1>3, <1>4, <1>5 DEF OSReadFails, RoomTypes, At, Consume, BeginClose
<1>10. CASE AnswerManagement
  BY <1>10, <1>1, <1>2, <1>3, <1>4, <1>5 DEF AnswerManagement, RoomTypes, At, Consume, BeginClose
<1>11. CASE AcceptBegin
  BY <1>11, <1>1, <1>2, <1>3, <1>4, <1>5 DEF AcceptBegin, RoomTypes, At, Consume, BeginClose
<1>12. CASE AcceptSkips
  BY <1>12, <1>1, <1>2, <1>3, <1>4, <1>5 DEF AcceptSkips, RoomTypes, At, Consume, BeginClose
<1>13. CASE SkipContent
  BY <1>13, <1>1, <1>2, <1>3, <1>4, <1>5 DEF SkipContent, RoomTypes, At, Consume, BeginClose
<1>14. CASE AcceptRefuses
  BY <1>14, <1>1, <1>2, <1>3, <1>4, <1>5 DEF AcceptRefuses, RoomTypes, At, Consume, BeginClose
<1>15. CASE ReadEnvironment
  BY <1>15, <1>1, <1>2, <1>3, <1>4, <1>5 DEF ReadEnvironment, RoomTypes, At, Consume, BeginClose
<1>16. CASE ReadHeader
  BY <1>16, <1>1, <1>2, <1>3, <1>4, <1>5 DEF ReadHeader, RoomTypes, At, Consume, BeginClose
<1>17. CASE ReadContent
  BY <1>17, <1>1, <1>2, <1>3, <1>4, <1>5 DEF ReadContent, RoomTypes, At, Consume, BeginClose
<1>18. CASE ReadRefuses
  BY <1>18, <1>1, <1>2, <1>3, <1>4, <1>5 DEF ReadRefuses, RoomTypes, At, Consume, BeginClose
<1>19. CASE ReadEnd
  BY <1>19, <1>1, <1>2, <1>3, <1>4, <1>5 DEF ReadEnd, RoomTypes, At, Consume, BeginClose
<1>20. CASE WriteCell
  BY <1>20, <1>1, <1>2, <1>3, <1>4, <1>5 DEF WriteCell, RoomTypes, At, Consume, BeginClose
<1>21. CASE WriteFails
  BY <1>21, <1>1, <1>2, <1>3, <1>4, <1>5 DEF WriteFails, RoomTypes, At, Consume, BeginClose
<1>22. CASE Finish
  BY <1>22, <1>1, <1>2, <1>3, <1>4, <1>5 DEF Finish, RoomTypes, At, Consume, BeginClose
<1>23. CASE Drain
  BY <1>23, <1>1, <1>2, <1>3, <1>4, <1>5 DEF Drain, RoomTypes, At, Consume, BeginClose
<1>24. CASE ServerClose \/ WriteDone \/ Close \/ AppRead \/ AppPut \/ AppFlush
  BY <1>24, ScriptIsConstant DEF ServerClose, WriteDone, Close, AppRead, AppPut, AppFlush,
     RoomTypes, At, Consume, BeginClose
<1>25. CASE AppFinish
  BY <1>25, ScriptIsConstant DEF AppFinish, RoomTypes, At, Consume, BeginClose
<1>26. CASE UNCHANGED vars
  BY <1>26 DEF vars, RoomTypes, At, Consume, BeginClose
<1> QED BY <1>6, <1>7, <1>8, <1>9, <1>10, <1>11, <1>12, <1>13, <1>14, <1>15, <1>16, <1>17, <1>18,
     <1>19, <1>20, <1>21, <1>22, <1>23, <1>24, <1>25, <1>26 DEF Next, Server, Library, App, Over

LEMMA ControlTypesStep ==
    ASSUME Streams, ControlTypes, [Next]_vars
    PROVE  ControlTypes'
<1> USE DEF server, reader, writer
<1>1. CASE OSReadFails
  BY <1>1 DEF OSReadFails, ControlTypes, BeginClose, Write, At
<1>2. CASE AnswerManagement
  BY <1>2 DEF AnswerManagement, ControlTypes, BeginClose, Write, At
<1>3. CASE AcceptBegin
  BY <1>3 DEF AcceptBegin, ControlTypes, BeginClose, Write, At
<1>4. CASE AcceptSkips
  BY <1>4 DEF AcceptSkips, ControlTypes, BeginClose, Write, At
<1>5. CASE SkipContent
  BY <1>5 DEF SkipContent, ControlTypes, BeginClose, Write, At
<1>6. CASE AcceptRefuses
  BY <1>6 DEF AcceptRefuses, ControlTypes, BeginClose, Write, At
<1>7. CASE ReadEnvironment
  BY <1>7 DEF ReadEnvironment, ControlTypes, BeginClose, Write, At
<1>8. CASE ReadHeader
  BY <1>8 DEF ReadHeader, ControlTypes, BeginClose, Write, At
<1>9. CASE ReadContent
  BY <1>9 DEF ReadContent, ControlTypes, BeginClose, Write, At
<1>10. CASE ReadRefuses
  BY <1>10 DEF ReadRefuses, ControlTypes, BeginClose, Write, At
<1>11. CASE ReadEnd
  BY <1>11 DEF ReadEnd, ControlTypes, BeginClose, Write, At
<1>12. CASE WriteFails
  BY <1>12 DEF WriteFails, ControlTypes, BeginClose, Write, At
<1>13. CASE WriteDone
  BY <1>13 DEF WriteDone, ControlTypes, BeginClose, Write, At
<1>14. CASE Finish
  BY <1>14 DEF Finish, ControlTypes, BeginClose, Write, At
<1>15. CASE Close
  BY <1>15 DEF Close, ControlTypes, BeginClose, Write, At
<1>16. CASE AppRead
  BY <1>16 DEF AppRead, ControlTypes, BeginClose, Write, At
<1>17. CASE AppFlush
  BY <1>17 DEF AppFlush, ControlTypes, BeginClose, Write, At
<1>18. CASE AppFinish
  BY <1>18 DEF AppFinish, ControlTypes, BeginClose, Write, At
<1>19. CASE ServerSend \/ ServerReceive \/ ServerClose \/ OSRead \/ WriteCell \/ Drain
  BY <1>19, ScriptIsConstant DEF ServerSend, ServerReceive, ServerClose, OSRead, WriteCell,
     Drain, ControlTypes, BeginClose, Write, At
<1>20. CASE AppPut
  BY <1>20, ScriptIsConstant DEF AppPut, ControlTypes, BeginClose, Write, At
<1>21. CASE UNCHANGED vars
  BY <1>21 DEF vars, ControlTypes, BeginClose, Write, At
<1> QED BY <1>1, <1>2, <1>3, <1>4, <1>5, <1>6, <1>7, <1>8, <1>9, <1>10, <1>11, <1>12, <1>13,
     <1>14, <1>15, <1>16, <1>17, <1>18, <1>19, <1>20, <1>21 DEF Next, Server, Library, App, Over

LEMMA WriterTypesStep ==
    ASSUME Streams, WriterTypes, Phases, [Next]_vars
    PROVE  WriterTypes'
<1> USE DEF server, reader, writer
<1>1. setting.requests \in 0..MaxRequests /\ setting.puts \in Nat /\ setting' = setting /\ script' = script /\ keep' = keep
  BY SettingFacts, ScriptIsConstant
<1>2. CASE OSReadFails
  BY <1>1, <1>2 DEF OSReadFails, WriterTypes, Phases, Serving, At
<1>3. CASE AcceptBegin
  BY <1>1, <1>3 DEF AcceptBegin, WriterTypes, Phases, Serving, At
<1>4. CASE ReadEnvironment
  BY <1>1, <1>4 DEF ReadEnvironment, WriterTypes, Phases, Serving, At
<1>5. CASE AppPut
  BY <1>1, <1>5 DEF AppPut, WriterTypes, Phases, Serving, At
<1>6. CASE AppFlush
  BY <1>1, <1>6 DEF AppFlush, WriterTypes, Phases, Serving, At
<1>7. CASE AppFinish
  <2>1. held' = 0 /\ puts' = puts
    BY <1>7 DEF AppFinish
  <2> QED BY <1>1, <2>1 DEF WriterTypes
<1>8. CASE ServerSend \/ ServerReceive \/ ServerClose \/ OSRead \/ AnswerManagement \/ AcceptSkips
  BY <1>8, ScriptIsConstant DEF ServerSend, ServerReceive, ServerClose, OSRead, AnswerManagement,
     AcceptSkips, WriterTypes, BeginClose, Write, At
<1>9. CASE SkipContent \/ AcceptRefuses \/ ReadHeader \/ ReadContent \/ ReadRefuses \/ ReadEnd
  BY <1>9, ScriptIsConstant DEF SkipContent, AcceptRefuses, ReadHeader, ReadContent, ReadRefuses,
     ReadEnd, WriterTypes, BeginClose, Write, At
<1>10. CASE WriteCell \/ WriteFails \/ WriteDone \/ Finish \/ Drain \/ Close
  BY <1>10, ScriptIsConstant DEF WriteCell, WriteFails, WriteDone, Finish, Drain, Close,
     WriterTypes, BeginClose, Write, At
<1>11. CASE AppRead
  BY <1>11, ScriptIsConstant DEF AppRead, WriterTypes, BeginClose, Write, At
<1>12. CASE UNCHANGED vars
  BY <1>12 DEF vars, WriterTypes, BeginClose, Write, At
<1> QED BY <1>2, <1>3, <1>4, <1>5, <1>6, <1>7, <1>8, <1>9, <1>10, <1>11, <1>12 DEF Next, Server,
     Library, App, Over

LEMMA FlagTypesStep ==
    ASSUME Streams, FlagTypes, [Next]_vars
    PROVE  FlagTypes'
<1> USE DEF server, reader, writer
<1>1. CASE ServerSend
  BY <1>1 DEF ServerSend, FlagTypes, BeginClose
<1>2. CASE ServerClose
  BY <1>2 DEF ServerClose, FlagTypes, BeginClose
<1>3. CASE OSReadFails
  BY <1>3 DEF OSReadFails, FlagTypes, BeginClose
<1>4. CASE AnswerManagement
  BY <1>4 DEF AnswerManagement, FlagTypes, BeginClose
<1>5. CASE AcceptBegin
  BY <1>5 DEF AcceptBegin, FlagTypes, BeginClose
<1>6. CASE AcceptSkips
  BY <1>6 DEF AcceptSkips, FlagTypes, BeginClose
<1>7. CASE SkipContent
  BY <1>7 DEF SkipContent, FlagTypes, BeginClose
<1>8. CASE AcceptRefuses
  BY <1>8 DEF AcceptRefuses, FlagTypes, BeginClose
<1>9. CASE ReadEnvironment
  BY <1>9 DEF ReadEnvironment, FlagTypes, BeginClose
<1>10. CASE ReadRefuses
  BY <1>10 DEF ReadRefuses, FlagTypes, BeginClose
<1>11. CASE ReadEnd
  BY <1>11 DEF ReadEnd, FlagTypes, BeginClose
<1>12. CASE WriteFails
  BY <1>12 DEF WriteFails, FlagTypes, BeginClose
<1>13. CASE Finish
  BY <1>13 DEF Finish, FlagTypes, BeginClose
<1>14. CASE AppFinish
  BY <1>14 DEF AppFinish, FlagTypes, BeginClose
<1>15. CASE ServerReceive \/ OSRead \/ ReadHeader \/ ReadContent \/ WriteCell \/ WriteDone
  BY <1>15, ScriptIsConstant DEF ServerReceive, OSRead, ReadHeader, ReadContent, WriteCell,
     WriteDone, FlagTypes, BeginClose
<1>16. CASE Drain \/ Close \/ AppRead \/ AppPut \/ AppFlush
  BY <1>16, ScriptIsConstant DEF Drain, Close, AppRead, AppPut, AppFlush, FlagTypes, BeginClose
<1>17. CASE UNCHANGED vars
  BY <1>17 DEF vars, FlagTypes, BeginClose
<1> QED BY <1>1, <1>2, <1>3, <1>4, <1>5, <1>6, <1>7, <1>8, <1>9, <1>10, <1>11, <1>12, <1>13,
     <1>14, <1>15, <1>16, <1>17 DEF Next, Server, Library, App, Over

\* What is written for a request.
LEMMA ContentFacts ==
    ASSUME Streams, TypeOK, Phases, Serving
    PROVE  /\ r \in Requests /\ held \in Nat
           /\ Content \in Seq(OutCells) /\ Len(Content) = held
           /\ \A i \in 1..held : Content[i] = <<"out", r>>
<1>1. r \in 1..MaxRequests /\ held \in Nat
  <2>1. PlaceTypes /\ WriterTypes /\ r >= 1 /\ setting.puts \in Nat
    BY TypeParts, SettingFacts DEF Phases
  <2> QED BY <2>1, SettingFacts DEF PlaceTypes, WriterTypes
<1>2. <<"out", r>> \in OutCells
  BY <1>1 DEF OutCells, OutKinds, Requests
<1>3. Content = [i \in 1..held |-> <<"out", r>>]
  BY DEF Content
<1> QED BY <1>1, <1>2, <1>3 DEF Requests

LEMMA WrittenTypes ==
    ASSUME Streams, TypeOK, Phases
    PROVE  /\ Serving => Content \in Seq(OutCells)
           /\ Serving => Content \o <<<<"end out", r>>, <<"END", r>>>> \in Seq(OutCells)
           /\ unread # <<>> => <<<<"ANSWER", Head(unread)[2]>>>> \in Seq(OutCells)
<1>1. Serving => Content \in Seq(OutCells)
  BY ContentFacts
<1>2. Serving => Content \o <<<<"end out", r>>, <<"END", r>>>> \in Seq(OutCells)
  <2> SUFFICES ASSUME Serving PROVE Content \o <<<<"end out", r>>, <<"END", r>>>> \in Seq(OutCells)
    OBVIOUS
  <2>1. r \in Requests
    BY ContentFacts
  <2>2. <<"end out", r>> \in OutCells /\ <<"END", r>> \in OutCells
    BY <2>1 DEF OutCells, OutKinds
  <2>3. <<<<"end out", r>>, <<"END", r>>>> \in Seq(OutCells)
    <3>1. \A c, d \in OutCells : <<c, d>> \in Seq(OutCells)
      OBVIOUS
    <3> QED BY <2>2, <3>1, Zenon
  <2> QED BY <1>1, <2>3, ConcatProperties
<1>3. unread # <<>> => <<<<"ANSWER", Head(unread)[2]>>>> \in Seq(OutCells)
  <2> SUFFICES ASSUME unread # <<>> PROVE <<<<"ANSWER", Head(unread)[2]>>>> \in Seq(OutCells)
    OBVIOUS
  <2>1. Head(unread) \in InCells
    BY DEF Streams
  <2>2. Head(unread)[2] \in Requests
    BY <2>1 DEF InCells
  <2>3. <<"ANSWER", Head(unread)[2]>> \in OutCells
    BY <2>2 DEF OutCells, OutKinds
  <2> QED BY <2>3
<1> QED BY <1>1, <1>2, <1>3

InStreams == toApp \in Seq(InCells) /\ unread \in Seq(InCells)
OutStreams == toServer \in Seq(OutCells) /\ seen \in Seq(OutCells) /\ pending \in Seq(OutCells)

LEMMA InStreamsStep ==
    ASSUME Streams, TypeOK, [Next]_vars
    PROVE  InStreams'
<1> USE DEF server, reader, writer
<1>1. InStreams /\ <<>> \in Seq(InCells)
  BY DEF Streams, InStreams
<1>2. /\ unread # <<>> => Tail(unread) \in Seq(InCells)
      /\ \A c \in InCells : Append(toApp, c) \in Seq(InCells)
  BY DEF Streams
<1>3. CASE ServerSend
  <2>1. script \in Seq(InCells) /\ pos \in 0..Len(script) /\ pos < Len(script)
    BY <1>3, SettingFacts DEF ServerSend, TypeOK
  <2>2. script[pos + 1] \in InCells
    BY <2>1
  <2> QED BY <1>3, <1>1, <1>2, <2>2 DEF ServerSend, InStreams
<1>4. CASE OSRead
  <2>1. PICK n \in 1..BufLen : /\ n <= Len(toApp) /\ unread' = SubSeq(toApp, 1, n)
                              /\ toApp' = SubSeq(toApp, n + 1, Len(toApp))
    BY <1>4 DEF OSRead
  <2> QED BY <2>1, ReaderMoves DEF InStreams
<1>5. CASE OSReadFails
  BY <1>5, <1>1, <1>2 DEF OSReadFails, InStreams, Consume, At, BeginClose
<1>6. CASE AnswerManagement
  BY <1>6, <1>1, <1>2 DEF AnswerManagement, InStreams, Consume, At, BeginClose
<1>7. CASE AcceptBegin
  BY <1>7, <1>1, <1>2 DEF AcceptBegin, InStreams, Consume, At, BeginClose
<1>8. CASE AcceptSkips
  BY <1>8, <1>1, <1>2 DEF AcceptSkips, InStreams, Consume, At, BeginClose
<1>9. CASE SkipContent
  BY <1>9, <1>1, <1>2 DEF SkipContent, InStreams, Consume, At, BeginClose
<1>10. CASE AcceptRefuses
  BY <1>10, <1>1, <1>2 DEF AcceptRefuses, InStreams, Consume, At, BeginClose
<1>11. CASE ReadEnvironment
  BY <1>11, <1>1, <1>2 DEF ReadEnvironment, InStreams, Consume, At, BeginClose
<1>12. CASE ReadHeader
  BY <1>12, <1>1, <1>2 DEF ReadHeader, InStreams, Consume, At, BeginClose
<1>13. CASE ReadContent
  BY <1>13, <1>1, <1>2 DEF ReadContent, InStreams, Consume, At, BeginClose
<1>14. CASE ReadRefuses
  BY <1>14, <1>1, <1>2 DEF ReadRefuses, InStreams, Consume, At, BeginClose
<1>15. CASE ReadEnd
  BY <1>15, <1>1, <1>2 DEF ReadEnd, InStreams, Consume, At, BeginClose
<1>16. CASE WriteFails
  BY <1>16, <1>1, <1>2 DEF WriteFails, InStreams, Consume, At, BeginClose
<1>17. CASE Finish
  BY <1>17, <1>1, <1>2 DEF Finish, InStreams, Consume, At, BeginClose
<1>18. CASE Drain
  BY <1>18, <1>1, <1>2 DEF Drain, InStreams, Consume, At, BeginClose
<1>19. CASE ServerReceive \/ ServerClose \/ WriteCell \/ WriteDone \/ Close \/ AppRead
  BY <1>19, <1>1, ScriptIsConstant DEF ServerReceive, ServerClose, WriteCell, WriteDone, Close,
     AppRead, InStreams
<1>20. CASE AppPut \/ AppFlush \/ AppFinish
  BY <1>20, <1>1, ScriptIsConstant DEF AppPut, AppFlush, AppFinish, InStreams
<1>21. CASE UNCHANGED vars
  BY <1>21, <1>1, ScriptIsConstant DEF vars, InStreams
<1> QED BY <1>3, <1>4, <1>5, <1>6, <1>7, <1>8, <1>9, <1>10, <1>11, <1>12, <1>13, <1>14, <1>15,
     <1>16, <1>17, <1>18, <1>19, <1>20, <1>21 DEF Next, Server, Library, App, Over

LEMMA OutStreamsStep ==
    ASSUME Streams, TypeOK, Phases, [Next]_vars
    PROVE  OutStreams'
<1> USE DEF server, reader, writer
<1>1. OutStreams /\ <<>> \in Seq(OutCells)
  BY DEF Streams, OutStreams
<1>2. CASE ServerSend
  BY <1>2, <1>1 DEF ServerSend, OutStreams
<1>3. CASE ServerReceive
  <2>1. Append(seen, Head(toServer)) \in Seq(OutCells) /\ Tail(toServer) \in Seq(OutCells)
    BY <1>3, <1>1 DEF ServerReceive, OutStreams
  <2> QED BY <1>3, <1>1, <2>1 DEF ServerReceive, OutStreams
<1>4. CASE AnswerManagement
  <2>1. unread # <<>> /\ pending' = <<<<"ANSWER", Head(unread)[2]>>>> /\ UNCHANGED <<toServer,
     seen>>
    BY <1>4 DEF AnswerManagement, At, Write
  <2> QED BY <1>1, <2>1, WrittenTypes DEF OutStreams
<1>5. CASE WriteCell
  <2>1. Append(toServer, Head(pending)) \in Seq(OutCells) /\ Tail(pending) \in Seq(OutCells)
    BY <1>5, <1>1 DEF WriteCell, OutStreams
  <2> QED BY <1>5, <1>1, <2>1 DEF WriteCell, OutStreams
<1>6. CASE WriteFails
  BY <1>6, <1>1 DEF WriteFails, OutStreams
<1>7. CASE AppFlush
  <2>1. Serving /\ pending' = Content /\ UNCHANGED <<toServer, seen>>
    BY <1>7 DEF AppFlush, Write, Serving
  <2> QED BY <1>1, <2>1, WrittenTypes DEF OutStreams
<1>8. CASE AppFinish
  <2>1. /\ Serving /\ pending' = Content \o <<<<"end out", r>>, <<"END", r>>>>
        /\ UNCHANGED <<toServer, seen>>
    BY <1>8 DEF AppFinish, Write, Serving
  <2> QED BY <1>1, <2>1, WrittenTypes DEF OutStreams
<1>9. CASE ServerClose \/ OSRead \/ OSReadFails \/ AcceptBegin \/ AcceptSkips \/ SkipContent
  BY <1>9, <1>1, ScriptIsConstant DEF ServerClose, OSRead, OSReadFails, AcceptBegin, AcceptSkips,
     SkipContent, OutStreams
<1>10. CASE AcceptRefuses \/ ReadEnvironment \/ ReadHeader \/ ReadContent \/ ReadRefuses \/ ReadEnd
  BY <1>10, <1>1, ScriptIsConstant DEF AcceptRefuses, ReadEnvironment, ReadHeader, ReadContent,
     ReadRefuses, ReadEnd, OutStreams
<1>11. CASE WriteDone \/ Finish \/ Drain \/ Close \/ AppRead \/ AppPut
  BY <1>11, <1>1, ScriptIsConstant DEF WriteDone, Finish, Drain, Close, AppRead, AppPut, OutStreams
<1>12. CASE UNCHANGED vars
  BY <1>12, <1>1, ScriptIsConstant DEF vars, OutStreams
<1> QED BY <1>2, <1>3, <1>4, <1>5, <1>6, <1>7, <1>8, <1>9, <1>10, <1>11, <1>12 DEF Next, Server,
     Library, App, Over

LEMMA StreamsStep ==
    ASSUME Streams, TypeOK, Phases, [Next]_vars
    PROVE  Streams'
BY InStreamsStep, OutStreamsStep, ScriptIsConstant DEF Streams, InStreams, OutStreams

LEMMA PhasesStep ==
    ASSUME TypeOK, Streams, Phases, [Next]_vars
    PROVE  Phases'
<1> USE DEF server, reader, writer
<1>1. ControlTypes /\ Phases
  BY TypeParts
<1>2. unread # <<>> => Head(unread)[2] >= 1
  <2> SUFFICES ASSUME unread # <<>> PROVE Head(unread)[2] >= 1
    OBVIOUS
  <2>1. Head(unread) \in InCells
    BY DEF Streams
  <2> QED BY <2>1, SettingFacts DEF InCells, Requests
<1>3. CASE ServerSend
  BY <1>3, <1>1, <1>2 DEF ServerSend, Phases, Serving, Closing, At, Reading, BeginClose, Write,
     Consume, ControlTypes
<1>4. CASE OSRead
  BY <1>4, <1>1, <1>2 DEF OSRead, Phases, Serving, Closing, At, Reading, BeginClose, Write,
     Consume, ControlTypes
<1>5. CASE OSReadFails
  BY <1>5, <1>1, <1>2 DEF OSReadFails, Phases, Serving, Closing, At, Reading, BeginClose, Write,
     Consume, ControlTypes
<1>6. CASE AnswerManagement
  BY <1>6, <1>1, <1>2 DEF AnswerManagement, Phases, Serving, Closing, At, Reading, BeginClose,
     Write, Consume, ControlTypes
<1>7. CASE AcceptBegin
  BY <1>7, <1>1, <1>2 DEF AcceptBegin, Phases, Serving, Closing, At, Reading, BeginClose, Write,
     Consume, ControlTypes
<1>8. CASE AcceptSkips
  BY <1>8, <1>1, <1>2 DEF AcceptSkips, Phases, Serving, Closing, At, Reading, BeginClose, Write,
     Consume, ControlTypes
<1>9. CASE SkipContent
  BY <1>9, <1>1, <1>2 DEF SkipContent, Phases, Serving, Closing, At, Reading, BeginClose, Write,
     Consume, ControlTypes
<1>10. CASE AcceptRefuses
  BY <1>10, <1>1, <1>2 DEF AcceptRefuses, Phases, Serving, Closing, At, Reading, BeginClose,
     Write, Consume, ControlTypes
<1>11. CASE ReadEnvironment
  BY <1>11, <1>1, <1>2 DEF ReadEnvironment, Phases, Serving, Closing, At, Reading, BeginClose,
     Write, Consume, ControlTypes
<1>12. CASE ReadHeader
  BY <1>12, <1>1, <1>2 DEF ReadHeader, Phases, Serving, Closing, At, Reading, BeginClose, Write,
     Consume, ControlTypes
<1>13. CASE ReadContent
  BY <1>13, <1>1, <1>2 DEF ReadContent, Phases, Serving, Closing, At, Reading, BeginClose, Write,
     Consume, ControlTypes
<1>14. CASE ReadRefuses
  BY <1>14, <1>1, <1>2 DEF ReadRefuses, Phases, Serving, Closing, At, Reading, BeginClose, Write,
     Consume, ControlTypes
<1>15. CASE ReadEnd
  BY <1>15, <1>1, <1>2 DEF ReadEnd, Phases, Serving, Closing, At, Reading, BeginClose, Write,
     Consume, ControlTypes
<1>16. CASE WriteCell
  BY <1>16, <1>1, <1>2 DEF WriteCell, Phases, Serving, Closing, At, Reading, BeginClose, Write,
     Consume, ControlTypes
<1>17. CASE WriteFails
  BY <1>17, <1>1, <1>2 DEF WriteFails, Phases, Serving, Closing, At, Reading, BeginClose, Write,
     Consume, ControlTypes
<1>18. CASE WriteDone
  BY <1>18, <1>1, <1>2 DEF WriteDone, Phases, Serving, Closing, At, Reading, BeginClose, Write,
     Consume, ControlTypes
<1>19. CASE Finish
  BY <1>19, <1>1, <1>2 DEF Finish, Phases, Serving, Closing, At, Reading, BeginClose, Write,
     Consume, ControlTypes
<1>20. CASE Drain
  BY <1>20, <1>1, <1>2 DEF Drain, Phases, Serving, Closing, At, Reading, BeginClose, Write,
     Consume, ControlTypes
<1>21. CASE Close
  BY <1>21, <1>1, <1>2 DEF Close, Phases, Serving, Closing, At, Reading, BeginClose, Write,
     Consume, ControlTypes
<1>22. CASE AppRead
  BY <1>22, <1>1, <1>2 DEF AppRead, Phases, Serving, Closing, At, Reading, BeginClose, Write,
     Consume, ControlTypes
<1>23. CASE AppPut
  BY <1>23, <1>1, <1>2 DEF AppPut, Phases, Serving, Closing, At, Reading, BeginClose, Write,
     Consume, ControlTypes
<1>24. CASE AppFlush
  BY <1>24, <1>1, <1>2 DEF AppFlush, Phases, Serving, Closing, At, Reading, BeginClose, Write,
     Consume, ControlTypes
<1>25. CASE AppFinish
  BY <1>25, <1>1, <1>2 DEF AppFinish, Phases, Serving, Closing, At, Reading, BeginClose, Write,
     Consume, ControlTypes
<1>26. CASE ServerReceive \/ ServerClose
  BY <1>26, <1>1, ScriptIsConstant DEF ServerReceive, ServerClose, Phases, Serving, Closing, At,
     Reading, BeginClose, Write, Consume, ControlTypes
<1>27. CASE UNCHANGED vars
  BY <1>27, <1>1, ScriptIsConstant DEF vars, Phases, Serving, Closing, At, Reading, BeginClose,
     Write, Consume, ControlTypes
<1> QED BY <1>3, <1>4, <1>5, <1>6, <1>7, <1>8, <1>9, <1>10, <1>11, <1>12, <1>13, <1>14, <1>15,
     <1>16, <1>17, <1>18, <1>19, <1>20, <1>21, <1>22, <1>23, <1>24, <1>25, <1>26, <1>27 DEF Next,
     Server, Library, App, Over

-----------------------------------------------------------------------------
(* Where the library is in the script.                                     *)

Places ==
    /\ Base \in 0..pos
    /\ \A i \in 1..Len(unread) : unread[i] = script[Base + i]
    /\ \A i \in 1..Len(toApp) : toApp[i] = script[Base + Len(unread) + i]

LEMMA PlacesFacts ==
    ASSUME Streams, TypeOK, Places
    PROVE  /\ Len(script) \in Nat /\ pos \in 0..Len(script) /\ Base \in 0..pos /\ Base \in Nat
           /\ Len(unread) \in Nat /\ Len(toApp) \in Nat /\ pos = Base + Len(unread) + Len(toApp)
           /\ unread # <<>> => /\ Head(unread) = script[Base + 1] /\ Head(unread) = unread[1]
                               /\ Base + 1 \in 1..pos /\ Base + 1 \in 1..Len(script)
<1>1. Len(unread) \in Nat /\ Len(toApp) \in Nat /\ Len(script) \in Nat
  BY ReaderMoves, SettingFacts, LenProperties
<1>2. pos \in 0..Len(script) /\ Base \in 0..pos
  BY DEF TypeOK, Places
<1>3. pos = Base + Len(unread) + Len(toApp)
  BY <1>1, <1>2 DEF Base
<1>4. unread # <<>> => Len(unread) >= 1 /\ Head(unread) = unread[1]
  BY ReaderMoves
<1> HIDE DEF Base
<1>5. unread # <<>> => unread[1] = script[Base + 1] /\ Base + 1 \in 1..pos
  BY <1>1, <1>2, <1>3, <1>4 DEF Places
<1> QED BY <1>1, <1>2, <1>3, <1>4, <1>5

\* A step further in the buffer.
LEMMA ConsumeMoves ==
    ASSUME Streams, TypeOK, Places, unread # <<>>, Consume,
           UNCHANGED <<toApp, pos, script>>
    PROVE  Places' /\ Base' = Base + 1
<1>1. Len(unread') = Len(unread) - 1 /\ Len(unread) \in Nat /\ Len(toApp) \in Nat /\ Len(unread) >= 1
      /\ \A i \in 1..Len(unread) - 1 : unread'[i] = unread[i + 1]
  BY ReaderMoves DEF Consume
<1>2. pos \in Nat /\ Base \in 0..pos /\ pos = Base + Len(unread) + Len(toApp)
  BY PlacesFacts
<1>3. Base' = Base + 1
  BY <1>1, <1>2 DEF Base
<1> HIDE DEF Base
<1>4. Base' \in 0..pos'
  BY <1>1, <1>2, <1>3
<1>5. \A i \in 1..Len(unread') : unread'[i] = script'[Base' + i]
  <2> SUFFICES ASSUME NEW i \in 1..Len(unread') PROVE unread'[i] = script'[Base' + i]
    OBVIOUS
  <2>1. i \in 1..Len(unread) - 1 /\ i + 1 \in 1..Len(unread) /\ Base' + i = Base + (i + 1)
    BY <1>1, <1>2, <1>3
  <2>2. unread[i + 1] = script[Base + (i + 1)]
    BY <2>1 DEF Places
  <2> QED BY <1>1, <2>1, <2>2
<1>6. \A i \in 1..Len(toApp') : toApp'[i] = script'[Base' + Len(unread') + i]
  <2>1. Base' + Len(unread') = Base + Len(unread)
    BY <1>1, <1>2, <1>3
  <2> QED BY <2>1 DEF Places
<1> QED BY <1>3, <1>4, <1>5, <1>6 DEF Places

\* The buffer is dropped.
LEMMA DropMoves ==
    ASSUME Streams, TypeOK, Places, unread' = <<>>, UNCHANGED <<toApp, pos, script>>
    PROVE  Places' /\ Base' = Base + Len(unread)
<1>1. Len(unread') = 0 /\ Len(unread) \in Nat /\ Len(toApp) \in Nat
  BY ReaderMoves
<1>2. pos \in Nat /\ Base \in 0..pos /\ pos = Base + Len(unread) + Len(toApp)
  BY PlacesFacts
<1>3. Base' = Base + Len(unread)
  BY <1>1, <1>2 DEF Base
<1> HIDE DEF Base
<1>4. Base' \in 0..pos'
  BY <1>1, <1>2, <1>3
<1>5. \A i \in 1..Len(toApp') : toApp'[i] = script'[Base' + Len(unread') + i]
  <2>1. Base' + Len(unread') = Base + Len(unread)
    BY <1>1, <1>2, <1>3
  <2> QED BY <2>1 DEF Places
<1> QED BY <1>1, <1>3, <1>4, <1>5 DEF Places

\* The buffer is filled.
LEMMA ReadMoves ==
    ASSUME Streams, TypeOK, Places, OSRead
    PROVE  Places' /\ Base' = Base
<1>1. PICK n \in 1..BufLen : /\ n <= Len(toApp) /\ unread' = SubSeq(toApp, 1, n)
                            /\ toApp' = SubSeq(toApp, n + 1, Len(toApp))
  BY DEF OSRead
<1>2. unread = <<>> /\ UNCHANGED <<pos, script>>
  BY DEF OSRead, Reading, server
<1>3. /\ Len(unread') = n /\ Len(toApp') = Len(toApp) - n /\ n \in Nat
      /\ \A i \in 1..n : unread'[i] = toApp[i]
      /\ \A i \in 1..Len(toApp) - n : toApp'[i] = toApp[n + i]
  BY <1>1, ReaderMoves, SettingFacts, SMTT(40)
<1>4. Len(unread) = 0 /\ Len(toApp) \in Nat /\ pos \in Nat /\ Base \in 0..pos
      /\ pos = Base + Len(unread) + Len(toApp)
  BY <1>2, PlacesFacts
<1>5. Base' = Base
  BY <1>2, <1>3, <1>4 DEF Base
<1> HIDE DEF Base
<1>6. \A i \in 1..Len(toApp) : toApp[i] = script[Base + i]
  BY <1>4 DEF Places
<1>7. \A i \in 1..Len(unread') : unread'[i] = script'[Base' + i]
  <2>1. \A i \in 1..Len(unread') : i \in 1..n /\ i \in 1..Len(toApp)
    BY <1>1, <1>3, <1>4
  <2> QED BY <1>2, <1>3, <1>5, <1>6, <2>1
<1>8. \A i \in 1..Len(toApp') : toApp'[i] = script'[Base' + Len(unread') + i]
  <2> SUFFICES ASSUME NEW i \in 1..Len(toApp') PROVE toApp'[i] = script'[Base' + Len(unread') + i]
    OBVIOUS
  <2>0. i \in 1..Len(toApp) - n
    BY <1>3
  <2>1. n + i \in 1..Len(toApp) /\ Base + n + i = Base + (n + i)
    BY <2>0, <1>1, <1>3, <1>4
  <2>3. Base' + Len(unread') + i = Base + n + i
    BY <1>3, <1>5
  <2>2. toApp[n + i] = script[Base + (n + i)]
    BY <2>1, <1>6
  <2> QED BY <1>2, <1>3, <2>0, <2>1, <2>2, <2>3
<1> QED BY <1>2, <1>4, <1>5, <1>7, <1>8 DEF Places

\* The server sends, to a library that is there or has closed.
LEMMA SendMoves ==
    ASSUME Streams, TypeOK, Phases, Places, ServerSend
    PROVE  /\ Places'
           /\ pc = "closed" => Base' = Base + 1 /\ Base = pos
           /\ pc # "closed" => Base' = Base
<1> USE DEF server, reader
<1>1. /\ Len(toApp) \in Nat /\ Len(unread) \in Nat /\ pos \in Nat /\ Base \in 0..pos
      /\ pos = Base + Len(unread) + Len(toApp) /\ toApp \in Seq(InCells)
  BY PlacesFacts DEF Streams
<1>2. UNCHANGED <<unread, script>> /\ pos' = pos + 1
  BY DEF ServerSend
<1>3. CASE pc = "closed"
  <2>1. toApp = <<>> /\ unread = <<>> /\ toApp' = toApp
    BY <1>3 DEF ServerSend, Phases, Closing
  <2>2. Len(unread) = 0 /\ Len(toApp) = 0
    BY <2>1
  <2>3. Base' = Base + 1 /\ Base = pos
    BY <1>1, <1>2, <2>1, <2>2 DEF Base
  <2> QED BY <1>1, <1>2, <1>3, <2>1, <2>2, <2>3 DEF Places
<1>4. CASE pc # "closed"
  <2>1. toApp' = Append(toApp, script[pos + 1])
    BY <1>4 DEF ServerSend
  <2>2. /\ Len(toApp') = Len(toApp) + 1
        /\ \A i \in 1..Len(toApp') : toApp'[i] = IF i = Len(toApp) + 1 THEN script[pos + 1] ELSE toApp[i]
    BY <1>1, <2>1
  <2>3. Base' = Base
    BY <1>1, <1>2, <2>2 DEF Base
  <2> HIDE DEF Base
  <2>4. \A i \in 1..Len(toApp') : toApp'[i] = script'[Base' + Len(unread') + i]
    <3> SUFFICES ASSUME NEW i \in 1..Len(toApp') PROVE toApp'[i] = script'[Base' + Len(unread') + i]
      OBVIOUS
    <3>1. CASE i = Len(toApp) + 1
      <4>1. Base' + Len(unread') + i = pos + 1
        BY <1>1, <1>2, <2>3, <3>1
      <4> QED BY <1>2, <2>2, <3>1, <4>1
    <3>2. CASE i # Len(toApp) + 1
      <4>1. i \in 1..Len(toApp)
        BY <1>1, <2>2, <3>2
      <4> QED BY <1>2, <2>2, <2>3, <3>2, <4>1 DEF Places
    <3> QED BY <3>1, <3>2
  <2>5. Base' \in 0..pos'
    BY <1>1, <1>2, <2>3
  <2>6. \A i \in 1..Len(unread') : unread'[i] = script'[Base' + i]
    BY <1>2, <2>3 DEF Places
  <2> QED BY <1>4, <2>3, <2>4, <2>5, <2>6 DEF Places
<1> QED BY <1>3, <1>4

\* The buffer is empty and what is under way is dropped.
LEMMA DrainMoves ==
    ASSUME Streams, TypeOK, Phases, Places, Drain
    PROVE  Places' /\ Base' = pos
<1>1. /\ toApp' = <<>> /\ unread = <<>> /\ UNCHANGED <<unread, pos, script>>
  BY DEF Drain, Phases, Closing, server, reader
<1>2. Len(toApp') = 0 /\ Len(unread) = 0 /\ pos \in Nat
  BY <1>1, PlacesFacts
<1>3. Base' = pos
  BY <1>1, <1>2 DEF Base
<1> QED BY <1>1, <1>2, <1>3 DEF Places

\* How far each step goes in the script.
Consumes == \/ AnswerManagement \/ AcceptBegin \/ AcceptSkips \/ SkipContent \/ ReadEnvironment
            \/ ReadHeader \/ ReadContent \/ ReadRefuses \/ ReadEnd
Pauses == \/ ServerReceive \/ ServerClose \/ WriteCell \/ WriteDone \/ Close \/ App
          \/ UNCHANGED vars
Drops == unread' = <<>> /\ UNCHANGED <<toApp, pos>> /\ Base' = Base + Len(unread)
Stays == UNCHANGED <<unread, toApp, pos>> /\ Base' = Base

LEMMA PlacesStep ==
    ASSUME Streams, TypeOK, Phases, Places, [Next]_vars
    PROVE  /\ Places'
           /\ Consumes => /\ unread # <<>> /\ Consume /\ Base' = Base + 1
                          /\ UNCHANGED <<toApp, pos>>
           /\ AcceptRefuses \/ Finish => Drops
           /\ OSReadFails \/ WriteFails => Drops \/ Stays
           /\ Pauses => Stays
<1> USE DEF server, reader, writer
<1>0. script' = script
  BY ScriptIsConstant
<1>1. ASSUME Consumes
      PROVE  /\ unread # <<>> /\ Consume /\ Base' = Base + 1
             /\ UNCHANGED <<toApp, pos>> /\ Places'
  <2>1. unread # <<>> /\ Consume /\ UNCHANGED <<toApp, pos, script>>
    <3>1. CASE AnswerManagement \/ AcceptBegin \/ AcceptSkips \/ SkipContent
      BY <3>1 DEF AnswerManagement, AcceptBegin, AcceptSkips, SkipContent, At
    <3>2. CASE ReadEnvironment \/ ReadHeader \/ ReadContent \/ ReadRefuses \/ ReadEnd
      BY <3>2 DEF ReadEnvironment, ReadHeader, ReadContent, ReadRefuses, ReadEnd, At
    <3> QED BY <1>1, <3>1, <3>2 DEF Consumes
  <2> QED BY <2>1, ConsumeMoves
<1>2. ASSUME UNCHANGED <<unread, toApp, pos>> PROVE Places' /\ Stays
  BY <1>0, <1>2 DEF Places, Base, Stays
<1>3. ASSUME unread' = <<>>, UNCHANGED <<toApp, pos>> PROVE Places' /\ Drops
  BY <1>0, <1>3, DropMoves DEF Drops
<1>4. AcceptRefuses \/ Finish => unread' = <<>> /\ UNCHANGED <<toApp, pos>>
  BY DEF AcceptRefuses, Finish, BeginClose
<1>5. OSReadFails => UNCHANGED <<toApp, pos>> /\ (unread' = <<>> \/ UNCHANGED unread)
  BY DEF OSReadFails, BeginClose
<1>6. WriteFails => UNCHANGED <<toApp, pos>> /\ (unread' = <<>> \/ UNCHANGED unread)
  BY DEF WriteFails, BeginClose
<1>7. Pauses => UNCHANGED <<unread, toApp, pos>>
  <2>1. ServerReceive \/ ServerClose \/ WriteCell \/ WriteDone \/ Close => UNCHANGED <<unread, toApp, pos>>
    BY DEF ServerReceive, ServerClose, WriteCell, WriteDone, Close
  <2>2. App => UNCHANGED <<unread, toApp, pos>>
    BY DEF App, AppRead, AppPut, AppFlush, AppFinish
  <2>3. UNCHANGED vars => UNCHANGED <<unread, toApp, pos>>
    BY DEF vars
  <2> QED BY <2>1, <2>2, <2>3 DEF Pauses
<1>8. Places'
  <2>1. CASE Consumes
    BY <1>1, <2>1
  <2>2. CASE AcceptRefuses \/ Finish
    BY <1>3, <1>4, <2>2
  <2>3. CASE OSReadFails \/ WriteFails
    BY <1>2, <1>3, <1>5, <1>6, <2>3
  <2>4. CASE Pauses
    BY <1>2, <1>7, <2>4
  <2>5. CASE OSRead
    BY <2>5, ReadMoves
  <2>6. CASE ServerSend
    BY <2>6, SendMoves
  <2>7. CASE Drain
    BY <2>7, DrainMoves
  <2> QED BY <2>1, <2>2, <2>3, <2>4, <2>5, <2>6, <2>7 DEF Next, Server, Library, Over, Consumes, Pauses
<1> HIDE DEF Consumes, Drops, Stays
<1> QED BY <1>1, <1>2, <1>3, <1>4, <1>5, <1>6, <1>7, <1>8

Begun == r > 0 => \E k \in 1..Base : script[k] = <<"BEGIN", r>>
HeaderRead == contentLen = 1 => Base >= 1 /\ script[Base][1] = "STDIN"

LEMMA PositionParts == Position <=> Places /\ Begun /\ HeaderRead
BY DEF Position, Places, Begun, HeaderRead

LEMMA BaseGrows ==
    ASSUME Streams, TypeOK, Phases, Places, [Next]_vars
    PROVE  Base \in Nat /\ Base' \in Nat /\ Base' >= Base
<1>1. Base \in Nat /\ Len(unread) \in Nat /\ pos >= Base /\ pos \in Nat
  BY PlacesFacts
<1>2. CASE Consumes
  BY <1>1, <1>2, PlacesStep
<1>3. CASE AcceptRefuses \/ Finish \/ OSReadFails \/ WriteFails
  <2>1. Base' = Base \/ Base' = Base + Len(unread)
    BY <1>3, PlacesStep DEF Drops, Stays
  <2> QED BY <1>1, <2>1
<1>4. CASE Pauses
  BY <1>1, <1>4, PlacesStep DEF Stays
<1>5. CASE OSRead
  BY <1>1, <1>5, ReadMoves
<1>6. CASE ServerSend
  BY <1>1, <1>6, SendMoves
<1>7. CASE Drain
  BY <1>1, <1>7, DrainMoves
<1> QED BY <1>2, <1>3, <1>4, <1>5, <1>6, <1>7 DEF Next, Server, Library, Over, Consumes, Pauses

\* The cell that is consumed.
LEMMA HeadFacts ==
    ASSUME Streams, TypeOK, Places, unread # <<>>
    PROVE  /\ Head(unread) = <<Head(unread)[1], Head(unread)[2]>>
           /\ Head(unread)[1] \in InKinds /\ Head(unread)[2] \in 1..setting.requests
           /\ script[Base + 1] = Head(unread) /\ Base + 1 \in 1..Len(script) /\ Base + 1 \in 1..pos
<1>1. Head(unread) = script[Base + 1] /\ Base + 1 \in 1..Len(script) /\ Base + 1 \in 1..pos
  BY PlacesFacts
<1>2. script \in Seq(InKinds \X (1..setting.requests))
  BY DEF Streams, ScriptShape
<1>3. script[Base + 1] \in InKinds \X (1..setting.requests)
  BY <1>1, <1>2
<1> QED BY <1>1, <1>3

LEMMA BegunStep ==
    ASSUME Streams, TypeOK, Phases, Places, Begun, [Next]_vars
    PROVE  Begun'
<1>1. Base \in Nat /\ Base' \in Nat /\ Base' >= Base /\ script' = script
  BY BaseGrows, ScriptIsConstant
<1> USE DEF server, reader, writer
<1>2. CASE AcceptBegin
  <2>1. unread # <<>> /\ Base' = Base + 1
    BY <1>2, PlacesStep DEF Consumes
  <2>2. r' = Head(unread)[2] /\ Head(unread)[1] = "BEGIN"
    BY <1>2 DEF AcceptBegin, At
  <2>3. script[Base + 1] = <<"BEGIN", r'>>
    BY <2>1, <2>2, HeadFacts
  <2>4. Base + 1 \in 1..Base'
    BY <1>1, <2>1
  <2> HIDE DEF Base
  <2> QED BY <1>1, <2>3, <2>4 DEF Begun
<1>3. CASE r' = r
  <2>1. \A k \in 1..Base : k \in 1..Base'
    BY <1>1
  <2> HIDE DEF Base
  <2> QED BY <1>1, <1>3, <2>1 DEF Begun
<1>4. AcceptBegin \/ r' = r
  <2>1. CASE Server
    BY <2>1 DEF Server, ServerSend, ServerReceive, ServerClose
  <2>2. CASE Library
    <3>1. CASE OSRead \/ OSReadFails \/ AnswerManagement \/ AcceptBegin \/ AcceptSkips \/ SkipContent
      BY <3>1 DEF OSRead, OSReadFails, AnswerManagement, AcceptSkips, SkipContent
    <3>2. CASE AcceptRefuses \/ ReadEnvironment \/ ReadHeader \/ ReadContent \/ ReadRefuses \/ ReadEnd
      BY <3>2 DEF AcceptRefuses, ReadEnvironment, ReadHeader, ReadContent, ReadRefuses, ReadEnd
    <3>3. CASE WriteCell \/ WriteFails \/ WriteDone \/ Finish \/ Drain \/ Close
      BY <3>3 DEF WriteCell, WriteFails, WriteDone, Finish, Drain, Close
    <3> QED BY <2>2, <3>1, <3>2, <3>3 DEF Library
  <2>3. CASE App
    BY <2>3 DEF App, AppRead, AppPut, AppFlush, AppFinish
  <2>4. CASE UNCHANGED vars
    BY <2>4 DEF vars
  <2> QED BY <2>1, <2>2, <2>3, <2>4 DEF Next, Over
<1> QED BY <1>2, <1>3, <1>4

LEMMA HeaderReadStep ==
    ASSUME Streams, TypeOK, Phases, Places, HeaderRead, [Next]_vars
    PROVE  HeaderRead'
<1> SUFFICES ASSUME contentLen' = 1 PROVE Base' >= 1 /\ script[Base'][1] = "STDIN"
  BY ScriptIsConstant DEF HeaderRead
<1>1. Base \in Nat /\ contentLen \in 0..1
  BY BaseGrows DEF TypeOK
<1> USE DEF server, reader, writer
<1>2. CASE AcceptSkips \/ ReadHeader
  <2>1. unread # <<>> /\ Base' = Base + 1
    BY <1>2, PlacesStep DEF Consumes
  <2>2. Head(unread)[1] = "STDIN"
    BY <1>2 DEF AcceptSkips, ReadHeader, At
  <2>3. script[Base + 1][1] = "STDIN"
    BY <2>1, <2>2, HeadFacts
  <2> HIDE DEF Base
  <2> QED BY <1>1, <2>1, <2>3
<1>3. CASE Base' = Base /\ contentLen' = contentLen
  <2> HIDE DEF Base
  <2> QED BY <1>3 DEF HeaderRead
<1>4. AcceptSkips \/ ReadHeader \/ (Base' = Base /\ contentLen' = contentLen)
  <2>1. CASE AnswerManagement \/ AcceptBegin \/ ReadEnvironment
    BY <2>1 DEF AnswerManagement, AcceptBegin, ReadEnvironment, At
  <2>2. CASE ReadRefuses \/ ReadEnd \/ SkipContent \/ ReadContent
    BY <2>2 DEF ReadRefuses, ReadEnd, SkipContent, ReadContent, At
  <2>3. CASE AcceptRefuses \/ Finish
    BY <2>3 DEF AcceptRefuses, Finish, BeginClose
  <2>4. CASE OSReadFails
    <3>1. contentLen' = 0 \/ UNCHANGED <<unread, toApp, pos, contentLen>>
      BY <2>4 DEF OSReadFails, BeginClose
    <3> QED BY <3>1 DEF Base
  <2>5. CASE WriteFails
    <3>1. contentLen' = 0 \/ UNCHANGED <<unread, toApp, pos, contentLen>>
      BY <2>5 DEF WriteFails, BeginClose
    <3> QED BY <3>1 DEF Base
  <2>6. CASE ServerSend
    <3>1. contentLen' = contentLen /\ (pc = "closed" => contentLen = 0)
      BY <2>6 DEF ServerSend, Phases, Closing
    <3> QED BY <2>6, <3>1, SendMoves
  <2>7. CASE Drain
    BY <2>7 DEF Drain, Phases, Closing
  <2>8. CASE OSRead
    BY <2>8, ReadMoves DEF OSRead
  <2>9. CASE Pauses
    <3>1. Base' = Base
      BY <2>9, PlacesStep DEF Stays
    <3>2. CASE ServerReceive \/ ServerClose \/ WriteCell \/ WriteDone \/ Close \/ UNCHANGED vars
      BY <3>1, <3>2 DEF ServerReceive, ServerClose, WriteCell, WriteDone, Close, vars
    <3>3. CASE App
      BY <3>1, <3>3 DEF App, AppRead, AppPut, AppFlush, AppFinish
    <3> QED BY <2>9, <3>2, <3>3 DEF Pauses
  <2> QED BY <2>1, <2>2, <2>3, <2>4, <2>5, <2>6, <2>7, <2>8, <2>9
          DEF Next, Server, Library, Over, Pauses
<1> QED BY <1>2, <1>3, <1>4

-----------------------------------------------------------------------------
(* Counting in what the server gets.                                       *)

Starts(s, t) == Len(s) <= Len(t) /\ \A i \in 1..Len(s) : s[i] = t[i]

LEMMA CountType ==
    ASSUME NEW S, NEW s \in Seq(S), NEW x
    PROVE  /\ IsFiniteSet({i \in 1..Len(s) : s[i] = x})
           /\ Count(s, x) = Cardinality({i \in 1..Len(s) : s[i] = x}) /\ Count(s, x) \in Nat
<1> DEFINE T == {i \in 1..Len(s) : s[i] = x}
<1>1. Len(s) \in Nat /\ DOMAIN s = 1..Len(s)
  BY LenProperties
<1>2. IsFiniteSet(1..Len(s)) /\ T \in SUBSET (1..Len(s))
  BY <1>1, FS_Interval
<1>3. IsFiniteSet(T)
  <2> HIDE DEF T
  <2> QED BY <1>2, FS_Subset
<1>4. Cardinality(T) \in Nat
  <2> HIDE DEF T
  <2> QED BY <1>3, FS_CardinalityType
<1>5. Count(s, x) = Cardinality(T)
  BY <1>1 DEF Count
<1> QED BY <1>3, <1>4, <1>5

LEMMA CountNone ==
    ASSUME NEW S, NEW s \in Seq(S), NEW x
    PROVE  Count(s, x) = 0 <=> \A i \in 1..Len(s) : s[i] # x
<1> DEFINE T == {i \in 1..Len(s) : s[i] = x}
<1>1. IsFiniteSet(T) /\ Count(s, x) = Cardinality(T)
  BY CountType
<1>2. Cardinality(T) = 0 <=> T = {}
  <2> HIDE DEF T
  <2> QED BY <1>1, FS_EmptySet
<1> QED BY <1>1, <1>2

LEMMA CountAll ==
    ASSUME NEW S, NEW s \in Seq(S), NEW x, \A i \in 1..Len(s) : s[i] = x
    PROVE  Count(s, x) = Len(s)
<1> DEFINE T == {i \in 1..Len(s) : s[i] = x}
<1>1. Len(s) \in Nat /\ Count(s, x) = Cardinality(T)
  BY CountType, LenProperties
<1>2. T = 1..Len(s)
  OBVIOUS
<1>3. Cardinality(1..Len(s)) = Len(s)
  <2>1. 1 \in Int /\ Len(s) \in Int
    BY <1>1
  <2>2. Cardinality(1..Len(s)) = IF 1 > Len(s) THEN 0 ELSE Len(s) - 1 + 1
    BY <2>1, FS_Interval
  <2> QED BY <1>1, <2>2
<1> QED BY <1>1, <1>2, <1>3

LEMMA CountAppend ==
    ASSUME NEW S, NEW s \in Seq(S), NEW c \in S, NEW x
    PROVE  Count(Append(s, c), x) = Count(s, x) + (IF c = x THEN 1 ELSE 0)
<1> DEFINE u == Append(s, c)
           T == {i \in 1..Len(s) : s[i] = x}
           U == {i \in 1..Len(u) : u[i] = x}
           n == Len(s) + 1
<1>1. u \in Seq(S) /\ Len(u) = n /\ Len(s) \in Nat /\ u[n] = c /\ \A i \in 1..Len(s) : u[i] = s[i]
  OBVIOUS
<1> HIDE DEF u
<1>2. U = IF c = x THEN T \cup {n} ELSE T
  <2>1. \A i : i \in 1..Len(u) <=> i \in 1..Len(s) \/ i = n
    BY <1>1
  <2> QED BY <1>1, <2>1
<1>3. IsFiniteSet(T) /\ Count(s, x) = Cardinality(T) /\ Cardinality(T) \in Nat
  BY CountType
<1>6. Count(u, x) = Cardinality(U)
  <2>1. u \in Seq(S)
    BY <1>1
  <2> QED BY <2>1, CountType
<1>4. n \notin T
  BY <1>1
<1> HIDE DEF T, U, n
<1>5. Cardinality(T \cup {n}) = Cardinality(T) + 1
  BY <1>3, <1>4, FS_AddElement
<1> QED BY <1>2, <1>3, <1>5, <1>6 DEF u

LEMMA CountConcat ==
    ASSUME NEW S, NEW s \in Seq(S), NEW t \in Seq(S), NEW x
    PROVE  Count(s \o t, x) = Count(s, x) + Count(t, x)
<1> DEFINE First(n) == [i \in 1..n |-> t[i]]
           Missing == {n \in 0..Len(t) : Count(s \o First(n), x) # Count(s, x) + Count(First(n), x)}
<1>1. Len(t) \in Nat /\ \A i \in 1..Len(t) : t[i] \in S
  BY LenProperties
<1>2. \A n \in 0..Len(t) : /\ First(n) \in Seq(S) /\ Len(First(n)) = n
                           /\ \A i \in 1..n : First(n)[i] = t[i]
  BY <1>1
<1> HIDE DEF First
<1>3. Missing \subseteq Nat /\ Missing \subseteq 0..Len(t)
  OBVIOUS
<1>4. Missing = {}
  <2>1. SUFFICES ASSUME Missing # {} PROVE FALSE
    OBVIOUS
  <2>2. PICK m \in Missing : \A k \in Missing : m <= k
    <3> HIDE DEF Missing
    <3> QED BY <2>1, <1>3, LeastNatural
  <2>3. 0 \notin Missing
    <3>1. First(0) = <<>> /\ <<>> \in Seq(S) /\ \A i \in 1..Len(<<>>) : <<>>[i] # x
      BY DEF First
    <3>2. Count(<<>>, x) = 0 /\ s \o <<>> = s /\ Count(s, x) \in Nat
      BY <3>1, CountNone, CountType, ConcatEmptySeq
    <3>3. Count(s \o First(0), x) = Count(s, x) /\ Count(First(0), x) = 0
      BY <3>1, <3>2, Zenon
    <3>4. Count(s \o First(0), x) = Count(s, x) + Count(First(0), x)
      BY <3>2, <3>3
    <3> QED BY <3>4
  <2> DEFINE k == m - 1
  <2>4. m \in 1..Len(t) /\ k \in 0..Len(t) /\ m \in 0..Len(t) /\ k \notin Missing /\ m = k + 1 /\ k \in Nat
    <3> HIDE DEF Missing
    <3> QED BY <1>1, <2>2, <2>3, <1>3
  <2> HIDE DEF k
  <2>5. /\ First(k) \in Seq(S) /\ Len(First(k)) = k /\ \A i \in 1..k : First(k)[i] = t[i]
        /\ First(m) \in Seq(S) /\ Len(First(m)) = m /\ \A i \in 1..m : First(m)[i] = t[i]
        /\ t[m] \in S
    BY <1>1, <1>2, <2>4
  <2> DEFINE a == First(k)
             c == t[m]
  <2>6. Append(a, c) \in Seq(S) /\ Len(Append(a, c)) = m
        /\ \A i \in 1..m : Append(a, c)[i] = First(m)[i]
    <3>1. /\ Append(a, c) \in Seq(S) /\ Len(Append(a, c)) = k + 1
          /\ \A i \in 1..k + 1 : Append(a, c)[i] = IF i = k + 1 THEN c ELSE a[i]
      BY <2>5
    <3>2. \A i \in 1..k + 1 : i # k + 1 => i \in 1..k
      BY <2>4
    <3> HIDE DEF a, c
    <3>3. \A i \in 1..m : Append(a, c)[i] = t[i]
      BY <2>4, <2>5, <3>1, <3>2 DEF a, c
    <3> QED BY <2>4, <2>5, <3>1, <3>3
  <2>7. First(m) = Append(a, c)
    BY <2>5, <2>6, SeqEqual
  <2>8. s \o Append(a, c) = Append(s \o a, c)
    BY <2>5
  <2>9. s \o a \in Seq(S)
    BY <2>5, ConcatProperties
  <2>10. Count(s \o a, x) = Count(s, x) + Count(a, x)
    BY <2>4
  <2> HIDE DEF a, c
  <2>14. a \in Seq(S) /\ c \in S
    BY <2>5 DEF a, c
  <2>11. /\ Count(Append(a, c), x) = Count(a, x) + (IF c = x THEN 1 ELSE 0)
         /\ Count(Append(s \o a, c), x) = Count(s \o a, x) + (IF c = x THEN 1 ELSE 0)
    <3> DEFINE sa == s \o a
    <3>1. sa \in Seq(S)
      BY <2>9
    <3> HIDE DEF sa
    <3>2. Count(Append(sa, c), x) = Count(sa, x) + (IF c = x THEN 1 ELSE 0)
      BY <2>14, <3>1, CountAppend
    <3>3. Count(Append(a, c), x) = Count(a, x) + (IF c = x THEN 1 ELSE 0)
      BY <2>14, CountAppend
    <3> QED BY <3>2, <3>3 DEF sa
  <2>12. Count(s, x) \in Nat /\ Count(a, x) \in Nat
    BY <2>5, CountType DEF a
  <2>13. Count(s \o First(m), x) = Count(s, x) + Count(First(m), x)
    BY <2>7, <2>8, <2>10, <2>11, <2>12
  <2> QED BY <2>13, <2>2
<1>5. First(Len(t)) = t
  <2>1. First(Len(t)) \in Seq(S) /\ Len(First(Len(t))) = Len(t)
        /\ \A i \in 1..Len(t) : First(Len(t))[i] = t[i]
    BY <1>1, <1>2
  <2> QED BY <2>1, SeqEqual
<1>6. Len(t) \in 0..Len(t) /\ Len(t) \notin Missing
  BY <1>1, <1>4
<1> QED BY <1>5, <1>6

LEMMA BeforeLast ==
    ASSUME NEW S, NEW s \in Seq(S), NEW i \in 1..Len(s), NEW x, \A j \in i..Len(s) : s[j] # x
    PROVE  Before(s, i, x) = Count(s, x)
<1>1. Len(s) \in Nat /\ Count(s, x) = Cardinality({j \in 1..Len(s) : s[j] = x})
  <2>1. Len(s) \in Nat
    BY LenProperties
  <2> QED BY <2>1, CountType
<1>2. {j \in 1..i - 1 : s[j] = x} = {j \in 1..Len(s) : s[j] = x}
  <2>1. \A j \in 1..Len(s) : s[j] = x => j \in 1..i - 1
    BY <1>1
  <2>2. \A j \in 1..i - 1 : j \in 1..Len(s)
    BY <1>1
  <2> QED BY <2>1, <2>2
<1> QED BY <1>1, <1>2 DEF Before

LEMMA BeforeStarts ==
    ASSUME NEW s, NEW t, Starts(s, t), Len(s) \in Nat, NEW i \in 1..Len(s), NEW x
    PROVE  Before(s, i, x) = Before(t, i, x)
<1>1. \A j \in 1..i - 1 : s[j] = t[j]
  BY DEF Starts
<1>2. {j \in 1..i - 1 : s[j] = x} = {j \in 1..i - 1 : t[j] = x}
  BY <1>1
<1> QED BY <1>2 DEF Before

-----------------------------------------------------------------------------
(* What the server gets, step by step.                                     *)

LEMMA TurnsStart ==
    ASSUME NEW s, NEW t, Len(s) \in Nat, Len(t) \in Nat, Starts(s, t), InTurn(t), Completed(t)
    PROVE  InTurn(s) /\ Completed(s)
<1>1. \A i \in 1..Len(s) : i \in 1..Len(t) /\ s[i] = t[i]
  BY DEF Starts
<1>2. InTurn(s)
  BY <1>1 DEF InTurn
<1>3. Completed(s)
  <2> SUFFICES ASSUME NEW i \in 1..Len(s), NEW j \in 1..Len(s),
                      i < j, s[i][1] = "out", Answers(s[j]), s[i][2] # s[j][2]
               PROVE  \E k \in 1..j - 1 : s[k] = <<"END", s[i][2]>>
    BY DEF Completed
  <2>1. PICK k \in 1..j - 1 : t[k] = <<"END", t[i][2]>>
    BY <1>1 DEF Completed
  <2>2. k \in 1..Len(s)
    OBVIOUS
  <2> QED BY <1>1, <2>1, <2>2
<1> QED BY <1>2, <1>3

LEMMA TurnsGrow ==
    ASSUME NEW s \in Seq(OutCells), NEW t \in Seq(OutCells), NEW q, InTurn(s), Completed(s),
           \A i \in 1..Len(s) : Answers(s[i]) => s[i][2] \in Nat /\ s[i][2] <= q, q \in Nat,
           (\E i \in 1..Len(t) : Answers(t[i])) =>
               \A i \in 1..Len(s) : /\ s[i] # <<"END", q>>
                                    /\ s[i][1] = "out" /\ s[i][2] # q =>
                                          \E k \in 1..Len(s) : s[k] = <<"END", s[i][2]>>,
           \A i \in 1..Len(t) : Answers(t[i]) => t[i][2] = q,
           \A i \in 1..Len(t) : t[i] = <<"END", q>> => i = Len(t)
    PROVE  InTurn(s \o t) /\ Completed(s \o t)
<1> DEFINE u == s \o t
           a == Len(s)
           b == Len(t)
<1>1. /\ u \in Seq(OutCells) /\ Len(u) = a + b /\ a \in Nat /\ b \in Nat
      /\ \A i \in 1..a + b : u[i] = IF i <= a THEN s[i] ELSE t[i - a]
  BY ConcatProperties, LenProperties
<1> HIDE DEF u, a, b
<1>2. \A i \in 1..Len(u) : \/ i \in 1..a /\ u[i] = s[i]
                           \/ i \notin 1..a /\ i - a \in 1..b /\ u[i] = t[i - a]
  BY <1>1
<1>3. InTurn(u)
  <2> SUFFICES ASSUME NEW i \in 1..Len(u), NEW j \in 1..Len(u), i < j, Answers(u[i]), Answers(u[j])
               PROVE  u[i][2] <= u[j][2] /\ u[i] # <<"END", u[j][2]>>
    BY DEF InTurn
  <2>1. CASE i \in 1..a /\ j \in 1..a
    BY <1>2, <2>1 DEF InTurn, a
  <2>2. CASE i \in 1..a /\ j \notin 1..a
    <3>1. u[i] = s[i] /\ u[j] = t[j - a] /\ j - a \in 1..b
      BY <1>2, <2>2
    <3>2. u[j][2] = q /\ u[i][2] <= q /\ u[i] # <<"END", q>>
      BY <2>2, <3>1 DEF a, b
    <3> QED BY <3>2
  <2>3. CASE i \notin 1..a
    <3>1. j \notin 1..a
      BY <2>3, <1>1
    <3>2. i - a \in 1..b /\ j - a \in 1..b /\ u[i] = t[i - a] /\ u[j] = t[j - a] /\ i - a < b
      BY <1>1, <1>2, <2>3, <3>1
    <3>3. u[i][2] = q /\ u[j][2] = q
      BY <3>2 DEF b
    <3>4. t[i - a] # <<"END", q>>
      BY <3>2 DEF b
    <3> QED BY <3>2, <3>3, <3>4
  <2>4. i \in 1..a \/ i \notin 1..a
    OBVIOUS
  <2> QED BY <2>1, <2>2, <2>3
<1>4. Completed(u)
  <2> SUFFICES ASSUME NEW i \in 1..Len(u), NEW j \in 1..Len(u),
                      i < j, u[i][1] = "out", Answers(u[j]), u[i][2] # u[j][2]
               PROVE  \E k \in 1..j - 1 : u[k] = <<"END", u[i][2]>>
    BY DEF Completed
  <2>1. CASE i \in 1..a /\ j \in 1..a
    <3>1. u[i] = s[i] /\ u[j] = s[j]
      BY <1>2, <2>1
    <3>2. PICK k \in 1..j - 1 : s[k] = <<"END", s[i][2]>>
      BY <2>1, <3>1 DEF Completed, a
    <3>3. k \in 1..a /\ k \in 1..Len(u)
      BY <1>1, <2>1
    <3> QED BY <1>2, <3>1, <3>2, <3>3
  <2>2. CASE i \in 1..a /\ j \notin 1..a
    <3>1. u[i] = s[i] /\ u[j] = t[j - a] /\ j - a \in 1..b
      BY <1>2, <2>2
    <3>2. u[j][2] = q
      BY <3>1 DEF b
    <3>3. PICK k \in 1..a : s[k] = <<"END", s[i][2]>>
      BY <2>2, <3>1, <3>2 DEF a, b
    <3>4. k \in 1..j - 1 /\ k \in 1..Len(u)
      BY <1>1, <2>2
    <3> QED BY <1>2, <3>1, <3>3, <3>4
  <2>3. CASE i \notin 1..a
    <3>1. j \notin 1..a
      BY <2>3, <1>1
    <3>2. i - a \in 1..b /\ j - a \in 1..b /\ u[i] = t[i - a] /\ u[j] = t[j - a]
      BY <1>1, <1>2, <2>3, <3>1
    <3>3. u[i][2] = q /\ u[j][2] = q
      BY <3>2 DEF b, Answers
    <3> QED BY <3>3
  <2> QED BY <2>1, <2>2, <2>3
<1> QED BY <1>3, <1>4 DEF u

\* One cell goes from the head of a sequence to the end of the one before it.
LEMMA HeadPasses ==
    ASSUME NEW S, NEW s \in Seq(S), NEW t \in Seq(S), t # <<>>
    PROVE  Append(s, Head(t)) \o Tail(t) = s \o t
<1>1. /\ Append(s, Head(t)) \in Seq(S) /\ Tail(t) \in Seq(S) /\ Len(t) \in Nat /\ Len(t) >= 1
      /\ Len(Tail(t)) = Len(t) - 1 /\ Len(Append(s, Head(t))) = Len(s) + 1 /\ Len(s) \in Nat
      /\ Head(t) = t[1] /\ \A i \in 1..Len(t) - 1 : Tail(t)[i] = t[i + 1]
      /\ \A i \in 1..Len(s) + 1 : Append(s, Head(t))[i] = IF i = Len(s) + 1 THEN t[1] ELSE s[i]
  <2>1. Head(t) \in S /\ Tail(t) \in Seq(S) /\ Len(Tail(t)) = Len(t) - 1
        /\ \A i \in 1..Len(Tail(t)) : Tail(t)[i] = t[i + 1]
    BY HeadTailProperties
  <2>2. Len(t) \in Nat /\ Len(t) >= 1 /\ Len(s) \in Nat /\ Head(t) = t[1]
    OBVIOUS
  <2>3. /\ Append(s, Head(t)) \in Seq(S) /\ Len(Append(s, Head(t))) = Len(s) + 1
        /\ \A i \in 1..Len(s) + 1 : Append(s, Head(t))[i] = IF i = Len(s) + 1 THEN Head(t) ELSE s[i]
    BY <2>1
  <2> QED BY <2>1, <2>2, <2>3
<1> DEFINE a == Append(s, Head(t))
           b == Tail(t)
           n == Len(s)
           m == Len(t)
<1>2. /\ s \o t \in Seq(S) /\ Len(s \o t) = n + m
      /\ \A i \in 1..n + m : (s \o t)[i] = IF i <= n THEN s[i] ELSE t[i - n]
  BY ConcatProperties
<1>3. /\ a \o b \in Seq(S) /\ Len(a \o b) = Len(a) + Len(b)
      /\ \A i \in 1..Len(a) + Len(b) : (a \o b)[i] = IF i <= Len(a) THEN a[i] ELSE b[i - Len(a)]
  BY <1>1, ConcatProperties
<1>4. /\ Len(a) = n + 1 /\ Len(b) = m - 1 /\ n \in Nat /\ m \in Nat /\ m >= 1
      /\ \A i \in 1..m - 1 : b[i] = t[i + 1]
      /\ \A i \in 1..n + 1 : a[i] = IF i = n + 1 THEN t[1] ELSE s[i]
  BY <1>1
<1> HIDE DEF a, b, n, m
<1>5. Len(a \o b) = Len(s \o t)
  BY <1>2, <1>3, <1>4
<1>6. ASSUME NEW i \in 1..n + m PROVE (a \o b)[i] = (s \o t)[i]
  <2>1. i \in 1..Len(a) + Len(b)
    BY <1>4
  <2>2. CASE i <= n
    <3>1. (a \o b)[i] = a[i] /\ a[i] = s[i] /\ (s \o t)[i] = s[i]
      BY <1>2, <1>3, <1>4, <2>1, <2>2
    <3> QED BY <3>1
  <2>3. CASE i = n + 1
    <3>1. (a \o b)[i] = a[i] /\ a[i] = t[1]
      BY <1>3, <1>4, <2>1, <2>3
    <3>2. (s \o t)[i] = t[i - n] /\ i - n = 1
      BY <1>2, <1>4, <2>3
    <3> QED BY <3>1, <3>2
  <2>4. CASE i > n + 1
    <3>0. ~(i <= Len(a)) /\ ~(i <= n) /\ i \in 1..n + m
      BY <1>4, <2>4
    <3>3. (a \o b)[i] = b[i - Len(a)]
      BY <1>3, <2>1, <3>0
    <3>4. (s \o t)[i] = t[i - n]
      BY <1>2, <3>0
    <3>1. (a \o b)[i] = b[i - Len(a)] /\ (s \o t)[i] = t[i - n]
      BY <3>3, <3>4
    <3>2. i - Len(a) \in 1..m - 1 /\ (i - Len(a)) + 1 = i - n
      BY <1>4, <2>4
    <3> QED BY <1>4, <3>1, <3>2
  <2>5. i <= n \/ i = n + 1 \/ i > n + 1
    BY <1>4
  <2> QED BY <2>2, <2>3, <2>4, <2>5
<1>7. a \o b = s \o t
  BY <1>2, <1>3, <1>5, <1>6, SeqEqual
<1> QED BY <1>7 DEF a, b

LEMMA OutputType ==
    ASSUME Streams
    PROVE  /\ Output \in Seq(OutCells) /\ Len(Output) \in Nat
           /\ \A i \in 1..Len(Output) : Output[i] \in OutCells /\ Output[i][2] \in Requests
           /\ seen \o toServer \in Seq(OutCells)
           /\ Starts(seen, Output) /\ Starts(seen \o toServer, Output)
<1> DEFINE a == seen \o toServer
           b == a \o pending
<1>1. /\ seen \in Seq(OutCells) /\ toServer \in Seq(OutCells) /\ pending \in Seq(OutCells)
      /\ Len(seen) \in Nat /\ Len(toServer) \in Nat /\ Len(pending) \in Nat
  BY LenProperties DEF Streams
<1>2. /\ a \in Seq(OutCells) /\ Len(a) = Len(seen) + Len(toServer)
      /\ \A i \in 1..Len(seen) + Len(toServer) :
            a[i] = IF i <= Len(seen) THEN seen[i] ELSE toServer[i - Len(seen)]
  BY <1>1, ConcatProperties
<1> HIDE DEF a
<1>3. /\ b \in Seq(OutCells) /\ Len(b) = Len(a) + Len(pending)
      /\ \A i \in 1..Len(a) + Len(pending) :
            b[i] = IF i <= Len(a) THEN a[i] ELSE pending[i - Len(a)]
  BY <1>1, <1>2, ConcatProperties
<1> HIDE DEF b
<1>4. Starts(seen, a) /\ Starts(a, a)
  BY <1>1, <1>2 DEF Starts
<1>5. Starts(a, b) /\ Starts(seen, b)
  BY <1>1, <1>2, <1>3 DEF Starts
<1>6. Output = a \/ Output = b
  BY DEF Output, a, b
<1>7. Output \in Seq(OutCells)
  BY <1>2, <1>3, <1>6
<1>8. Len(Output) \in Nat /\ \A i \in 1..Len(Output) : Output[i] \in OutCells
  BY <1>7, LenProperties, ElementOfSeq
<1>9. \A c \in OutCells : c[2] \in Requests
  BY DEF OutCells
<1> QED BY <1>2, <1>4, <1>5, <1>6, <1>7, <1>8, <1>9 DEF a

LEMMA StartsConcat ==
    ASSUME NEW S, NEW s \in Seq(S), NEW t \in Seq(S)
    PROVE  Starts(s, s \o t) /\ Starts(s, s)
<1>1. /\ Len(s \o t) = Len(s) + Len(t) /\ Len(s) \in Nat /\ Len(t) \in Nat
      /\ \A i \in 1..Len(s) + Len(t) : (s \o t)[i] = IF i <= Len(s) THEN s[i] ELSE t[i - Len(s)]
  BY ConcatProperties, LenProperties
<1> QED BY <1>1 DEF Starts

\* What a write adds, unless the server is gone.
Written(cells) == Output' = IF serverShut THEN Output ELSE Output \o cells
Writes == AnswerManagement \/ AppFlush \/ AppFinish
Shortens == ServerClose \/ ServerSend

LEMMA OutputMoves ==
    ASSUME Streams, TypeOK, Phases, [Next]_vars
    PROVE  /\ AnswerManagement => Written(<<<<"ANSWER", Head(unread)[2]>>>>)
           /\ AppFlush => Written(Content)
           /\ AppFinish => Written(Content \o <<<<"end out", r>>, <<"END", r>>>>)
           /\ Shortens => Starts(Output', Output)
           /\ ~Writes /\ ~Shortens => Output' = Output
<1> USE DEF server, reader, writer
<1>1. /\ seen \in Seq(OutCells) /\ toServer \in Seq(OutCells) /\ pending \in Seq(OutCells)
      /\ seen \o toServer \in Seq(OutCells) /\ Output \in Seq(OutCells) /\ serverShut \in BOOLEAN
  BY OutputType DEF Streams, TypeOK
<1>2. seen \o <<>> = seen /\ (seen \o toServer) \o <<>> = seen \o toServer
  BY <1>1, ConcatEmptySeq
<1>3. pending = <<>> => Output = seen \o toServer
  BY <1>2 DEF Output
<1>4. ASSUME NEW cells, pending = <<>>, pending' = cells, UNCHANGED <<seen, toServer, serverShut>>
      PROVE  Written(cells)
  BY <1>1, <1>3, <1>4 DEF Written, Output
<1>5. AnswerManagement => Written(<<<<"ANSWER", Head(unread)[2]>>>>)
  BY <1>4 DEF AnswerManagement, Write, Phases, At
<1>6. AppFlush => Written(Content)
  BY <1>4 DEF AppFlush, Write, Phases
<1>7. AppFinish => Written(Content \o <<<<"end out", r>>, <<"END", r>>>>)
  BY <1>4 DEF AppFinish, Write, Phases
<1>8. Starts(Output, Output)
  BY <1>1, StartsConcat
<1>9. ServerClose => Starts(Output', Output)
  <2> SUFFICES ASSUME ServerClose PROVE Starts(Output', Output)
    OBVIOUS
  <2>1. ~serverShut /\ serverShut' /\ UNCHANGED <<seen, toServer, pending>>
    BY DEF ServerClose
  <2>2. Output' = seen \o toServer
    BY <2>1 DEF Output
  <2> QED BY <2>2, OutputType
<1>10. ServerSend => Starts(Output', Output)
  <2> SUFFICES ASSUME ServerSend PROVE Starts(Output', Output)
    OBVIOUS
  <2>1. ~serverShut /\ UNCHANGED <<serverShut, seen, pending>>
    BY DEF ServerSend
  <2>2. CASE UNCHANGED toServer
    BY <1>8, <2>1, <2>2 DEF Output
  <2>3. CASE pc = "closed"
    <3>1. toServer' = <<>> /\ pending = <<>>
      BY <2>3 DEF ServerSend, Phases
    <3>2. Output' = seen
      BY <1>2, <2>1, <3>1 DEF Output
    <3> QED BY <3>2, OutputType
  <2> QED BY <2>2, <2>3 DEF ServerSend
<1>11. ASSUME UNCHANGED <<seen, toServer, pending, serverShut>> PROVE Output' = Output
  BY <1>11 DEF Output
<1>12. ServerReceive => Output' = Output
  <2> SUFFICES ASSUME ServerReceive PROVE Output' = Output
    OBVIOUS
  <2>1. toServer # <<>> /\ seen' = Append(seen, Head(toServer)) /\ toServer' = Tail(toServer)
        /\ UNCHANGED <<serverShut, pending>>
    BY DEF ServerReceive
  <2>2. seen' \o toServer' = seen \o toServer
    BY <1>1, <2>1, HeadPasses
  <2> QED BY <2>1, <2>2 DEF Output
<1>13. WriteCell => Output' = Output
  <2> SUFFICES ASSUME WriteCell PROVE Output' = Output
    OBVIOUS
  <2>1. /\ pending # <<>> /\ toServer' = Append(toServer, Head(pending)) /\ pending' = Tail(pending)
        /\ ~serverShut /\ UNCHANGED <<serverShut, seen>>
    BY DEF WriteCell
  <2>2. Head(pending) \in OutCells /\ Tail(pending) \in Seq(OutCells)
    BY <1>1, <2>1
  <2>3. toServer' \in Seq(OutCells) /\ toServer' \o pending' = toServer \o pending
    BY <1>1, <2>1, <2>2, HeadPasses
  <2>4. (seen \o toServer') \o pending' = seen \o (toServer' \o pending')
    <3>1. pending' \in Seq(OutCells)
      BY <2>1, <2>2
    <3>2. seen \in Seq(OutCells) /\ toServer' \in Seq(OutCells)
      BY ONLY <1>1, <2>3
    <3> QED BY ONLY <3>1, <3>2, ConcatAssociative
  <2>5. (seen \o toServer) \o pending = seen \o (toServer \o pending)
    BY <1>1, ConcatAssociative
  <2> QED BY <2>1, <2>3, <2>4, <2>5 DEF Output
<1>14. WriteFails => Output' = Output
  BY DEF WriteFails, Output
<1>15. \/ ServerReceive \/ WriteCell \/ WriteFails \/ Writes \/ Shortens
       \/ UNCHANGED <<seen, toServer, pending, serverShut>>
  <2>1. CASE OSRead \/ OSReadFails \/ AcceptBegin \/ AcceptSkips \/ SkipContent \/ AcceptRefuses
    BY <2>1 DEF OSRead, OSReadFails, AcceptBegin, AcceptSkips, SkipContent, AcceptRefuses
  <2>2. CASE ReadEnvironment \/ ReadHeader \/ ReadContent \/ ReadRefuses \/ ReadEnd
    BY <2>2 DEF ReadEnvironment, ReadHeader, ReadContent, ReadRefuses, ReadEnd
  <2>3. CASE WriteDone \/ Finish \/ Drain \/ Close \/ AppRead \/ AppPut \/ UNCHANGED vars
    BY <2>3 DEF WriteDone, Finish, Drain, Close, AppRead, AppPut, vars
  <2> QED BY <2>1, <2>2, <2>3 DEF Next, Server, Library, App, Over, Writes, Shortens
<1>16. ~Writes /\ ~Shortens => Output' = Output
  BY <1>11, <1>12, <1>13, <1>14, <1>15
<1> QED BY <1>5, <1>6, <1>7, <1>9, <1>10, <1>16 DEF Shortens

\* How the control moves.
Moves ==
    /\ Serving' => Serving \/ AcceptBegin
    /\ Serving => Serving' \/ AppFinish \/ pc = "params"
    /\ AcceptBegin => ~Serving /\ Serving' /\ pc = "accept"
    /\ r' = r \/ AcceptBegin
    /\ serverShut => serverShut'
    /\ pc = "closed" => pc' = "closed"
    /\ puts' = puts \/ AcceptBegin \/ AppPut
    /\ AppPut => Serving /\ held' = held + 1 /\ puts' = puts + 1
    /\ AppFlush => Serving /\ Serving' /\ held' = 0 /\ puts' = puts
    /\ AppFinish => Serving /\ ~Serving' /\ held' = 0 /\ puts' = puts
    /\ held' = held \/ AppPut \/ AppFlush \/ AppFinish

LEMMA ControlMoves ==
    ASSUME TypeOK, Phases, [Next]_vars
    PROVE  Moves
<1> USE DEF server, reader, writer
<1>1. ControlTypes
  BY TypeParts
<1>2. CASE ServerSend
  BY <1>1, <1>2 DEF ServerSend, Moves, Phases, ControlTypes, Serving, Write, BeginClose, At,
     Reading, AcceptBegin, AppPut, AppFlush, AppFinish
<1>3. CASE ServerReceive
  BY <1>1, <1>3 DEF ServerReceive, Moves, Phases, ControlTypes, Serving, Write, BeginClose, At,
     Reading, AcceptBegin, AppPut, AppFlush, AppFinish
<1>4. CASE ServerClose
  BY <1>1, <1>4 DEF ServerClose, Moves, Phases, ControlTypes, Serving, Write, BeginClose, At,
     Reading, AcceptBegin, AppPut, AppFlush, AppFinish
<1>5. CASE OSRead
  BY <1>1, <1>5 DEF OSRead, Moves, Phases, ControlTypes, Serving, Write, BeginClose, At, Reading,
     AcceptBegin, AppPut, AppFlush, AppFinish
<1>6. CASE OSReadFails
  BY <1>1, <1>6 DEF OSReadFails, Moves, Phases, ControlTypes, Serving, Write, BeginClose, At,
     Reading, AcceptBegin, AppPut, AppFlush, AppFinish
<1>7. CASE AnswerManagement
  BY <1>1, <1>7 DEF AnswerManagement, Moves, Phases, ControlTypes, Serving, Write, BeginClose,
     At, Reading, AcceptBegin, AppPut, AppFlush, AppFinish
<1>8. CASE AcceptBegin
  BY <1>1, <1>8 DEF Moves, Phases, ControlTypes, Serving, Write, BeginClose, At, Reading,
     AcceptBegin, AppPut, AppFlush, AppFinish
<1>9. CASE AcceptSkips
  BY <1>1, <1>9 DEF AcceptSkips, Moves, Phases, ControlTypes, Serving, Write, BeginClose, At,
     Reading, AcceptBegin, AppPut, AppFlush, AppFinish
<1>10. CASE SkipContent
  BY <1>1, <1>10 DEF SkipContent, Moves, Phases, ControlTypes, Serving, Write, BeginClose, At,
     Reading, AcceptBegin, AppPut, AppFlush, AppFinish
<1>11. CASE AcceptRefuses
  BY <1>1, <1>11 DEF AcceptRefuses, Moves, Phases, ControlTypes, Serving, Write, BeginClose, At,
     Reading, AcceptBegin, AppPut, AppFlush, AppFinish
<1>12. CASE ReadEnvironment
  BY <1>1, <1>12 DEF ReadEnvironment, Moves, Phases, ControlTypes, Serving, Write, BeginClose,
     At, Reading, AcceptBegin, AppPut, AppFlush, AppFinish
<1>13. CASE ReadHeader
  BY <1>1, <1>13 DEF ReadHeader, Moves, Phases, ControlTypes, Serving, Write, BeginClose, At,
     Reading, AcceptBegin, AppPut, AppFlush, AppFinish
<1>14. CASE ReadContent
  BY <1>1, <1>14 DEF ReadContent, Moves, Phases, ControlTypes, Serving, Write, BeginClose, At,
     Reading, AcceptBegin, AppPut, AppFlush, AppFinish
<1>15. CASE ReadRefuses
  BY <1>1, <1>15 DEF ReadRefuses, Moves, Phases, ControlTypes, Serving, Write, BeginClose, At,
     Reading, AcceptBegin, AppPut, AppFlush, AppFinish
<1>16. CASE ReadEnd
  BY <1>1, <1>16 DEF ReadEnd, Moves, Phases, ControlTypes, Serving, Write, BeginClose, At,
     Reading, AcceptBegin, AppPut, AppFlush, AppFinish
<1>17. CASE WriteCell
  BY <1>1, <1>17 DEF WriteCell, Moves, Phases, ControlTypes, Serving, Write, BeginClose, At,
     Reading, AcceptBegin, AppPut, AppFlush, AppFinish
<1>18. CASE WriteFails
  BY <1>1, <1>18 DEF WriteFails, Moves, Phases, ControlTypes, Serving, Write, BeginClose, At,
     Reading, AcceptBegin, AppPut, AppFlush, AppFinish
<1>19. CASE WriteDone
  BY <1>1, <1>19 DEF WriteDone, Moves, Phases, ControlTypes, Serving, Write, BeginClose, At,
     Reading, AcceptBegin, AppPut, AppFlush, AppFinish
<1>20. CASE Finish
  BY <1>1, <1>20 DEF Finish, Moves, Phases, ControlTypes, Serving, Write, BeginClose, At,
     Reading, AcceptBegin, AppPut, AppFlush, AppFinish
<1>21. CASE Drain
  BY <1>1, <1>21 DEF Drain, Moves, Phases, ControlTypes, Serving, Write, BeginClose, At, Reading,
     AcceptBegin, AppPut, AppFlush, AppFinish
<1>22. CASE Close
  BY <1>1, <1>22 DEF Close, Moves, Phases, ControlTypes, Serving, Write, BeginClose, At, Reading,
     AcceptBegin, AppPut, AppFlush, AppFinish
<1>23. CASE AppRead
  BY <1>1, <1>23 DEF AppRead, Moves, Phases, ControlTypes, Serving, Write, BeginClose, At,
     Reading, AcceptBegin, AppPut, AppFlush, AppFinish
<1>24. CASE AppPut
  BY <1>1, <1>24 DEF Moves, Phases, ControlTypes, Serving, Write, BeginClose, At, Reading,
     AcceptBegin, AppPut, AppFlush, AppFinish
<1>25. CASE AppFlush
  BY <1>1, <1>25 DEF Moves, Phases, ControlTypes, Serving, Write, BeginClose, At, Reading,
     AcceptBegin, AppPut, AppFlush, AppFinish
<1>26. CASE AppFinish
  BY <1>1, <1>26 DEF Moves, Phases, ControlTypes, Serving, Write, BeginClose, At, Reading,
     AcceptBegin, AppPut, AppFlush, AppFinish
<1>27. CASE UNCHANGED vars
  BY <1>27 DEF vars, Moves, Phases, ControlTypes, Serving, Write, BeginClose, At, Reading,
     AcceptBegin, AppPut, AppFlush, AppFinish
<1> QED BY <1>2, <1>3, <1>4, <1>5, <1>6, <1>7, <1>8, <1>9, <1>10, <1>11, <1>12, <1>13, <1>14,
     <1>15, <1>16, <1>17, <1>18, <1>19, <1>20, <1>21, <1>22, <1>23, <1>24, <1>25, <1>26,
     <1>27 DEF Next, Server, Library, App, Over

\* The requests are served in the order of the script.
LEMMA RequestGrows ==
    ASSUME Streams, TypeOK, Phases, Places, Begun, [Next]_vars
    PROVE  /\ r \in Nat /\ r' \in Nat /\ r' >= r
           /\ AcceptBegin => r' > r
<1>1. r \in 0..MaxRequests /\ MaxRequests \in Nat
  BY SettingFacts DEF TypeOK
<1>2. CASE AcceptBegin
  <2>1. unread # <<>> /\ Head(unread)[1] = "BEGIN" /\ r' = Head(unread)[2]
    BY <1>2 DEF AcceptBegin, At
  <2>2. script[Base + 1] = <<"BEGIN", r'>> /\ Base + 1 \in 1..Len(script) /\ r' \in 1..setting.requests
    BY <2>1, HeadFacts
  <2>3. r' \in Nat /\ r' >= 1
    BY <2>2, SettingFacts
  <2>4. CASE r = 0
    BY <1>1, <2>3, <2>4
  <2>5. CASE r # 0
    <3>1. PICK k \in 1..Base : script[k] = <<"BEGIN", r>>
      BY <1>1, <2>5 DEF Begun
    <3>2. Base \in Nat /\ Len(script) \in Nat
      BY PlacesFacts
    <3> HIDE DEF Base
    <3>3. k \in 1..Len(script) /\ k < Base + 1
      BY <2>2, <3>2
    <3>4. Sorted(script)
      BY DEF Streams, ScriptShape
    <3>5. script[k][2] < script[Base + 1][2]
      BY <2>2, <3>3, <3>4 DEF Sorted
    <3> QED BY <1>1, <2>2, <2>3, <3>1, <3>5
  <2> QED BY <1>1, <2>3, <2>4, <2>5
<1>3. CASE r' = r
  <2>1. ~AcceptBegin \/ r' > r
    <3>1. CASE AcceptBegin
      <4>1. r' > r
        BY <1>2, <3>1
      <4> QED BY <4>1
    <3> QED BY <3>1
  <2> QED BY <1>1, <1>3, <2>1
<1>4. r' = r \/ AcceptBegin
  BY ControlMoves DEF Moves
<1> QED BY <1>2, <1>3, <1>4

\* The parts of Answered.
TurnPart == InTurn(Output) /\ Completed(Output)
BegunPart == \A i \in 1..Len(Output) : Answers(Output[i]) =>
    Output[i][2] <= r /\ \E k \in 1..Base : script[k] = <<"BEGIN", Output[i][2]>>
WholePart == \A i \in 1..Len(Output) :
    Output[i] = <<"END", r>> => Before(Output, i, <<"out", r>>) = puts
OpenPart == Serving => \A i \in 1..Len(Output) : Output[i] # <<"END", r>>
CountPart == Serving /\ ~serverShut => Count(Output, <<"out", r>>) + held = puts
EndedPart == ~serverShut /\ pc # "closed" => \A i \in 1..Len(Output) :
    Output[i][1] = "out" /\ ~(Serving /\ Output[i][2] = r) =>
        \E k \in 1..Len(Output) : Output[k] = <<"END", Output[i][2]>>

LEMMA AnsweredParts ==
    Answered <=> TurnPart /\ BegunPart /\ WholePart /\ OpenPart /\ CountPart /\ EndedPart
BY DEF Answered, TurnPart, BegunPart, WholePart, OpenPart, CountPart, EndedPart

\* What a write may add: an answer to the server's question, which belongs to no request, or
\* content of the request that is served, and its end behind it.
LEMMA WrittenFacts ==
    ASSUME Streams, TypeOK, Phases, Writes
    PROVE  \E cells \in Seq(OutCells) :
              /\ Written(cells) /\ Len(cells) \in Nat
              /\ \A i \in 1..Len(cells) : Answers(cells[i]) => cells[i][2] = r
              /\ \A i \in 1..Len(cells) : cells[i] = <<"END", r>> => i = Len(cells) /\ AppFinish
              /\ AnswerManagement => \A i \in 1..Len(cells) : ~Answers(cells[i])
              /\ AppFlush \/ AppFinish => Count(cells, <<"out", r>>) = held /\ Serving
              /\ AppFinish => Len(cells) >= 1 /\ cells[Len(cells)] = <<"END", r>>
<1> USE DEF server, reader, writer
<1>0. [Next]_vars
  BY DEF Writes, Next, Library, App
<1>1. CASE AnswerManagement
  <2> DEFINE c == <<"ANSWER", Head(unread)[2]>>
  <2>1. unread # <<>> /\ ~AppFlush /\ ~AppFinish
    BY <1>1 DEF AnswerManagement, At, AppFlush, AppFinish
  <2>2. <<c>> \in Seq(OutCells) /\ Written(<<c>>)
    BY <1>0, <1>1, <2>1, WrittenTypes, OutputMoves
  <2>3. ~Answers(c) /\ c # <<"END", r>>
    BY DEF Answers
  <2> HIDE DEF c
  <2>4. Len(<<c>>) = 1 /\ \A i \in 1..Len(<<c>>) : <<c>>[i] = c
    OBVIOUS
  <2> QED BY <2>1, <2>2, <2>3, <2>4
<1>2. CASE AppFlush
  <2>1. Serving /\ ~AppFinish /\ ~AnswerManagement
    <3>1. Serving /\ ~AnswerManagement
      BY <1>2 DEF AppFlush, Serving, AnswerManagement, At
    <3>2. ~AppFinish
      BY <1>2 DEF AppFlush, AppFinish, Write
    <3> QED BY <3>1, <3>2
  <2>2. /\ Content \in Seq(OutCells) /\ Len(Content) = held /\ held \in Nat /\ Written(Content)
        /\ \A i \in 1..held : Content[i] = <<"out", r>>
    BY <1>0, <1>2, <2>1, ContentFacts, OutputMoves
  <2>3. Count(Content, <<"out", r>>) = held
    BY <2>2, CountAll
  <2>4. \A i \in 1..Len(Content) : Content[i] = <<"out", r>>
    BY <2>2
  <2>5. <<"out", r>> # <<"END", r>>
    OBVIOUS
  <2> HIDE DEF Content
  <2> QED BY <2>1, <2>2, <2>3, <2>4, <2>5
<1>3. CASE AppFinish
  <2> DEFINE e == <<<<"end out", r>>, <<"END", r>>>>
             cells == Content \o e
  <2>1. Serving /\ ~AnswerManagement
    BY <1>3 DEF AppFinish, Serving, AnswerManagement, At
  <2>2. /\ Content \in Seq(OutCells) /\ Len(Content) = held /\ held \in Nat
        /\ \A i \in 1..held : Content[i] = <<"out", r>>
    BY <2>1, ContentFacts
  <2>3. cells \in Seq(OutCells) /\ Written(cells)
    BY <1>0, <1>3, <2>1, WrittenTypes, OutputMoves
  <2>4. e \in Seq(OutCells) /\ Len(e) = 2 /\ e[1] = <<"end out", r>> /\ e[2] = <<"END", r>>
    <3>1. <<"end out", r>> \in OutCells /\ <<"END", r>> \in OutCells
      BY <2>1, ContentFacts DEF OutCells, OutKinds
    <3>2. \A c, d \in OutCells : <<c, d>> \in Seq(OutCells)
      OBVIOUS
    <3>3. e \in Seq(OutCells)
      BY <3>1, <3>2, Zenon
    <3> QED BY <3>3
  <2> HIDE DEF e
  <2>5. /\ Len(cells) = held + 2
        /\ \A i \in 1..held + 2 : cells[i] = IF i <= held THEN Content[i] ELSE e[i - held]
    <3>1. /\ Len(cells) = Len(Content) + Len(e)
          /\ \A i \in 1..Len(Content) + Len(e) :
                cells[i] = IF i <= Len(Content) THEN Content[i] ELSE e[i - Len(Content)]
      BY <2>2, <2>4, ConcatProperties
    <3> HIDE DEF cells
    <3> QED BY <2>2, <2>4, <3>1
  <2>6. Count(cells, <<"out", r>>) = Count(Content, <<"out", r>>) + Count(e, <<"out", r>>)
    <3>1. Content \in Seq(OutCells) /\ e \in Seq(OutCells)
      BY <2>2, <2>4
    <3> QED BY <3>1, CountConcat
  <2>7. Count(Content, <<"out", r>>) = held
    BY <2>2, CountAll
  <2>8. Count(e, <<"out", r>>) = 0
    <3>1. Len(e) = 2
      BY <2>4
    <3>a. \A i \in 1..Len(e) : i = 1 \/ i = 2
      BY <3>1
    <3>c. <<"end out", r>> # <<"out", r>> /\ <<"END", r>> # <<"out", r>>
      OBVIOUS
    <3>b. e[1] # <<"out", r>> /\ e[2] # <<"out", r>>
      BY <2>4, <3>c, Zenon
    <3>2. \A i \in 1..Len(e) : e[i] # <<"out", r>>
      BY <3>a, <3>b
    <3>3. e \in Seq(OutCells)
      BY <2>4
    <3> QED BY <3>2, <3>3, CountNone
  <2> HIDE DEF cells, Content
  <2>9. \A i \in 1..Len(cells) : \/ i \in 1..held /\ cells[i] = <<"out", r>>
                                 \/ i = held + 1 /\ cells[i] = <<"end out", r>>
                                 \/ i = held + 2 /\ cells[i] = <<"END", r>>
    <3> SUFFICES ASSUME NEW i \in 1..Len(cells)
                 PROVE  \/ i \in 1..held /\ cells[i] = <<"out", r>>
                        \/ i = held + 1 /\ cells[i] = <<"end out", r>>
                        \/ i = held + 2 /\ cells[i] = <<"END", r>>
      OBVIOUS
    <3>1. CASE i \in 1..held
      <4>1. i <= held /\ i \in 1..held + 2
        BY <2>2, <3>1
      <4>2. cells[i] = Content[i]
        BY <2>5, <4>1
      <4> QED BY <2>2, <3>1, <4>2
    <3>2. CASE i = held + 1
      <4>1. cells[i] = e[i - held] /\ i - held = 1
        BY <2>2, <2>5, <3>2
      <4> QED BY <2>4, <3>2, <4>1
    <3>3. CASE i = held + 2
      <4>1. cells[i] = e[i - held] /\ i - held = 2
        BY <2>2, <2>5, <3>3
      <4> QED BY <2>4, <3>3, <4>1
    <3>4. i \in 1..held \/ i = held + 1 \/ i = held + 2
      BY <2>2, <2>5
    <3> QED BY <3>1, <3>2, <3>3, <3>4
  <2>10. \A i \in 1..Len(cells) : Answers(cells[i]) => cells[i][2] = r
    <3>1. <<"out", r>>[2] = r /\ <<"END", r>>[2] = r /\ ~Answers(<<"end out", r>>)
      BY DEF Answers
    <3>2. \A i \in 1..Len(cells) : cells[i] \in {<<"out", r>>, <<"end out", r>>, <<"END", r>>}
      BY <2>9
    <3> QED BY <3>1, <3>2
  <2>11. \A i \in 1..Len(cells) : cells[i] = <<"END", r>> => i = Len(cells)
    <3> SUFFICES ASSUME NEW i \in 1..Len(cells), cells[i] = <<"END", r>> PROVE i = Len(cells)
      OBVIOUS
    <3>1. cells[i] # <<"out", r>> /\ cells[i] # <<"end out", r>>
      OBVIOUS
    <3>2. i = held + 2
      BY <2>9, <3>1
    <3> QED BY <2>5, <3>2
  <2>12. Len(cells) >= 1 /\ Len(cells) \in Nat /\ cells[Len(cells)] = <<"END", r>>
    <3>1. held + 2 \in Nat /\ held + 2 >= 1 /\ held + 2 # held + 1 /\ held + 2 \notin 1..held
      BY <2>2
    <3>2. Len(cells) \in 1..Len(cells) /\ Len(cells) = held + 2
      BY <2>5, <3>1
    <3>3. cells[held + 2] = <<"END", r>>
      BY <2>9, <3>1, <3>2
    <3> QED BY <3>1, <3>2, <3>3
  <2>13. Count(cells, <<"out", r>>) = held
    BY <2>2, <2>6, <2>7, <2>8
  <2> QED BY <1>3, <2>1, <2>3, <2>10, <2>11, <2>12, <2>13
<1> QED BY <1>1, <1>2, <1>3 DEF Writes

\* The three ways in which what the server gets changes.
Cut == /\ Starts(Output', Output) /\ r' = r /\ puts' = puts /\ Serving' = Serving
       /\ serverShut' \/ pc' = "closed"
       /\ serverShut' \/ ~Serving
Same == Output' = Output /\ (Writes => serverShut)
Grown == /\ ~serverShut /\ Writes /\ r' = r /\ puts' = puts
         /\ \E cells \in Seq(OutCells) :
               /\ Output' = Output \o cells /\ Len(cells) \in Nat
               /\ \A i \in 1..Len(cells) : Answers(cells[i]) => cells[i][2] = r /\ Serving
               /\ \A i \in 1..Len(cells) : cells[i] = <<"END", r>> => i = Len(cells) /\ AppFinish
               /\ AppFlush \/ AppFinish => Count(cells, <<"out", r>>) = held
               /\ AnswerManagement => Count(cells, <<"out", r>>) = 0 /\ held' = held
               /\ AppFinish => Len(cells) >= 1 /\ cells[Len(cells)] = <<"END", r>>

LEMMA OutputSteps ==
    ASSUME Streams, TypeOK, Phases, [Next]_vars
    PROVE  Cut \/ Same \/ Grown
<1> USE DEF server, reader, writer
<1>1. CASE ServerClose
  <2>1. Starts(Output', Output)
    BY <1>1, OutputMoves DEF Shortens
  <2>2. r' = r /\ puts' = puts /\ Serving' = Serving /\ serverShut'
    BY <1>1 DEF ServerClose, Serving
  <2> QED BY <2>1, <2>2 DEF Cut
<1>2. CASE ServerSend /\ pc = "closed"
  <2>1. Starts(Output', Output)
    BY <1>2, OutputMoves DEF Shortens
  <2>2. r' = r /\ puts' = puts /\ Serving' = Serving /\ pc' = "closed" /\ ~Serving
    BY <1>2 DEF ServerSend, Serving
  <2> QED BY <2>1, <2>2 DEF Cut
<1>3. CASE ServerSend /\ pc # "closed"
  <2>1. UNCHANGED <<seen, toServer, pending, serverShut>> /\ ~Writes
    BY <1>3 DEF ServerSend, AppFinish, AppFlush, AnswerManagement, Writes, Write, At
  <2> QED BY <2>1 DEF Same, Output
<1>4. CASE Writes /\ serverShut
  <2>1. PICK cells : Written(cells)
    BY <1>4, WrittenFacts
  <2> QED BY <1>4, <2>1 DEF Same, Written
<1>5. CASE Writes /\ ~serverShut
  <2>1. PICK cells \in Seq(OutCells) :
              /\ Written(cells) /\ Len(cells) \in Nat
              /\ \A i \in 1..Len(cells) : Answers(cells[i]) => cells[i][2] = r
              /\ \A i \in 1..Len(cells) : cells[i] = <<"END", r>> => i = Len(cells) /\ AppFinish
              /\ AnswerManagement => \A i \in 1..Len(cells) : ~Answers(cells[i])
              /\ AppFlush \/ AppFinish => Count(cells, <<"out", r>>) = held /\ Serving
              /\ AppFinish => Len(cells) >= 1 /\ cells[Len(cells)] = <<"END", r>>
    BY <1>5, WrittenFacts
  <2>2. Output' = Output \o cells
    BY <1>5, <2>1 DEF Written
  <2>3. ~AnswerManagement => Serving
    BY <1>5, <2>1 DEF Writes
  <2>4. \A i \in 1..Len(cells) : Answers(cells[i]) => cells[i][2] = r /\ Serving
    BY <2>1, <2>3
  <2>5. AnswerManagement => Count(cells, <<"out", r>>) = 0
    <3> SUFFICES ASSUME AnswerManagement PROVE Count(cells, <<"out", r>>) = 0
      OBVIOUS
    <3>1. Answers(<<"out", r>>)
      BY DEF Answers
    <3>2. \A i \in 1..Len(cells) : cells[i] # <<"out", r>>
      BY <2>1, <3>1
    <3> QED BY <2>1, <3>2, CountNone
  <2>6. AnswerManagement => held' = held /\ puts' = puts /\ r' = r
    BY DEF AnswerManagement
  <2>7. AppFlush \/ AppFinish => puts' = puts /\ r' = r
    BY DEF AppFlush, AppFinish
  <2> QED BY <1>5, <2>1, <2>2, <2>4, <2>5, <2>6, <2>7 DEF Grown, Writes
<1>6. CASE ~Writes /\ ~Shortens
  BY <1>6, OutputMoves DEF Same, Writes
<1> QED BY <1>1, <1>2, <1>3, <1>4, <1>5, <1>6 DEF Shortens

LEMMA NextOutputType ==
    ASSUME Streams'
    PROVE  Output' \in Seq(OutCells) /\ Len(Output') \in Nat
<1>1. seen' \in Seq(OutCells) /\ toServer' \in Seq(OutCells) /\ pending' \in Seq(OutCells)
  BY DEF Streams
<1>2. seen' \o toServer' \in Seq(OutCells)
  BY <1>1, ConcatProperties
<1>3. (seen' \o toServer') \o pending' \in Seq(OutCells)
  BY <1>1, <1>2, ConcatProperties
<1>4. Output' \in Seq(OutCells)
  BY <1>2, <1>3 DEF Output
<1> QED BY <1>4, LenProperties

LEMMA TurnPartStep ==
    ASSUME Streams, Streams', TypeOK, Phases, TurnPart, BegunPart, OpenPart, EndedPart, [Next]_vars
    PROVE  TurnPart'
<1>1. /\ Output \in Seq(OutCells) /\ Len(Output) \in Nat /\ Len(Output') \in Nat
      /\ \A i \in 1..Len(Output) : Output[i][2] \in Requests
  BY OutputType, NextOutputType
<1>2. CASE Cut
  BY <1>1, <1>2, TurnsStart DEF Cut, TurnPart
<1>3. CASE Same
  BY <1>3 DEF Same, TurnPart
<1>4. CASE Grown
  <2>1. PICK cells \in Seq(OutCells) :
           /\ Output' = Output \o cells
           /\ \A i \in 1..Len(cells) : Answers(cells[i]) => cells[i][2] = r /\ Serving
           /\ \A i \in 1..Len(cells) : cells[i] = <<"END", r>> => i = Len(cells)
    BY <1>4 DEF Grown
  <2>2. r \in Nat
    BY SettingFacts DEF TypeOK
  <2>3. \A i \in 1..Len(Output) : Answers(Output[i]) => Output[i][2] \in Nat /\ Output[i][2] <= r
    BY <1>1 DEF BegunPart, Requests
  <2>4. Serving => \A i \in 1..Len(Output) :
            /\ Output[i] # <<"END", r>>
            /\ Output[i][1] = "out" /\ Output[i][2] # r =>
                  \E k \in 1..Len(Output) : Output[k] = <<"END", Output[i][2]>>
    BY <1>4 DEF Grown, OpenPart, EndedPart, Serving
  <2>5. (\E i \in 1..Len(cells) : Answers(cells[i])) => Serving
    BY <2>1
  <2> DEFINE o == Output
  <2>6. /\ o \in Seq(OutCells) /\ InTurn(o) /\ Completed(o)
        /\ \A i \in 1..Len(o) : Answers(o[i]) => o[i][2] \in Nat /\ o[i][2] <= r
        /\ (\E i \in 1..Len(cells) : Answers(cells[i])) =>
               \A i \in 1..Len(o) : /\ o[i] # <<"END", r>>
                                    /\ o[i][1] = "out" /\ o[i][2] # r =>
                                          \E k \in 1..Len(o) : o[k] = <<"END", o[i][2]>>
    BY <1>1, <2>3, <2>4, <2>5 DEF TurnPart
  <2> HIDE DEF o
  <2>7. \A i \in 1..Len(cells) : Answers(cells[i]) => cells[i][2] = r
    BY <2>1
  <2>8. \A i \in 1..Len(cells) : cells[i] = <<"END", r>> => i = Len(cells)
    BY <2>1
  <2>9. InTurn(o \o cells) /\ Completed(o \o cells)
    BY ONLY <2>2, <2>6, <2>7, <2>8, cells \in Seq(OutCells), TurnsGrow
  <2> QED BY <2>1, <2>9 DEF o, TurnPart
<1> QED BY <1>2, <1>3, <1>4, OutputSteps

LEMMA BegunPartStep ==
    ASSUME Streams, Streams', TypeOK, Phases, Places, Begun, BegunPart, [Next]_vars
    PROVE  BegunPart'
<1>1. /\ Output \in Seq(OutCells) /\ Len(Output) \in Nat /\ Len(Output') \in Nat
      /\ \A i \in 1..Len(Output) : Output[i][2] \in Requests
  BY OutputType, NextOutputType
<1>2. r \in Nat /\ r' \in Nat /\ r' >= r /\ Base \in Nat /\ Base' \in Nat /\ Base' >= Base /\ script' = script
  BY RequestGrows, BaseGrows, ScriptIsConstant
<1> HIDE DEF Base
<1>3. ASSUME NEW i \in 1..Len(Output), Answers(Output[i])
      PROVE  Output[i][2] <= r' /\ \E k \in 1..Base' : script'[k] = <<"BEGIN", Output[i][2]>>
  <2>1. Output[i][2] <= r /\ Output[i][2] \in Nat
    BY <1>1, <1>3 DEF BegunPart, Requests
  <2>2. PICK k \in 1..Base : script[k] = <<"BEGIN", Output[i][2]>>
    BY <1>3 DEF BegunPart
  <2>3. k \in 1..Base'
    BY <1>2
  <2> QED BY <1>2, <2>1, <2>2, <2>3
<1>4. CASE Cut
  <2>1. \A i \in 1..Len(Output') : i \in 1..Len(Output) /\ Output'[i] = Output[i]
    BY <1>1, <1>4 DEF Cut, Starts
  <2> QED BY <1>3, <2>1 DEF BegunPart
<1>5. CASE Same
  BY <1>3, <1>5 DEF Same, BegunPart
<1>6. CASE Grown
  <2>1. PICK cells \in Seq(OutCells) :
           /\ Output' = Output \o cells
           /\ \A i \in 1..Len(cells) : Answers(cells[i]) => cells[i][2] = r /\ Serving
    BY <1>6 DEF Grown
  <2>2. Serving => \E k \in 1..Base' : script'[k] = <<"BEGIN", r>>
    BY <1>2 DEF Phases, Begun
  <2>3. /\ Len(Output') = Len(Output) + Len(cells) /\ Len(cells) \in Nat
        /\ \A i \in 1..Len(Output) + Len(cells) :
              Output'[i] = IF i <= Len(Output) THEN Output[i] ELSE cells[i - Len(Output)]
    BY <1>1, <2>1, ConcatProperties, LenProperties
  <2>4. \A i \in 1..Len(Output') : \/ i \in 1..Len(Output) /\ Output'[i] = Output[i]
                                   \/ i - Len(Output) \in 1..Len(cells) /\ Output'[i] = cells[i - Len(Output)]
    BY <1>1, <2>3
  <2> SUFFICES ASSUME NEW i \in 1..Len(Output'), Answers(Output'[i])
               PROVE  /\ Output'[i][2] <= r'
                      /\ \E k \in 1..Base' : script'[k] = <<"BEGIN", Output'[i][2]>>
    BY DEF BegunPart
  <2>5. CASE i \in 1..Len(Output) /\ Output'[i] = Output[i]
    BY <1>3, <2>5
  <2>6. CASE i - Len(Output) \in 1..Len(cells) /\ Output'[i] = cells[i - Len(Output)]
    <3>1. Output'[i][2] = r /\ Serving
      BY <2>1, <2>6
    <3> QED BY <1>2, <2>2, <3>1
  <2> QED BY <2>4, <2>5, <2>6
<1> QED BY <1>4, <1>5, <1>6, OutputSteps

LEMMA ConcatCells ==
    ASSUME NEW S, NEW s \in Seq(S), NEW t \in Seq(S)
    PROVE  /\ Len(s \o t) = Len(s) + Len(t) /\ Len(s) \in Nat /\ Len(t) \in Nat
           /\ \A i \in 1..Len(s) : i \in 1..Len(s \o t) /\ (s \o t)[i] = s[i]
           /\ \A i \in 1..Len(t) : Len(s) + i \in 1..Len(s \o t) /\ (s \o t)[Len(s) + i] = t[i]
           /\ \A i \in 1..Len(s \o t) :
                 \/ i \in 1..Len(s) /\ (s \o t)[i] = s[i]
                 \/ i - Len(s) \in 1..Len(t) /\ (s \o t)[i] = t[i - Len(s)]
<1> DEFINE u == s \o t
           n == Len(s)
           m == Len(t)
<1>1. /\ Len(u) = n + m /\ n \in Nat /\ m \in Nat
      /\ \A i \in 1..n + m : u[i] = IF i <= n THEN s[i] ELSE t[i - n]
  BY ConcatProperties, LenProperties
<1> HIDE DEF u, n, m
<1>2. \A i \in 1..n : i \in 1..Len(u) /\ u[i] = s[i]
  BY <1>1
<1>3. \A i \in 1..m : n + i \in 1..Len(u) /\ u[n + i] = t[i]
  <2> SUFFICES ASSUME NEW i \in 1..m PROVE n + i \in 1..Len(u) /\ u[n + i] = t[i]
    OBVIOUS
  <2>1. n + i \in 1..n + m /\ ~(n + i <= n) /\ (n + i) - n = i
    BY <1>1
  <2> QED BY <1>1, <2>1
<1>4. \A i \in 1..Len(u) : \/ i \in 1..n /\ u[i] = s[i]
                           \/ i - n \in 1..m /\ u[i] = t[i - n]
  BY <1>1
<1> QED BY <1>1, <1>2, <1>3, <1>4 DEF u, n, m

LEMMA OpenPartStep ==
    ASSUME Streams, Streams', TypeOK, Phases, Places, Begun, BegunPart, OpenPart, [Next]_vars
    PROVE  OpenPart'
<1> SUFFICES ASSUME Serving', NEW i \in 1..Len(Output'), Output'[i] = <<"END", r'>> PROVE FALSE
  BY DEF OpenPart
<1>1. /\ Output \in Seq(OutCells) /\ Len(Output) \in Nat /\ Len(Output') \in Nat
  BY OutputType, NextOutputType
<1>2. Moves /\ r \in Nat /\ r' \in Nat /\ (AcceptBegin => r' > r)
  BY ControlMoves, RequestGrows
<1>3. \A j \in 1..Len(Output) : Output[j] # <<"END", r'>>
  <2> SUFFICES ASSUME NEW j \in 1..Len(Output), Output[j] = <<"END", r'>> PROVE FALSE
    OBVIOUS
  <2>1. Answers(Output[j]) /\ Output[j][2] = r'
    BY DEF Answers
  <2>2. r' <= r
    BY <2>1 DEF BegunPart
  <2>3. ~AcceptBegin
    BY <1>2, <2>2
  <2>4. Serving /\ r' = r
    BY <1>2, <2>3 DEF Moves
  <2> QED BY <2>4 DEF OpenPart
<1>4. CASE Cut
  <2>1. i \in 1..Len(Output) /\ Output'[i] = Output[i]
    BY <1>1, <1>4 DEF Cut, Starts
  <2> QED BY <1>3, <2>1
<1>5. CASE Same
  BY <1>3, <1>5 DEF Same
<1>6. CASE Grown
  <2>1. PICK cells \in Seq(OutCells) :
           /\ Output' = Output \o cells
           /\ \A k \in 1..Len(cells) : cells[k] = <<"END", r>> => k = Len(cells) /\ AppFinish
    BY <1>6 DEF Grown
  <2>2. \/ i \in 1..Len(Output) /\ Output'[i] = Output[i]
        \/ i - Len(Output) \in 1..Len(cells) /\ Output'[i] = cells[i - Len(Output)]
    BY <1>1, <2>1, ConcatCells
  <2>3. r' = r /\ ~AppFinish
    BY <1>2, <1>6 DEF Grown, Moves
  <2>4. CASE i \in 1..Len(Output) /\ Output'[i] = Output[i]
    BY <1>3, <2>4
  <2>5. CASE i - Len(Output) \in 1..Len(cells) /\ Output'[i] = cells[i - Len(Output)]
    BY <2>1, <2>3, <2>5
  <2> QED BY <2>2, <2>4, <2>5
<1> QED BY <1>4, <1>5, <1>6, OutputSteps

LEMMA CountPartStep ==
    ASSUME Streams, Streams', TypeOK, Phases, Places, Begun, BegunPart, CountPart, [Next]_vars
    PROVE  CountPart'
<1> SUFFICES ASSUME Serving', ~serverShut' PROVE Count(Output', <<"out", r'>>) + held' = puts'
  BY DEF CountPart
<1>1. Output \in Seq(OutCells) /\ Len(Output) \in Nat
  BY OutputType
<1>2. Moves /\ r \in Nat /\ r' \in Nat /\ (AcceptBegin => r' > r)
  BY ControlMoves, RequestGrows
<1>3. ~serverShut
  BY <1>2 DEF Moves
<1>4. held \in Nat /\ puts \in Nat
  BY SettingFacts DEF TypeOK
<1> DEFINE n == Count(Output, <<"out", r>>)
<1>5. n \in Nat
  BY <1>1, CountType
<1> HIDE DEF n
<1>6. CASE AcceptBegin
  <2>1. Output' = Output /\ held' = 0 /\ puts' = 0
    <3>1. ~Writes /\ ~Shortens
      BY <1>6 DEF AcceptBegin, Writes, Shortens, AnswerManagement, AppFlush, AppFinish, ServerClose,
         ServerSend, At, Write
    <3>2. held = 0
      BY <1>2, <1>6 DEF Moves, Phases
    <3>3. held' = held /\ puts' = 0
      BY <1>6 DEF AcceptBegin
    <3> QED BY <3>1, <3>2, <3>3, OutputMoves
  <2>2. \A i \in 1..Len(Output) : Output[i] # <<"out", r'>>
    <3> SUFFICES ASSUME NEW i \in 1..Len(Output), Output[i] = <<"out", r'>> PROVE FALSE
      OBVIOUS
    <3>1. Answers(Output[i]) /\ Output[i][2] = r'
      BY DEF Answers
    <3>2. r' <= r
      BY <3>1 DEF BegunPart
    <3> QED BY <1>2, <1>6, <3>2
  <2>3. Count(Output, <<"out", r'>>) = 0
    BY <1>1, <2>2, CountNone
  <2> QED BY <2>1, <2>3
<1>7. CASE ~AcceptBegin
  <2>1. Serving /\ r' = r /\ n + held = puts
    BY <1>2, <1>3, <1>7 DEF Moves, CountPart, n
  <2>2. CASE Cut
    BY <1>3, <2>1, <2>2 DEF Cut
  <2>3. CASE Same /\ ~Writes
    <3>1. Count(Output', <<"out", r'>>) = n
      BY <2>1, <2>3 DEF Same, n
    <3>2. AppPut => ~AppFlush /\ ~AppFinish
      BY <2>3 DEF Writes
    <3>3. CASE AppPut
      BY <1>2, <1>4, <1>5, <2>1, <3>1, <3>3 DEF Moves
    <3>4. CASE ~AppPut
      BY <1>2, <1>4, <1>5, <1>7, <2>1, <2>3, <3>1, <3>4 DEF Moves, Writes
    <3> QED BY <3>3, <3>4
  <2>4. CASE Grown
    <3>1. PICK cells \in Seq(OutCells) :
             /\ Output' = Output \o cells
             /\ AppFlush \/ AppFinish => Count(cells, <<"out", r>>) = held
             /\ AnswerManagement => Count(cells, <<"out", r>>) = 0 /\ held' = held
      BY <2>4 DEF Grown
    <3>2. Count(Output', <<"out", r'>>) = n + Count(cells, <<"out", r>>)
      BY <1>1, <2>1, <3>1, CountConcat DEF n
    <3>3. AppFlush \/ AnswerManagement
      BY <1>2, <2>4 DEF Grown, Writes, Moves
    <3>4. CASE AppFlush
      <4>1. held' = 0 /\ puts' = puts
        BY <1>2, <3>4 DEF Moves
      <4> QED BY <1>4, <1>5, <2>1, <3>1, <3>2, <3>4, <4>1
    <3>5. CASE AnswerManagement
      <4>1. held' = held /\ puts' = puts
        BY <2>4, <3>1, <3>5 DEF Grown
      <4> QED BY <1>4, <1>5, <2>1, <3>1, <3>2, <3>5, <4>1
    <3> QED BY <3>3, <3>4, <3>5
  <2> QED BY <1>3, <2>2, <2>3, <2>4, OutputSteps DEF Same
<1> QED BY <1>6, <1>7

LEMMA WholePartStep ==
    ASSUME Streams, Streams', TypeOK, Phases, Places, Begun, BegunPart, OpenPart, CountPart,
           WholePart, [Next]_vars
    PROVE  WholePart'
<1> SUFFICES ASSUME NEW i \in 1..Len(Output'), Output'[i] = <<"END", r'>>
             PROVE  Before(Output', i, <<"out", r'>>) = puts'
  BY DEF WholePart
<1>1. /\ Output \in Seq(OutCells) /\ Len(Output) \in Nat
      /\ Output' \in Seq(OutCells) /\ Len(Output') \in Nat
  BY OutputType, NextOutputType
<1>2. Moves /\ r \in Nat /\ r' \in Nat /\ (AcceptBegin => r' > r)
  BY ControlMoves, RequestGrows
<1>3. ~(AcceptBegin /\ Output' = Output)
  <2> SUFFICES ASSUME AcceptBegin, Output' = Output PROVE FALSE
    OBVIOUS
  <2>1. i \in 1..Len(Output) /\ Answers(Output[i]) /\ Output[i][2] = r'
    BY DEF Answers
  <2>2. r' <= r
    BY <2>1 DEF BegunPart
  <2> QED BY <1>2, <2>2
<1>4. CASE Cut
  <2>1. i \in 1..Len(Output) /\ Output[i] = <<"END", r>> /\ puts' = puts /\ r' = r
    BY <1>1, <1>4 DEF Cut, Starts
  <2>2. Before(Output', i, <<"out", r>>) = Before(Output, i, <<"out", r>>)
    BY <1>1, <1>4, BeforeStarts DEF Cut
  <2> QED BY <2>1, <2>2 DEF WholePart
<1>5. CASE Same
  <2>1. ~AcceptBegin /\ Output' = Output /\ r' = r
    BY <1>2, <1>3, <1>5 DEF Same, Moves
  <2>2. ~AppPut
    BY <1>2, <2>1 DEF Moves, OpenPart
  <2>3. puts' = puts
    BY <1>2, <2>1, <2>2 DEF Moves
  <2> QED BY <2>1, <2>3 DEF WholePart
<1>6. CASE Grown
  <2>1. PICK cells \in Seq(OutCells) :
           /\ Output' = Output \o cells
           /\ \A k \in 1..Len(cells) : cells[k] = <<"END", r>> => k = Len(cells) /\ AppFinish
           /\ AppFlush \/ AppFinish => Count(cells, <<"out", r>>) = held
    BY <1>6 DEF Grown
  <2>2. /\ Len(Output') = Len(Output) + Len(cells) /\ Len(cells) \in Nat
        /\ \/ i \in 1..Len(Output) /\ Output'[i] = Output[i]
           \/ i - Len(Output) \in 1..Len(cells) /\ Output'[i] = cells[i - Len(Output)]
    BY <1>1, <2>1, ConcatCells
  <2>3. r' = r /\ puts' = puts /\ ~serverShut
    BY <1>6 DEF Grown
  <2>4. CASE i \in 1..Len(Output) /\ Output'[i] = Output[i]
    <3>1. Starts(Output, Output')
      BY <1>1, <2>1, StartsConcat
    <3>2. Before(Output', i, <<"out", r>>) = Before(Output, i, <<"out", r>>)
      BY <1>1, <2>4, <3>1, BeforeStarts
    <3> QED BY <2>3, <2>4, <3>2 DEF WholePart
  <2>5. CASE i - Len(Output) \in 1..Len(cells) /\ Output'[i] = cells[i - Len(Output)]
    <3>1. i - Len(Output) = Len(cells) /\ AppFinish
      BY <2>1, <2>3, <2>5
    <3>2. i = Len(Output')
      BY <1>1, <2>2, <3>1
    <3>3. \A j \in i..Len(Output') : Output'[j] # <<"out", r>>
      <4>1. \A j \in i..Len(Output') : j = i
        BY <1>1, <3>2
      <4>2. Output'[i] # <<"out", r>>
        OBVIOUS
      <4> QED BY <4>1, <4>2
    <3>4. Before(Output', i, <<"out", r>>) = Count(Output', <<"out", r>>)
      BY <1>1, <3>3, BeforeLast
    <3>5. Count(Output', <<"out", r>>) = Count(Output, <<"out", r>>) + Count(cells, <<"out", r>>)
      BY <1>1, <2>1, CountConcat
    <3>6. Count(cells, <<"out", r>>) = held /\ Serving
      BY <1>2, <2>1, <3>1 DEF Moves
    <3> QED BY <2>3, <3>4, <3>5, <3>6 DEF CountPart
  <2> QED BY <2>2, <2>4, <2>5
<1> QED BY <1>4, <1>5, <1>6, OutputSteps

LEMMA EndedPartStep ==
    ASSUME Streams, Streams', TypeOK, Phases, CountPart, EndedPart, [Next]_vars
    PROVE  EndedPart'
<1> SUFFICES ASSUME ~serverShut', pc' # "closed", NEW i \in 1..Len(Output'), Output'[i][1] = "out",
                    ~(Serving' /\ Output'[i][2] = r')
             PROVE  \E k \in 1..Len(Output') : Output'[k] = <<"END", Output'[i][2]>>
  BY DEF EndedPart
<1>1. /\ Output \in Seq(OutCells) /\ Len(Output) \in Nat /\ \A k \in 1..Len(Output) : Output[k] \in OutCells
  BY OutputType
<1>2. Moves
  BY ControlMoves
<1>3. ~serverShut /\ pc # "closed"
  BY <1>2 DEF Moves
<1>4. ASSUME NEW k \in 1..Len(Output), Output[k] = Output'[i], pc # "params"
      PROVE  \/ AppFinish /\ r' = r /\ Output'[i][2] = r
             \/ \E j \in 1..Len(Output) : Output[j] = <<"END", Output'[i][2]>>
  <2>1. CASE ~(Serving /\ Output[k][2] = r)
    BY <1>3, <1>4, <2>1 DEF EndedPart
  <2>2. CASE Serving /\ Output[k][2] = r
    <3>1. ~AcceptBegin
      BY <1>2, <2>2 DEF Moves
    <3>2. r' = r
      BY <1>2, <3>1 DEF Moves
    <3>3. ~Serving'
      BY <1>4, <2>2, <3>2
    <3>4. AppFinish
      BY <1>2, <1>4, <2>2, <3>3 DEF Moves
    <3> QED BY <1>4, <2>2, <3>2, <3>4
  <2> QED BY <2>1, <2>2
<1>5. ASSUME NEW k \in 1..Len(Output), Output[k] = Output'[i], pc = "params"
      PROVE  \E j \in 1..Len(Output) : Output[j] = <<"END", Output'[i][2]>>
  <2>1. Serving /\ puts = 0 /\ held = 0
    BY <1>5 DEF Phases, Serving
  <2>2. Count(Output, <<"out", r>>) = 0
    <3>1. Count(Output, <<"out", r>>) + 0 = 0 /\ Count(Output, <<"out", r>>) \in Nat
      BY <1>1, <1>3, <2>1, CountType DEF CountPart
    <3> QED BY <3>1
  <2>3. Output[k] # <<"out", r>>
    BY <1>1, <2>2, CountNone
  <2>4. Output[k] = <<Output[k][1], Output[k][2]>>
    BY <1>1 DEF OutCells
  <2>5. Output[k][2] # r
    BY <1>5, <2>3, <2>4
  <2> QED BY <1>3, <1>5, <2>5 DEF EndedPart
<1>6. CASE Cut
  BY <1>6 DEF Cut
<1>7. CASE Same
  <2>1. i \in 1..Len(Output) /\ Output[i] = Output'[i] /\ Output' = Output /\ ~AppFinish
    BY <1>3, <1>7 DEF Same, Writes
  <2> QED BY <1>4, <1>5, <2>1
<1>8. CASE Grown
  <2>1. PICK cells \in Seq(OutCells) :
           /\ Output' = Output \o cells
           /\ \A k \in 1..Len(cells) : Answers(cells[k]) => cells[k][2] = r /\ Serving
           /\ AppFinish => Len(cells) >= 1 /\ cells[Len(cells)] = <<"END", r>>
    BY <1>8 DEF Grown
  <2>2. /\ Len(Output') = Len(Output) + Len(cells) /\ Len(cells) \in Nat
        /\ \A k \in 1..Len(Output) : k \in 1..Len(Output') /\ Output'[k] = Output[k]
        /\ \A k \in 1..Len(cells) : Len(Output) + k \in 1..Len(Output') /\ Output'[Len(Output) + k] = cells[k]
        /\ \/ i \in 1..Len(Output) /\ Output'[i] = Output[i]
           \/ i - Len(Output) \in 1..Len(cells) /\ Output'[i] = cells[i - Len(Output)]
    BY <1>1, <2>1, ConcatCells, SMTT(40)
  <2>3. AppFinish /\ r' = r /\ Output'[i][2] = r =>
            \E k \in 1..Len(Output') : Output'[k] = <<"END", Output'[i][2]>>
    <3> SUFFICES ASSUME AppFinish, r' = r, Output'[i][2] = r
                 PROVE  \E k \in 1..Len(Output') : Output'[k] = <<"END", r>>
      OBVIOUS
    <3>1. Len(cells) >= 1 /\ cells[Len(cells)] = <<"END", r>> /\ Len(cells) \in Nat
      BY <2>1
    <3>2. Len(cells) \in 1..Len(cells)
      BY <3>1
    <3> QED BY <2>2, <3>1, <3>2
  <2>4. CASE i \in 1..Len(Output) /\ Output'[i] = Output[i]
    <3>1. \/ AppFinish /\ r' = r /\ Output'[i][2] = r
          \/ \E j \in 1..Len(Output) : Output[j] = <<"END", Output'[i][2]>>
      BY <1>4, <1>5, <2>4
    <3> QED BY <2>2, <2>3, <3>1
  <2>5. CASE i - Len(Output) \in 1..Len(cells) /\ Output'[i] = cells[i - Len(Output)]
    <3>1. Output'[i][2] = r /\ Serving
      BY <2>1, <2>5 DEF Answers
    <3>2. r' = r /\ Writes
      BY <1>8 DEF Grown
    <3>3. ~Serving'
      BY <3>1, <3>2
    <3>4. pc # "params"
      BY <3>2 DEF Writes, AnswerManagement, AppFlush, AppFinish, At
    <3>5. AppFinish
      BY <1>2, <3>1, <3>3, <3>4 DEF Moves
    <3> QED BY <2>3, <3>1, <3>2, <3>5
  <2> QED BY <2>2, <2>4, <2>5
<1> QED BY <1>6, <1>7, <1>8, OutputSteps

LEMMA AnsweredStep ==
    ASSUME Streams, Streams', TypeOK, Phases, Places, Begun, Answered, [Next]_vars
    PROVE  Answered'
<1>1. TurnPart /\ BegunPart /\ WholePart /\ OpenPart /\ CountPart /\ EndedPart
  BY AnsweredParts
<1>2. TurnPart' /\ BegunPart' /\ WholePart' /\ OpenPart' /\ CountPart' /\ EndedPart'
  BY <1>1, TurnPartStep, BegunPartStep, WholePartStep, OpenPartStep, CountPartStep, EndedPartStep
<1> QED BY <1>2 DEF Answered, TurnPart, BegunPart, WholePart, OpenPart, CountPart, EndedPart

-----------------------------------------------------------------------------
(* An orderly server, and what is left of an input that was read.          *)

LEMMA ReceivedStays ==
    ASSUME Streams, [Next]_vars, NEW kind, NEW q, Received(kind, q)
    PROVE  Received(kind, q)'
<1>1. seen \in Seq(OutCells)
  BY DEF Streams
<1>2. PICK i \in 1..Len(seen) : seen[i] = <<kind, q>>
  BY <1>1 DEF Received
<1>3. CASE ServerReceive
  <2>1. toServer # <<>> /\ seen' = Append(seen, Head(toServer))
    BY <1>3 DEF ServerReceive
  <2>2. Head(toServer) \in OutCells
    BY <2>1 DEF Streams
  <2>3. i \in 1..Len(seen') /\ seen'[i] = seen[i] /\ seen' \in Seq(OutCells)
    BY <1>1, <2>1, <2>2
  <2> QED BY <1>2, <2>3 DEF Received
<1>4. CASE seen' = seen
  BY <1>4 DEF Received
<1>5. ServerReceive \/ seen' = seen
  <2>1. CASE ServerSend \/ ServerClose \/ OSRead \/ OSReadFails \/ AnswerManagement \/ AcceptBegin
    BY <2>1 DEF ServerSend, ServerClose, OSRead, OSReadFails, AnswerManagement, AcceptBegin
  <2>2. CASE AcceptSkips \/ SkipContent \/ AcceptRefuses \/ ReadEnvironment \/ ReadHeader \/ ReadContent
    BY <2>2 DEF AcceptSkips, SkipContent, AcceptRefuses, ReadEnvironment, ReadHeader, ReadContent
  <2>3. CASE ReadRefuses \/ ReadEnd \/ WriteCell \/ WriteFails \/ WriteDone \/ Finish \/ Drain \/ Close
    BY <2>3 DEF ReadRefuses, ReadEnd, WriteCell, WriteFails, WriteDone, Finish, Drain, Close
  <2>4. CASE AppRead \/ AppPut \/ AppFlush \/ AppFinish \/ UNCHANGED vars
    BY <2>4 DEF AppRead, AppPut, AppFlush, AppFinish, vars
  <2> QED BY <2>1, <2>2, <2>3, <2>4 DEF Next, Server, Library, App, Over
<1> QED BY <1>3, <1>4, <1>5

LEMMA ScriptFacts ==
    ASSUME Streams
    PROVE  /\ Sorted(script) /\ EndsFollow(script) /\ BeginsPrecede(script) /\ BeginsFirst(script)
           /\ HeadersFirst(script) /\ Len(script) \in Nat
           /\ \A i \in 1..Len(script) : script[i][2] \in Nat /\ script[i][2] \in 1..setting.requests
                                        /\ script[i] = <<script[i][1], script[i][2]>>
                                        /\ script[i][1] \in InKinds
<1>1. /\ Sorted(script) /\ EndsFollow(script) /\ BeginsPrecede(script) /\ BeginsFirst(script)
      /\ HeadersFirst(script) /\ script \in Seq(InKinds \X (1..setting.requests))
  BY DEF Streams, ScriptShape
<1>2. setting.requests \in Nat
  BY SettingFacts
<1>3. Len(script) \in Nat /\ \A i \in 1..Len(script) : script[i] \in InKinds \X (1..setting.requests)
  BY <1>1, LenProperties, ElementOfSeq
<1>4. \A c \in InKinds \X (1..setting.requests) : c[2] \in Nat /\ c[2] \in 1..setting.requests
                                                  /\ c = <<c[1], c[2]>> /\ c[1] \in InKinds
  BY <1>2
<1> QED BY <1>1, <1>3, <1>4

LEMMA PosMoves ==
    ASSUME [Next]_vars
    PROVE  pos' = pos \/ (ServerSend /\ pos' = pos + 1)
<1> USE DEF server
<1>1. CASE Server
  BY <1>1 DEF Server, ServerSend, ServerReceive, ServerClose
<1>2. CASE Library
  <2>1. CASE OSRead \/ OSReadFails \/ AnswerManagement \/ AcceptBegin \/ AcceptSkips \/ SkipContent
    BY <2>1 DEF OSRead, OSReadFails, AnswerManagement, AcceptBegin, AcceptSkips, SkipContent
  <2>2. CASE AcceptRefuses \/ ReadEnvironment \/ ReadHeader \/ ReadContent \/ ReadRefuses \/ ReadEnd
    BY <2>2 DEF AcceptRefuses, ReadEnvironment, ReadHeader, ReadContent, ReadRefuses, ReadEnd
  <2>3. CASE WriteCell \/ WriteFails \/ WriteDone \/ Finish \/ Drain \/ Close
    BY <2>3 DEF WriteCell, WriteFails, WriteDone, Finish, Drain, Close
  <2> QED BY <1>2, <2>1, <2>2, <2>3 DEF Library
<1>3. CASE App
  BY <1>3 DEF App, AppRead, AppPut, AppFlush, AppFinish
<1>4. CASE UNCHANGED vars
  BY <1>4 DEF vars
<1> QED BY <1>1, <1>2, <1>3, <1>4 DEF Next, Over

LEMMA WaitedStep ==
    ASSUME Streams, TypeOK, Waited, [Next]_vars
    PROVE  Waited'
<1>1. setting' = setting /\ script' = script
  BY ScriptIsConstant
<1> SUFFICES ASSUME ~setting.pipelined, NEW i \in 1..pos', script[i][1] = "BEGIN", NEW q \in 1..script[i][2] - 1
             PROVE  Received("END", q)'
  BY <1>1 DEF Waited
<1>2. pos \in 0..Len(script) /\ Len(script) \in Nat
  BY ScriptFacts DEF TypeOK
<1>3. CASE i \in 1..pos
  BY <1>3, ReceivedStays DEF Waited
<1>4. CASE i \notin 1..pos
  <2>1. ServerSend /\ i = pos + 1 /\ i \in 1..Len(script)
    BY <1>2, <1>4, PosMoves DEF ServerSend
  <2>2. script[i][2] \in Nat
    BY <2>1, ScriptFacts
  <2> DEFINE p == script[i][2] - 1
  <2>3. p \in Nat /\ p >= 1 /\ q \in 1..p /\ p \in 1..script[i][2] /\ script[i][2] > 1 /\ script[i][2] # p
    BY <2>2
  <2>4. Received("END", p)
    BY <2>1, <2>3 DEF ServerSend, MaySend
  <2>5. CASE q = p
    BY <2>4, <2>5, ReceivedStays
  <2>6. CASE q # p
    <3> HIDE DEF p
    <3>1. PICK j \in 1..i : script[j] = <<"BEGIN", p>>
      BY <2>1, <2>3, ScriptFacts DEF BeginsPrecede
    <3>2. j # i
      BY <2>3, <3>1
    <3>3. j \in 1..pos /\ script[j][1] = "BEGIN" /\ q \in 1..script[j][2] - 1
      BY <1>2, <2>1, <2>3, <2>6, <3>1, <3>2
    <3>4. Received("END", q)
      BY <3>3 DEF Waited
    <3> QED BY <3>4, ReceivedStays
  <2> QED BY <2>5, <2>6
<1> QED BY <1>3, <1>4

LEMMA UnharmedStep ==
    ASSUME TypeOK, Unharmed, [Next]_vars
    PROVE  Unharmed'
<1> USE DEF server, reader, writer
<1>0. setting' = setting
  BY ScriptIsConstant
<1>1. CASE ServerSend
  BY <1>0, <1>1 DEF ServerSend, Unharmed
<1>2. CASE Close
  BY <1>0, <1>2 DEF Close, Unharmed
<1>3. CASE reset' = reset /\ (pc' = "closed" => pc = "closed") /\ (serverShut => serverShut')
  BY <1>0, <1>3 DEF Unharmed
<1>4. \/ ServerSend \/ Close
      \/ reset' = reset /\ (pc' = "closed" => pc = "closed") /\ (serverShut => serverShut')
  <2>1. CASE ServerReceive \/ ServerClose \/ OSRead \/ OSReadFails
    BY <2>1 DEF ServerReceive, ServerClose, OSRead, OSReadFails, BeginClose
  <2>2. CASE AnswerManagement \/ AcceptBegin \/ AcceptSkips \/ SkipContent \/ AcceptRefuses
    BY <2>2 DEF AnswerManagement, Write, AcceptBegin, AcceptSkips, SkipContent, AcceptRefuses, BeginClose
  <2>3. CASE ReadEnvironment \/ ReadHeader \/ ReadContent \/ ReadRefuses \/ ReadEnd
    BY <2>3 DEF ReadEnvironment, ReadHeader, ReadContent, ReadRefuses, ReadEnd
  <2>4. CASE WriteCell \/ Drain \/ Finish
    BY <2>4 DEF WriteCell, Drain, Finish, BeginClose
  <2>5. CASE WriteFails \/ WriteDone
    <3>1. back \in {"accept", "app", "read", "finish"}
      BY DEF TypeOK
    <3> QED BY <2>5, <3>1 DEF WriteFails, WriteDone, BeginClose
  <2>6. CASE AppRead \/ AppPut \/ AppFlush \/ AppFinish \/ UNCHANGED vars
    BY <2>6 DEF AppRead, AppPut, AppFlush, AppFinish, Write, vars
  <2> QED BY <2>1, <2>2, <2>3, <2>4, <2>5, <2>6 DEF Next, Server, Library, App, Over
<1> QED BY <1>1, <1>2, <1>3, <1>4

\* Where the library moves on in the script and is not closing.
LEMMA BaseMoves ==
    ASSUME Streams, TypeOK, Phases, Places, [Next]_vars
    PROVE  \/ Base' = Base
           \/ Consumes /\ Base' = Base + 1 /\ unread # <<>> /\ script[Base + 1] = Head(unread)
                       /\ Base + 1 \in 1..Len(script)
           \/ Finish /\ Base' = Base + Len(unread)
           \/ pc' \in {"drain", "closed"}
<1> USE DEF server, reader, writer
<1>1. CASE Consumes
  BY <1>1, PlacesStep, HeadFacts
<1>2. CASE Finish
  BY <1>2, PlacesStep DEF Drops
<1>3. CASE AcceptRefuses
  BY <1>3 DEF AcceptRefuses, BeginClose
<1>4. CASE OSReadFails
  <2>1. pc' = "drain" \/ UNCHANGED <<unread, toApp, pos>>
    BY <1>4 DEF OSReadFails, BeginClose
  <2> QED BY <2>1 DEF Base
<1>5. CASE WriteFails
  <2>1. pc' = "drain" \/ UNCHANGED <<unread, toApp, pos>>
    BY <1>5 DEF WriteFails, BeginClose
  <2> QED BY <2>1 DEF Base
<1>6. CASE Pauses
  BY <1>6, PlacesStep DEF Stays
<1>7. CASE OSRead
  BY <1>7, ReadMoves
<1>8. CASE ServerSend
  <2>1. pc' = pc
    BY <1>8 DEF ServerSend
  <2> QED BY <1>8, <2>1, SendMoves
<1>9. CASE Drain
  BY <1>9 DEF Drain
<1> QED BY <1>1, <1>2, <1>3, <1>4, <1>5, <1>6, <1>7, <1>8, <1>9
        DEF Next, Server, Library, Over, Consumes, Pauses

\* The parts of Drained.
ErrorPart == writeError => serverShut
AheadPart == Serving /\ ~isClosed => \E i \in Base + 1..Len(script) : script[i] = <<"EOF", r>>
EndPart == Serving /\ isClosed /\ ~readError => AtEnd
FlagPart == Finishing => (drained <=> isClosed /\ ~readError)
FinishPart == Finishing /\ drained => AtEnd
LeftPart == Finishing /\ ~setting.pipelined => \A i \in 1..Len(unread) : unread[i][2] <= r
NextPart == ~setting.pipelined /\ drained =>
    /\ pc = "accept" => (Base = 0 \/ script[Base][1] = "EOF") /\ ~skip /\ contentLen = 0
    /\ pc = "write" => back # "accept"

LEMMA DrainedParts ==
    Drained <=> ErrorPart /\ AheadPart /\ EndPart /\ FlagPart /\ FinishPart /\ LeftPart /\ NextPart
BY DEF Drained, ErrorPart, AheadPart, EndPart, FlagPart, FinishPart, LeftPart, NextPart

LEMMA ErrorPartStep ==
    ASSUME TypeOK, Phases, ErrorPart, [Next]_vars
    PROVE  ErrorPart'
<1> USE DEF server, reader, writer
<1>1. Moves
  BY ControlMoves
<1>2. CASE WriteFails
  <2>1. serverShut /\ serverShut' = serverShut
    BY <1>2 DEF WriteFails
  <2> QED BY <2>1 DEF ErrorPart
<1>3. CASE writeError' = writeError \/ writeError' = FALSE
  BY <1>1, <1>3 DEF Moves, ErrorPart
<1>4. WriteFails \/ writeError' = writeError \/ writeError' = FALSE
  <2>1. CASE ServerSend \/ ServerReceive \/ ServerClose \/ OSRead \/ OSReadFails \/ AnswerManagement
    BY <2>1 DEF ServerSend, ServerReceive, ServerClose, OSRead, OSReadFails, AnswerManagement
  <2>2. CASE AcceptBegin \/ AcceptSkips \/ SkipContent \/ AcceptRefuses \/ ReadEnvironment
    BY <2>2 DEF AcceptBegin, AcceptSkips, SkipContent, AcceptRefuses, ReadEnvironment
  <2>3. CASE ReadHeader \/ ReadContent \/ ReadRefuses \/ ReadEnd \/ WriteCell \/ WriteDone
    BY <2>3 DEF ReadHeader, ReadContent, ReadRefuses, ReadEnd, WriteCell, WriteDone
  <2>4. CASE Finish \/ Drain \/ Close \/ AppRead \/ AppPut \/ AppFlush \/ AppFinish \/ UNCHANGED vars
    BY <2>4 DEF Finish, Drain, Close, AppRead, AppPut, AppFlush, AppFinish, vars
  <2> QED BY <2>1, <2>2, <2>3, <2>4 DEF Next, Server, Library, App, Over
<1> QED BY <1>2, <1>3, <1>4

\* What a step of the library that serves a request consumes, and how the flags of its input move.
Inputs ==
    /\ Serving /\ Serving' => pc' \notin {"drain", "closed"} /\ ~Finish
    /\ Serving' /\ ~isClosed' => ~isClosed \/ AcceptBegin
    /\ isClosed' /\ ~readError' => ReadEnd \/ (isClosed /\ ~readError)
    /\ Serving /\ isClosed => ~Consumes
    /\ Serving /\ Consumes => AnswerManagement \/ ReadEnvironment \/ ReadHeader \/ ReadContent
                              \/ ReadRefuses \/ ReadEnd
    /\ ReadEnd => Serving /\ ~isClosed
    /\ ReadRefuses => isClosed'
    /\ ReadEnd => isClosed'
    /\ AcceptBegin => ~isClosed' /\ ~readError'

LEMMA InputMoves ==
    ASSUME TypeOK, Phases, [Next]_vars
    PROVE  Inputs
<1> USE DEF server, reader, writer
<1>0. back \in {"accept", "app", "read", "finish"}
  BY DEF TypeOK
<1>1. Serving /\ Serving' => pc' \notin {"drain", "closed"} /\ ~Finish
  BY DEF Serving, Finish
<1>2. ReadRefuses \/ ReadEnd => isClosed'
  BY DEF ReadRefuses, ReadEnd
<1>3. AcceptBegin => ~isClosed' /\ ~readError'
  BY DEF AcceptBegin
<1>4. ReadEnd => Serving /\ ~isClosed
  BY DEF ReadEnd, Serving, At, Phases
<1>5. Serving /\ isClosed => pc = "app" \/ (pc = "write" /\ back = "app")
  BY DEF Serving, Phases
<1>6. pc = "app" \/ pc = "write" => ~Consumes
  BY DEF Consumes, AnswerManagement, AcceptBegin, AcceptSkips, SkipContent, ReadEnvironment, ReadHeader,
     ReadContent, ReadRefuses, ReadEnd, At
<1>7. Serving => ~AcceptBegin /\ ~AcceptSkips /\ ~SkipContent
  BY DEF Serving, AcceptBegin, AcceptSkips, SkipContent, At
<1>8. Serving' /\ ~isClosed' => ~isClosed \/ AcceptBegin
  <2>1. CASE OSReadFails
    BY <2>1 DEF OSReadFails, Serving, BeginClose, Phases
  <2>2. CASE ServerSend \/ ServerReceive \/ ServerClose \/ OSRead \/ AnswerManagement
    BY <2>2 DEF ServerSend, ServerReceive, ServerClose, OSRead, AnswerManagement
  <2>3. CASE AcceptSkips \/ SkipContent \/ AcceptRefuses \/ ReadEnvironment
    BY <2>3 DEF AcceptSkips, SkipContent, AcceptRefuses, ReadEnvironment
  <2>4. CASE ReadHeader \/ ReadContent \/ ReadRefuses \/ ReadEnd \/ WriteCell \/ WriteDone
    BY <2>4 DEF ReadHeader, ReadContent, ReadRefuses, ReadEnd, WriteCell, WriteDone
  <2>5. CASE Finish \/ Drain \/ Close \/ AppRead \/ AppPut \/ AppFlush \/ AppFinish \/ UNCHANGED vars
    BY <2>5 DEF Finish, Drain, Close, AppRead, AppPut, AppFlush, AppFinish, vars
  <2>6. CASE WriteFails
    BY <2>6 DEF WriteFails
  <2> QED BY <2>1, <2>2, <2>3, <2>4, <2>5, <2>6 DEF Next, Server, Library, App, Over
<1>9. isClosed' /\ ~readError' => ReadEnd \/ (isClosed /\ ~readError)
  <2>1. CASE OSReadFails
    BY <2>1 DEF OSReadFails
  <2>2. CASE ServerSend \/ ServerReceive \/ ServerClose \/ OSRead \/ AnswerManagement
    BY <2>2 DEF ServerSend, ServerReceive, ServerClose, OSRead, AnswerManagement
  <2>3. CASE AcceptBegin \/ AcceptSkips \/ SkipContent \/ AcceptRefuses \/ ReadEnvironment
    BY <2>3 DEF AcceptBegin, AcceptSkips, SkipContent, AcceptRefuses, ReadEnvironment
  <2>4. CASE ReadHeader \/ ReadContent \/ ReadRefuses \/ ReadEnd \/ WriteCell \/ WriteDone
    BY <2>4 DEF ReadHeader, ReadContent, ReadRefuses, WriteCell, WriteDone
  <2>5. CASE Finish \/ Drain \/ Close \/ AppRead \/ AppPut \/ AppFlush \/ AppFinish \/ UNCHANGED vars
    BY <2>5 DEF Finish, Drain, Close, AppRead, AppPut, AppFlush, AppFinish, vars
  <2>6. CASE WriteFails
    BY <2>6 DEF WriteFails
  <2> QED BY <2>1, <2>2, <2>3, <2>4, <2>5, <2>6 DEF Next, Server, Library, App, Over
<1>10. Serving /\ isClosed => ~Consumes
  BY <1>5, <1>6
<1>11. Serving /\ Consumes => AnswerManagement \/ ReadEnvironment \/ ReadHeader \/ ReadContent
                              \/ ReadRefuses \/ ReadEnd
  BY <1>7 DEF Consumes
<1> HIDE DEF Consumes
<1> QED BY <1>1, <1>2, <1>3, <1>4, <1>8, <1>9, <1>10, <1>11 DEF Inputs

LEMMA AheadPartStep ==
    ASSUME Streams, TypeOK, Phases, Places, HeaderRead, AheadPart, [Next]_vars
    PROVE  AheadPart'
<1> SUFFICES ASSUME Serving', ~isClosed'
             PROVE  \E i \in Base' + 1..Len(script) : script[i] = <<"EOF", r'>>
  BY ScriptIsConstant DEF AheadPart
<1>1. Base \in Nat /\ Len(script) \in Nat /\ Moves /\ Inputs
  BY BaseGrows, ScriptFacts, ControlMoves, InputMoves
<1>2. CASE AcceptBegin
  <2>1. unread # <<>> /\ Base' = Base + 1 /\ Head(unread)[1] = "BEGIN" /\ r' = Head(unread)[2]
    BY <1>2, PlacesStep DEF Consumes, AcceptBegin, At
  <2>2. script[Base + 1] = <<"BEGIN", r'>> /\ Base + 1 \in 1..Len(script)
    BY <2>1, HeadFacts
  <2> HIDE DEF Base
  <2>3. \E j \in (Base + 1) + 1..Len(script) : script[j] = <<"EOF", r'>>
    <3>1. EndsFollow(script)
      BY ScriptFacts
    <3> DEFINE b == Base + 1
    <3>2. b \in 1..Len(script) /\ script[b][1] = "BEGIN" /\ script[b][2] = r'
      BY ONLY <2>2
    <3> HIDE DEF b
    <3>3. \E j \in b + 1..Len(script) : script[j] = <<"EOF", r'>>
      BY ONLY <3>1, <3>2 DEF EndsFollow
    <3> QED BY ONLY <3>3 DEF b
  <2> QED BY <2>1, <2>3
<1>3. CASE ~AcceptBegin
  <2>1. Serving /\ ~isClosed /\ r' = r
    BY <1>1, <1>3 DEF Moves, Inputs
  <2>2. PICK i \in Base + 1..Len(script) : script[i] = <<"EOF", r>>
    BY <2>1 DEF AheadPart
  <2>3. CASE Base' = Base
    <3> HIDE DEF Base
    <3> QED BY <2>1, <2>2, <2>3
  <2>4. CASE Consumes /\ Base' = Base + 1 /\ unread # <<>> /\ script[Base + 1] = Head(unread)
             /\ Base + 1 \in 1..Len(script)
    <3>1. AnswerManagement \/ ReadEnvironment \/ ReadHeader \/ ReadContent
      BY <1>1, <2>1, <2>4 DEF Inputs
    <3>2. script[Base + 1][1] # "EOF"
      <4>1. CASE AnswerManagement \/ ReadEnvironment \/ ReadHeader
        <5>1. Head(unread)[1] \in {"MGMT", "PARAMS", "STDIN"}
          BY <4>1 DEF AnswerManagement, ReadEnvironment, ReadHeader, At
        <5> QED BY <2>4, <5>1
      <4>2. CASE ReadContent
        <5>1. Base >= 1 /\ script[Base][1] = "STDIN"
          BY <4>2 DEF ReadContent, HeaderRead
        <5> HIDE DEF Base
        <5>2. Base \in 1..Len(script)
          BY <1>1, <2>4, <5>1
        <5>3. script[Base + 1][1] = "data"
          BY <5>1, <5>2, ScriptFacts DEF HeadersFirst
        <5> QED BY <5>3
      <4> QED BY <3>1, <4>1, <4>2
    <3> HIDE DEF Base
    <3>3. i # Base + 1
      BY <2>2, <3>2
    <3>4. i \in Base' + 1..Len(script)
      BY <1>1, <2>2, <2>4, <3>3
    <3> QED BY <2>1, <2>2, <3>4
  <2>5. ~Finish /\ pc' \notin {"drain", "closed"}
    BY <1>1, <2>1 DEF Inputs
  <2> QED BY <2>3, <2>4, <2>5, BaseMoves
<1> QED BY <1>2, <1>3

LEMMA EndPartStep ==
    ASSUME Streams, TypeOK, Phases, Places, Begun, AheadPart, EndPart, [Next]_vars
    PROVE  EndPart'
<1> SUFFICES ASSUME Serving', isClosed', ~readError' PROVE Base' >= 1 /\ script[Base'] = <<"EOF", r'>>
  BY ScriptIsConstant DEF EndPart, AtEnd
<1>1. Base \in Nat /\ Len(script) \in Nat /\ Moves /\ Inputs
  BY BaseGrows, ScriptFacts, ControlMoves, InputMoves
<1>2. Serving /\ ~AcceptBegin /\ r' = r
  BY <1>1 DEF Moves, Inputs
<1>3. ~Finish /\ pc' \notin {"drain", "closed"}
  BY <1>1, <1>2 DEF Inputs
<1>4. CASE ReadEnd
  <2>1. unread # <<>> /\ Base' = Base + 1 /\ Head(unread)[1] = "EOF" /\ ~isClosed
    BY <1>1, <1>4, PlacesStep DEF Consumes, ReadEnd, At, Inputs
  <2>2. script[Base + 1][1] = "EOF" /\ Base + 1 \in 1..Len(script)
    BY <2>1, HeadFacts
  <2>3. PICK i \in Base + 1..Len(script) : script[i] = <<"EOF", r>>
    BY <1>2, <2>1 DEF AheadPart
  <2>4. r \in Nat /\ r >= 1
    BY <1>2, SettingFacts DEF Phases, TypeOK
  <2>5. PICK k \in 1..Base : script[k] = <<"BEGIN", r>>
    BY <2>4 DEF Begun
  <2> HIDE DEF Base
  <2>6. k \in 1..Len(script) /\ k < Base + 1 /\ i \in 1..Len(script) /\ i >= Base + 1
    BY <1>1, <2>2, <2>3, <2>5
  <2>7. script[k][2] <= script[Base + 1][2]
    BY <2>2, <2>6, ScriptFacts DEF Sorted
  <2>8. script[Base + 1][2] \in Nat
    BY <2>2, ScriptFacts
  <2>9. i = Base + 1
    <3>1. SUFFICES ASSUME Base + 1 < i PROVE FALSE
      BY <2>6, <1>1
    <3>2. script[Base + 1][2] < script[i][2]
      BY <2>2, <2>6, <3>1, ScriptFacts DEF Sorted
    <3> QED BY <2>3, <2>4, <2>5, <2>7, <2>8, <3>2
  <2> QED BY <1>1, <1>2, <2>1, <2>3, <2>9
<1>5. CASE ~ReadEnd
  <2>1. isClosed /\ ~readError
    BY <1>1, <1>5 DEF Inputs
  <2>2. ~Consumes
    BY <1>1, <1>2, <2>1 DEF Inputs
  <2>3. Base' = Base
    BY <1>3, <2>2, BaseMoves
  <2> HIDE DEF Base
  <2> QED BY <1>2, <2>1, <2>3 DEF EndPart, AtEnd
<1> QED BY <1>4, <1>5

\* The steps that stay where they are in the script, unless they begin to close.
Quiet == ServerSend \/ OSRead \/ OSReadFails \/ WriteFails \/ Pauses

LEMMA QuietStays ==
    ASSUME Streams, TypeOK, Phases, Places, [Next]_vars, Quiet, pc' \notin {"drain", "closed"}
    PROVE  Base' = Base
<1> USE DEF server, reader, writer
<1>1. CASE OSReadFails
  <2>1. UNCHANGED <<unread, toApp, pos>>
    BY <1>1 DEF OSReadFails, BeginClose
  <2> QED BY <2>1 DEF Base
<1>2. CASE WriteFails
  <2>1. UNCHANGED <<unread, toApp, pos>>
    BY <1>2 DEF WriteFails, BeginClose
  <2> QED BY <2>1 DEF Base
<1>3. CASE Pauses
  BY <1>3, PlacesStep DEF Stays
<1>4. CASE OSRead
  BY <1>4, ReadMoves
<1>5. CASE ServerSend
  <2>1. pc' = pc
    BY <1>5 DEF ServerSend
  <2> QED BY <1>5, <2>1, SendMoves
<1> QED BY <1>1, <1>2, <1>3, <1>4, <1>5 DEF Quiet

\* How FCGX_Finish_r begins and goes on, and how the accept loop is reached.
Endings ==
    /\ Finishing' => \/ /\ AppFinish /\ Serving /\ drained' = (isClosed /\ ~readError)
                        /\ UNCHANGED <<r, unread, isClosed, readError>>
                     \/ Finishing /\ UNCHANGED <<r, unread, isClosed, readError, drained>>
    /\ Finishing' => Quiet /\ pc' \notin {"drain", "closed"}
    /\ drained' = drained \/ Finishing'
    /\ Finishing' /\ pc' = "write" => back' # "accept"
    /\ Finish => Finishing /\ drained' = drained
    /\ pc' = "accept" => \/ (Finish /\ ~skip' /\ contentLen' = 0)
                         \/ AcceptSkips \/ SkipContent \/ (pc = "write" /\ back = "accept")
                         \/ pc = "accept" /\ UNCHANGED <<skip, contentLen>> /\ Quiet
    /\ pc' = "write" => \/ AnswerManagement /\ pc = "accept"
                        \/ pc = "write" /\ back' = back
                        \/ back' # "accept"

LEMMA EndingMoves ==
    ASSUME TypeOK, Phases, [Next]_vars
    PROVE  Endings
<1> USE DEF server, reader, writer
<1>0. back \in {"accept", "app", "read", "finish"}
  BY DEF TypeOK
<1>1. CASE ServerSend \/ ServerReceive \/ ServerClose
  <2>1. UNCHANGED <<pc, back, r, unread, isClosed, readError, drained, skip, contentLen>>
    BY <1>1 DEF ServerSend, ServerReceive, ServerClose
  <2>2. Quiet
    BY <1>1 DEF Quiet, Pauses
  <2> HIDE DEF Quiet
  <2> QED BY <2>1, <2>2 DEF Endings, Finishing, Finish
<1>2. CASE OSRead \/ Close \/ Drain \/ UNCHANGED vars
  <2>1. UNCHANGED <<back, r, isClosed, readError, drained, skip, contentLen>>
    BY <1>2 DEF OSRead, Close, Drain, vars
  <2>2. Quiet \/ Drain
    BY <1>2 DEF Quiet, Pauses
  <2>3. OSRead => UNCHANGED pc /\ pc \in {"accept", "params", "read"}
    BY DEF OSRead, Reading
  <2>4. Close => pc' = "closed" /\ pc = "drain"
    BY DEF Close
  <2>5. Drain => pc' = "drain" /\ pc = "drain"
    BY DEF Drain
  <2>6. UNCHANGED vars => UNCHANGED <<pc, unread>>
    BY DEF vars
  <2> HIDE DEF Quiet
  <2> QED BY <1>2, <2>1, <2>2, <2>3, <2>4, <2>5, <2>6 DEF Endings, Finishing, Finish
<1>3. CASE OSReadFails
  <2>1. /\ pc' \in {"drain", "app"} /\ drained' = drained /\ pc \in {"accept", "params", "read"}
    BY <1>3 DEF OSReadFails, BeginClose, Reading
  <2> QED BY <2>1 DEF Endings, Finishing, Finish
<1>4. CASE AnswerManagement
  <2>1. pc' = "write" /\ back' = pc /\ pc \in {"accept", "read"} /\ drained' = drained
    BY <1>4 DEF AnswerManagement, At, Write
  <2> QED BY <1>4, <2>1 DEF Endings, Finishing, Finish
<1>5. CASE AcceptBegin \/ AcceptSkips \/ SkipContent \/ AcceptRefuses
  <2>1. /\ pc' \in {"params", "accept", "drain"} /\ drained' = drained /\ pc = "accept"
        /\ pc' = "accept" => AcceptSkips \/ SkipContent
    BY <1>5 DEF AcceptBegin, AcceptSkips, SkipContent, AcceptRefuses, At, BeginClose
  <2> QED BY <2>1 DEF Endings, Finishing, Finish
<1>6. CASE ReadEnvironment \/ ReadHeader \/ ReadContent \/ ReadRefuses \/ ReadEnd
  <2>1. pc' \in {"app", "read"} /\ drained' = drained /\ pc \in {"params", "read"}
    BY <1>6 DEF ReadEnvironment, ReadHeader, ReadContent, ReadRefuses, ReadEnd, At
  <2> QED BY <2>1 DEF Endings, Finishing, Finish
<1>7. CASE WriteCell
  <2>1. /\ pc = "write" /\ UNCHANGED <<pc, back, r, unread, isClosed, readError, drained>>
        /\ Quiet
    BY <1>7 DEF WriteCell, Quiet, Pauses
  <2> HIDE DEF Quiet
  <2> QED BY <2>1 DEF Endings, Finishing, Finish
<1>8. CASE WriteDone
  <2>1. /\ pc = "write" /\ pc' = back /\ UNCHANGED <<back, r, unread, isClosed, readError, drained>>
        /\ Quiet
    BY <1>8 DEF WriteDone, Quiet, Pauses
  <2> HIDE DEF Quiet
  <2> QED BY <1>0, <2>1 DEF Endings, Finishing, Finish
<1>9. CASE WriteFails
  <2>1. pc = "write" /\ UNCHANGED <<back, r, drained>> /\ Quiet
    BY <1>9 DEF WriteFails, Quiet
  <2>2. back = "accept" => pc' = "drain"
    BY <1>9 DEF WriteFails, BeginClose
  <2>3. back = "read" => pc' = "app"
    BY <1>9 DEF WriteFails
  <2>4. back \in {"app", "finish"} => pc' = back /\ UNCHANGED <<unread, isClosed, readError>>
    BY <1>9 DEF WriteFails
  <2> HIDE DEF Quiet
  <2> QED BY <1>0, <2>1, <2>2, <2>3, <2>4 DEF Endings, Finishing, Finish
<1>10. CASE Finish
  <2>1. pc = "finish" /\ drained' = drained
    BY <1>10 DEF Finish
  <2>2. pc' \in {"drain", "accept"} /\ (pc' = "accept" => ~skip' /\ contentLen' = 0)
    BY <1>10 DEF Finish, BeginClose
  <2> QED BY <1>10, <2>1, <2>2 DEF Endings, Finishing
<1>11. CASE AppRead \/ AppPut
  <2>1. pc' \in {"read", "app"} /\ pc = "app" /\ drained' = drained
    BY <1>11 DEF AppRead, AppPut
  <2> QED BY <2>1 DEF Endings, Finishing, Finish
<1>12. CASE AppFlush
  <2>1. pc' = "write" /\ back' = "app" /\ pc = "app" /\ drained' = drained
    BY <1>12 DEF AppFlush, Write
  <2> QED BY <2>1 DEF Endings, Finishing, Finish
<1>13. CASE AppFinish
  <2>1. /\ pc' = "write" /\ back' = "finish" /\ pc = "app" /\ drained' = (isClosed /\ ~readError)
        /\ UNCHANGED <<r, unread, isClosed, readError>>
    BY <1>13 DEF AppFinish, Write
  <2>2. Quiet /\ Serving
    BY <1>13, <2>1 DEF Quiet, Pauses, App, Serving
  <2> HIDE DEF Quiet
  <2> QED BY <1>13, <2>1, <2>2 DEF Endings, Finishing, Finish
<1> QED BY <1>1, <1>2, <1>3, <1>4, <1>5, <1>6, <1>7, <1>8, <1>9, <1>10, <1>11, <1>12, <1>13
        DEF Next, Server, Library, App, Over

LEMMA FlagPartStep ==
    ASSUME TypeOK, Phases, FlagPart, [Next]_vars
    PROVE  FlagPart'
<1>1. Endings
  BY EndingMoves
<1>2. isClosed \in BOOLEAN /\ readError \in BOOLEAN /\ drained \in BOOLEAN
  BY TypeParts DEF FlagTypes
<1> QED BY <1>1, <1>2 DEF Endings, FlagPart

LEMMA FinishPartStep ==
    ASSUME Streams, TypeOK, Phases, Places, EndPart, FinishPart, [Next]_vars
    PROVE  FinishPart'
<1> SUFFICES ASSUME Finishing', drained' PROVE AtEnd'
  BY DEF FinishPart
<1>1. Endings
  BY EndingMoves
<1>2. Base' = Base
  BY <1>1, QuietStays DEF Endings
<1>3. AtEnd /\ r' = r
  BY <1>1 DEF Endings, EndPart, FinishPart
<1> HIDE DEF Base
<1> QED BY <1>2, <1>3, ScriptIsConstant DEF AtEnd

LEMMA LeftPartStep ==
    ASSUME Streams, TypeOK, Phases, Places, OpenPart, Waited, LeftPart, [Next]_vars
    PROVE  LeftPart'
<1> SUFFICES ASSUME Finishing', ~setting.pipelined, NEW i \in 1..Len(unread') PROVE unread'[i][2] <= r'
  BY ScriptIsConstant DEF LeftPart
<1>1. Endings
  BY EndingMoves
<1>2. unread' = unread /\ r' = r
  BY <1>1 DEF Endings
<1>3. CASE Finishing
  BY <1>2, <1>3 DEF LeftPart
<1>4. CASE Serving
  <2>1. /\ Base \in Nat /\ Len(unread) \in Nat /\ pos = Base + Len(unread) + Len(toApp)
        /\ pos \in 0..Len(script) /\ Len(script) \in Nat /\ Len(toApp) \in Nat
        /\ r \in Nat /\ r >= 1
    BY <1>4, PlacesFacts, SettingFacts DEF Phases, TypeOK
  <2>2. unread[i] = script[Base + i]
    BY <1>2 DEF Places
  <2> HIDE DEF Base
  <2> DEFINE k == Base + i
  <2>3. k \in 1..Len(script) /\ k \in 1..pos
    BY <1>2, <2>1
  <2> HIDE DEF k
  <2>4. script[k][2] \in Nat
    BY <2>3, ScriptFacts
  <2>5. SUFFICES ASSUME script[k][2] > r PROVE FALSE
    BY <1>2, <2>1, <2>2, <2>4 DEF k
  <2>6. PICK j \in 1..k : script[j] = <<"BEGIN", script[k][2]>>
    <3>1. script[k][2] \in 1..script[k][2]
      BY <2>1, <2>4, <2>5
    <3> QED BY <2>3, <3>1, ScriptFacts DEF BeginsPrecede
  <2>7. j \in 1..pos /\ script[j][1] = "BEGIN" /\ r \in 1..script[j][2] - 1
    BY <2>1, <2>3, <2>4, <2>5, <2>6
  <2>8. Received("END", r)
    BY <2>7 DEF Waited
  <2>9. seen \in Seq(OutCells) /\ Starts(seen, Output) /\ Len(Output) \in Nat
    BY OutputType DEF Streams
  <2>10. PICK n \in 1..Len(seen) : seen[n] = <<"END", r>>
    BY <2>8, <2>9 DEF Received
  <2>11. n \in 1..Len(Output) /\ Output[n] = <<"END", r>>
    BY <2>9, <2>10 DEF Starts
  <2> QED BY <1>4, <2>11 DEF OpenPart
<1> QED BY <1>1, <1>3, <1>4 DEF Endings

\* Behind the end of a request there is nothing but a BEGIN.
LEMMA NextIsBegin ==
    ASSUME Streams, TypeOK, Places, Base = 0 \/ script[Base][1] = "EOF", unread # <<>>
    PROVE  Head(unread)[1] = "BEGIN"
<1>1. script[Base + 1] = Head(unread) /\ Base + 1 \in 1..Len(script) /\ Base \in Nat
  BY HeadFacts, PlacesFacts
<1> HIDE DEF Base
<1> QED BY <1>1, ScriptFacts DEF BeginsFirst

LEMMA NextPartStep ==
    ASSUME Streams, TypeOK, Phases, Places, FinishPart, LeftPart, NextPart, [Next]_vars
    PROVE  NextPart'
<1> SUFFICES ASSUME ~setting.pipelined, drained'
             PROVE  /\ pc' = "accept" => /\ Base' = 0 \/ script[Base'][1] = "EOF"
                                         /\ ~skip' /\ contentLen' = 0
                    /\ pc' = "write" => back' # "accept"
  BY ScriptIsConstant DEF NextPart
<1>1. Endings
  BY EndingMoves
<1>2. CASE Finishing'
  BY <1>1, <1>2 DEF Endings, Finishing
<1>3. CASE ~Finishing'
  <2>1. drained
    BY <1>1, <1>3 DEF Endings
  <2>2. pc = "accept" => (Base = 0 \/ script[Base][1] = "EOF") /\ ~skip /\ contentLen = 0
    BY <2>1 DEF NextPart
  <2>3. ~(pc = "write" /\ back = "accept")
    BY <2>1 DEF NextPart
  <2>4. ~AnswerManagement \/ pc # "accept"
    <3>1. AnswerManagement /\ pc = "accept" => unread # <<>> /\ Head(unread)[1] = "MGMT"
      BY DEF AnswerManagement, At
    <3> HIDE DEF Base
    <3> QED BY <2>2, <3>1, NextIsBegin DEF Base
  <2>5. ~AcceptSkips
    <3>1. AcceptSkips => pc = "accept" /\ unread # <<>> /\ Head(unread)[1] # "BEGIN"
      BY DEF AcceptSkips, At, Foreign
    <3> QED BY <2>2, <3>1, NextIsBegin
  <2>6. ~SkipContent
    <3>1. SkipContent => pc = "accept" /\ contentLen = 1
      BY DEF SkipContent
    <3>2. pc = "accept" => contentLen = 0
      BY <2>2
    <3> QED BY <3>1, <3>2
  <2>7. pc' = "write" => back' # "accept"
    BY <1>1, <2>3, <2>4 DEF Endings
  <2>8. CASE pc' = "accept" /\ Finish
    <3>1. ~skip' /\ contentLen' = 0
      BY <2>8 DEF Finish, BeginClose
    <3>2. AtEnd /\ Finishing
      BY <1>1, <2>1, <2>8 DEF Endings, FinishPart
    <3>3. unread = <<>>
      <4>1. SUFFICES ASSUME unread # <<>> PROVE FALSE
        OBVIOUS
      <4>2. script[Base + 1] = Head(unread) /\ Base + 1 \in 1..Len(script) /\ Base \in Nat
            /\ Base >= 1 /\ script[Base] = <<"EOF", r>>
        BY <3>2, <4>1, HeadFacts, PlacesFacts DEF AtEnd
      <4>3. Len(unread) >= 1 /\ Head(unread) = unread[1] /\ Len(unread) \in Nat
        BY <4>1, ReaderMoves
      <4>4. Head(unread)[2] <= r
        BY <3>2, <4>3 DEF LeftPart
      <4> HIDE DEF Base
      <4>5. script[Base][2] < script[Base + 1][2]
        <5>1. Base \in 1..Len(script) /\ Base < Base + 1
          BY <4>2
        <5> QED BY <4>2, <5>1, ScriptFacts DEF Sorted
      <4>6. r \in Nat /\ script[Base + 1][2] \in Nat
        <5>1. \A i \in 1..Len(script) : script[i][2] \in Nat
          BY ScriptFacts
        <5>2. r \in Nat
          BY SettingFacts DEF TypeOK
        <5> QED BY ONLY <4>2, <5>1, <5>2
      <4> QED BY <4>2, <4>4, <4>5, <4>6
    <3>4. Base' = Base + Len(unread) /\ Len(unread) = 0 /\ Base \in Nat
      BY <2>8, <3>3, PlacesStep, PlacesFacts DEF Drops
    <3> HIDE DEF Base
    <3>5. Base' = Base
      BY <3>4
    <3> QED BY <2>8, <3>1, <3>2, <3>5 DEF AtEnd
  <2>9. CASE pc' = "accept" /\ pc = "accept" /\ UNCHANGED <<skip, contentLen>> /\ Quiet
    <3>1. Base' = Base
      BY <2>9, QuietStays
    <3> HIDE DEF Base
    <3> QED BY <2>2, <2>9, <3>1
  <2>10. pc' = "accept" => \/ Finish
                           \/ pc = "accept" /\ UNCHANGED <<skip, contentLen>> /\ Quiet
    BY <1>1, <2>3, <2>5, <2>6 DEF Endings
  <2> QED BY <2>7, <2>8, <2>9, <2>10
<1> QED BY <1>2, <1>3

LEMMA DrainedStep ==
    ASSUME Streams, TypeOK, Phases, Position, Answered, Waited, Drained, [Next]_vars
    PROVE  Drained'
<1>1. Places /\ Begun /\ HeaderRead /\ OpenPart
  BY PositionParts, AnsweredParts
<1>2. ErrorPart /\ AheadPart /\ EndPart /\ FlagPart /\ FinishPart /\ LeftPart /\ NextPart
  BY DrainedParts
<1>3. ErrorPart' /\ AheadPart' /\ EndPart' /\ FlagPart' /\ FinishPart' /\ LeftPart' /\ NextPart'
  BY <1>1, <1>2, ErrorPartStep, AheadPartStep, EndPartStep, FlagPartStep, FinishPartStep, LeftPartStep,
     NextPartStep
<1> QED BY <1>3 DEF Drained, ErrorPart, AheadPart, EndPart, FlagPart, FinishPart, LeftPart, NextPart

-----------------------------------------------------------------------------
(* The invariant holds.                                                    *)

LEMMA InitialInvariant == Init => ConnectionInv
<1> SUFFICES ASSUME Init PROVE ConnectionInv
  OBVIOUS
<1> DEFINE n == setting.requests
<1>1. setting \in Settings /\ n \in Nat /\ n \in 0..MaxRequests /\ setting.puts \in Nat
      /\ setting.bodies \subseteq Seq({"STDIN", "MGMT"})
  BY SettingsAssumption, ConnectionAssumption DEF Init
<1>2. PICK body \in [1..n -> setting.bodies] : script = FlattenSeq([q \in 1..n |-> Cells(q, body[q])])
  BY DEF Init
<1>3. \A q \in 1..n : body[q] \in Seq({"STDIN", "MGMT"})
  BY <1>1, <1>2
<1> HIDE DEF n
<1>4. ScriptShape(script, n)
  BY <1>1, <1>2, <1>3, ScriptHasShape
<1>5. /\ keep \in [1..n -> BOOLEAN] /\ pos = 0 /\ serverShut = FALSE
      /\ toApp = <<>> /\ toServer = <<>> /\ seen = <<>> /\ reset = FALSE
      /\ pc = "accept" /\ back = "app" /\ r = 0
      /\ unread = <<>> /\ contentLen = 0 /\ skip = FALSE /\ isClosed = FALSE /\ readError = FALSE
      /\ held = 0 /\ puts = 0 /\ pending = <<>> /\ writeError = FALSE /\ drained = TRUE
  BY DEF Init, n
<1>6. Streams
  BY <1>1, <1>4, <1>5 DEF Streams, n
<1>7. TypeOK
  <2>1. Len(script) \in Nat
    BY <1>6, ScriptFacts
  <2>2. Len(<<>>) = 0 /\ RoomIn \in Nat /\ RoomOut \in Nat /\ BufLen \in Nat
    BY ConnectionAssumption
  <2>3. PlaceTypes
    BY <1>1, <1>5, <2>1, ConnectionAssumption DEF PlaceTypes, n
  <2>4. RoomTypes
    BY <1>5, <2>2 DEF RoomTypes
  <2>5. ControlTypes
    BY <1>5 DEF ControlTypes
  <2>6. WriterTypes
    BY <1>1, <1>5 DEF WriterTypes
  <2>7. FlagTypes
    BY <1>5 DEF FlagTypes
  <2> QED BY <2>3, <2>4, <2>5, <2>6, <2>7, TypeParts
<1>8. ~Serving /\ ~Finishing /\ ~Closing
  BY <1>5 DEF Serving, Finishing, Closing
<1>9. Phases
  BY <1>5, <1>8 DEF Phases
<1>10. Base = 0
  <2>1. Len(<<>>) = 0
    OBVIOUS
  <2>2. pos = 0 /\ Len(toApp) = 0 /\ Len(unread) = 0
    BY <1>5, <2>1
  <2> QED BY <2>2 DEF Base
<1>11. Position
  <2> HIDE DEF Base
  <2> QED BY <1>5, <1>10 DEF Position
<1>12. Output = <<>>
  BY <1>5 DEF Output
<1>13. Answered
  BY <1>8, <1>12 DEF Answered, InTurn, Completed
<1>14. Waited
  BY <1>5 DEF Waited
<1>15. Drained
  <2> HIDE DEF Base
  <2> QED BY <1>5, <1>8, <1>10 DEF Drained
<1>16. Unharmed
  BY <1>5 DEF Unharmed
<1> QED BY <1>6, <1>7, <1>9, <1>11, <1>13, <1>14, <1>15, <1>16 DEF ConnectionInv

LEMMA NextInvariant == ConnectionInv /\ [Next]_vars => ConnectionInv'
<1> SUFFICES ASSUME ConnectionInv, [Next]_vars PROVE ConnectionInv'
  OBVIOUS
<1>1. TypeOK /\ Streams /\ Phases /\ Position /\ Answered /\ Waited /\ Drained /\ Unharmed
  BY DEF ConnectionInv
<1>2. Places /\ Begun /\ HeaderRead
  BY <1>1, PositionParts
<1>3. PlaceTypes /\ RoomTypes /\ ControlTypes /\ WriterTypes /\ FlagTypes
  BY <1>1, TypeParts
<1>4. PlaceTypes' /\ RoomTypes' /\ ControlTypes' /\ WriterTypes' /\ FlagTypes'
  BY <1>1, <1>3, PlaceTypesStep, RoomTypesStep, ControlTypesStep, WriterTypesStep, FlagTypesStep
<1>5. TypeOK'
  <2>1. FlagTypes' => ({serverShut, reset, skip, isClosed, readError, writeError, drained} \subseteq BOOLEAN)'
    BY DEF FlagTypes
  <2> QED BY <1>4, <2>1 DEF TypeOK, PlaceTypes, RoomTypes, ControlTypes, WriterTypes
<1>6. Streams' /\ Phases'
  BY <1>1, StreamsStep, PhasesStep
<1>7. Position'
  <2>1. Places' /\ Begun' /\ HeaderRead'
    BY <1>1, <1>2, PlacesStep, BegunStep, HeaderReadStep
  <2> QED BY <2>1 DEF Position, Places, Begun, HeaderRead
<1>8. Answered'
  BY <1>1, <1>2, <1>6, AnsweredStep
<1>9. Waited' /\ Drained' /\ Unharmed'
  BY <1>1, WaitedStep, DrainedStep, UnharmedStep
<1> QED BY <1>5, <1>6, <1>7, <1>8, <1>9 DEF ConnectionInv

LEMMA ConnectionInvariant == Spec => []ConnectionInv
BY InitialInvariant, NextInvariant, PTL DEF Spec

\* The types of a connection, and the room of its sockets and of the reader's buffer,
\* for every number of requests and cells: FillBuffProc never reads more than its buffer
\* takes, and what is held back for the server was written by the application.
THEOREM ConnectionTypes == Spec => []TypeOK
<1>1. ConnectionInv => TypeOK
  BY DEF ConnectionInv
<1> QED BY ConnectionInvariant, <1>1, PTL

\* A server that has seen FCGI_END_REQUEST has all that the application wrote for the
\* request, and without a timeout no close destroys output under way: FCGX_Finish_r and
\* the drain of OS_Close, for every script, room and fault.
THEOREM ResponsesAreWhole == Spec => []ResponseWhole
<1>1. ConnectionInv => ResponseWhole
  <2> SUFFICES ASSUME ConnectionInv PROVE ResponseWhole
    OBVIOUS
  <2>1. TypeOK /\ Streams /\ WholePart /\ TurnPart /\ Unharmed
    BY AnsweredParts DEF ConnectionInv
  <2>2. "timeout" \notin setting.faults => ~reset
    BY <2>1 DEF Unharmed
  <2>3. ASSUME Received("END", r) PROVE Count(seen, <<"out", r>>) = puts
    <3>1. /\ seen \in Seq(OutCells) /\ Len(seen) \in Nat /\ Starts(seen, Output) /\ Len(Output) \in Nat
      BY <2>1, OutputType, LenProperties DEF Streams
    <3>2. PICK j \in 1..Len(seen) : seen[j] = <<"END", r>>
      BY <2>3, <3>1 DEF Received
    <3>3. \A i \in 1..Len(seen) : i \in 1..Len(Output) /\ Output[i] = seen[i]
      BY <3>1 DEF Starts
    <3>4. Before(Output, j, <<"out", r>>) = puts
      BY <2>1, <3>2, <3>3 DEF WholePart
    <3>5. Before(seen, j, <<"out", r>>) = Before(Output, j, <<"out", r>>)
      BY <3>1, BeforeStarts
    <3>6. \A k \in j..Len(seen) : seen[k] # <<"out", r>>
      <4> SUFFICES ASSUME NEW k \in j..Len(seen), seen[k] = <<"out", r>> PROVE FALSE
        OBVIOUS
      <4>1. k \in 1..Len(seen) /\ k # j
        BY <3>1, <3>2
      <4>2. j < k /\ Answers(Output[j]) /\ Answers(Output[k])
        BY <3>1, <3>2, <3>3, <4>1 DEF Answers
      <4>3. Output[j] # <<"END", Output[k][2]>>
        BY <2>1, <3>3, <4>1, <4>2 DEF TurnPart, InTurn
      <4> QED BY <3>2, <3>3, <4>1, <4>3
    <3>7. Before(seen, j, <<"out", r>>) = Count(seen, <<"out", r>>)
      BY <3>1, <3>6, BeforeLast
    <3> QED BY <3>4, <3>5, <3>7
  <2> QED BY <2>2, <2>3 DEF ResponseWhole, Count
<1> QED BY ConnectionInvariant, <1>1, PTL

\* FCGX_Finish_r and the accept loop give up a connection that is to be kept only for a
\* server that is gone, a timeout, an early request or input that was left unread.
THEOREM KeptConnections == Spec => KeptWhenDrained
<1> DEFINE Kept == pc # "drain" /\ pc' = "drain" =>
                      \/ serverShut \/ "timeout" \in setting.faults \/ setting.pipelined
                      \/ ~keep[r] \/ ~drained
<1>1. ConnectionInv /\ [Next]_vars => [Kept]_vars
  <2> SUFFICES ASSUME ConnectionInv, [Next]_vars, pc # "drain", pc' = "drain", ~serverShut,
                      "timeout" \notin setting.faults, ~setting.pipelined, drained
               PROVE  ~keep[r]
    OBVIOUS
  <2> USE DEF server, reader, writer
  <2>1. /\ TypeOK /\ Streams /\ Phases /\ Places /\ ErrorPart /\ FlagPart /\ NextPart
    BY PositionParts, DrainedParts DEF ConnectionInv
  <2>2. back \in {"accept", "app", "read", "finish"}
    BY <2>1 DEF TypeOK
  <2>3. OSReadFails \/ AcceptRefuses \/ WriteFails \/ Finish
    <3>1. CASE Server \/ OSRead \/ AnswerManagement \/ AcceptBegin \/ AcceptSkips \/ SkipContent
      BY <3>1 DEF Server, ServerSend, ServerReceive, ServerClose, OSRead, AnswerManagement, Write,
         AcceptBegin, AcceptSkips, SkipContent
    <3>2. CASE ReadEnvironment \/ ReadHeader \/ ReadContent \/ ReadRefuses \/ ReadEnd \/ WriteCell
      BY <3>2 DEF ReadEnvironment, ReadHeader, ReadContent, ReadRefuses, ReadEnd, WriteCell
    <3>3. CASE WriteDone \/ Drain \/ Close \/ App \/ UNCHANGED vars
      BY <2>2, <3>3 DEF WriteDone, Drain, Close, App, AppRead, AppPut, AppFlush, AppFinish, Write, vars
    <3> QED BY <3>1, <3>2, <3>3 DEF Next, Library, Over
  <2>4. ~OSReadFails /\ ~WriteFails
    BY DEF OSReadFails, WriteFails
  <2>5. ~AcceptRefuses
    <3>1. SUFFICES ASSUME AcceptRefuses PROVE FALSE
      OBVIOUS
    <3>2. pc = "accept" /\ unread # <<>> /\ (Head(unread)[1] # "BEGIN" \/ skip)
      BY <3>1 DEF AcceptRefuses, At, Foreign
    <3>3. (Base = 0 \/ script[Base][1] = "EOF") /\ ~skip
      BY <2>1, <3>2 DEF NextPart
    <3> QED BY <2>1, <3>2, <3>3, NextIsBegin
  <2>6. Finish /\ pc = "finish"
    BY <2>3, <2>4, <2>5 DEF Finish
  <2>7. ~writeError /\ ~readError
    BY <2>1, <2>6 DEF ErrorPart, FlagPart, Finishing
  <2> QED BY <2>6, <2>7 DEF Finish
<1> QED BY ConnectionInvariant, <1>1, PTL DEF Spec, KeptWhenDrained

-----------------------------------------------------------------------------
(* The connection implements the log of requests: the server's view.       *)

StateOf(q) == IF Received("END", q) THEN "ended"
              ELSE IF \E i \in 1..pos : script[i] = <<"BEGIN", q>> THEN "open" ELSE "new"
LogState == [q \in Requests |-> StateOf(q)]
LogContent == [q \in Requests |-> Count(seen, <<"out", q>>)]
LogVars == <<LogState, LogContent, ~setting.pipelined, serverShut>>

\* The answer that the server is about to receive is of a request that is served: what
\* came before is of no later request, and what has content before it has its end.
LEMMA HeadIsServed ==
    ASSUME ConnectionInv, toServer # <<>>, Answers(Head(toServer))
    PROVE  LET q == Head(toServer)[2] IN
           /\ Head(toServer) \in OutCells /\ q \in Requests
           /\ StateOf(q) = "open"
           /\ \A p \in 1..q - 1 : Count(seen, <<"out", p>>) > 0 => StateOf(p) = "ended"
           /\ \A p \in q + 1..MaxRequests : Count(seen, <<"out", p>>) = 0 /\ StateOf(p) # "ended"
<1> DEFINE h == Head(toServer)
           q == h[2]
           n == Len(seen) + 1
<1>1. TypeOK /\ Streams /\ TurnPart /\ BegunPart /\ Places
  BY AnsweredParts, PositionParts DEF ConnectionInv
<1>2. /\ seen \in Seq(OutCells) /\ toServer \in Seq(OutCells) /\ Len(seen) \in Nat /\ Len(Output) \in Nat
      /\ Starts(seen, Output) /\ Starts(seen \o toServer, Output)
  BY <1>1, OutputType, LenProperties DEF Streams
<1>3. h \in OutCells /\ q \in Requests /\ q \in Nat /\ MaxRequests \in Nat
  <2>1. h \in OutCells
    BY <1>2
  <2>2. q \in Requests
    BY <2>1 DEF OutCells
  <2> QED BY <1>1, <2>1, <2>2, SettingFacts DEF Requests
<1>4. n \in 1..Len(Output) /\ Output[n] = h
  <2>1. Len(toServer) >= 1 /\ Len(toServer) \in Nat /\ h = toServer[1] /\ 1 \in 1..Len(toServer)
    BY <1>2
  <2>2. n \in 1..Len(seen \o toServer) /\ (seen \o toServer)[n] = toServer[1]
    BY <1>2, <2>1, ConcatCells
  <2> QED BY <1>2, <2>1, <2>2 DEF Starts
<1>5. \A i \in 1..Len(seen) : i \in 1..Len(Output) /\ Output[i] = seen[i] /\ i < n
  BY <1>2 DEF Starts
<1>6. \A i \in 1..Len(seen) : Answers(seen[i]) => seen[i][2] <= q /\ seen[i] # <<"END", q>>
  BY <1>1, <1>4, <1>5 DEF TurnPart, InTurn
<1>7. \A p : Received("END", p) <=> \E i \in 1..Len(seen) : seen[i] = <<"END", p>>
  <2>1. DOMAIN seen = 1..Len(seen)
    BY <1>2
  <2> QED BY <2>1, Zenon DEF Received
<1>8. \A p : Count(seen, <<"out", p>>) = 0 <=> \A i \in 1..Len(seen) : seen[i] # <<"out", p>>
  BY <1>2, CountNone
<1>9. \A p : Count(seen, <<"out", p>>) \in Nat
  BY <1>2, CountType
<1>10. \A p : Answers(<<"END", p>>) /\ Answers(<<"out", p>>) /\ <<"END", p>>[2] = p /\ <<"out", p>>[2] = p
  BY DEF Answers
<1> HIDE DEF n, h
<1>11. StateOf(q) = "open"
  <2>1. ~Received("END", q)
    <3>1. \A i \in 1..Len(seen) : seen[i] # <<"END", q>>
      <4> SUFFICES ASSUME NEW i \in 1..Len(seen), seen[i] = <<"END", q>> PROVE FALSE
        BY Zenon
      <4>1. Answers(seen[i])
        BY <1>10, Zenon
      <4> QED BY <4>1, <1>6, Zenon
    <3> QED BY <3>1, <1>7, Zenon
  <2>2. PICK k \in 1..Base : script[k] = <<"BEGIN", q>>
    BY <1>1, <1>4 DEF BegunPart, h
  <2>3. k \in 1..pos
    <3>1. Base \in Nat /\ pos \in Nat /\ Base <= pos
      BY <1>1, PlacesFacts
    <3> HIDE DEF Base
    <3> QED BY <3>1
  <2> QED BY <2>1, <2>2, <2>3 DEF StateOf
<1>12. ASSUME NEW p \in 1..q - 1, Count(seen, <<"out", p>>) > 0 PROVE StateOf(p) = "ended"
  <2>1. PICK i \in 1..Len(seen) : seen[i] = <<"out", p>>
    <3>1. Count(seen, <<"out", p>>) # 0
      BY <1>9, <1>12
    <3> QED BY <1>8, <3>1
  <2>2. i \in 1..Len(Output) /\ i < n /\ Output[i][1] = "out" /\ Output[i][2] = p /\ p # q
    BY <1>3, <1>5, <2>1
  <2>3. PICK k \in 1..n - 1 : Output[k] = <<"END", p>>
    BY <1>1, <1>4, <2>2 DEF TurnPart, Completed, h
  <2>4. k \in 1..Len(seen)
    BY <1>2 DEF n
  <2> QED BY <1>5, <1>7, <2>3, <2>4 DEF StateOf
<1>13. ASSUME NEW p \in q + 1..MaxRequests
       PROVE  Count(seen, <<"out", p>>) = 0 /\ StateOf(p) # "ended"
  <2>1. p > q
    BY <1>3
  <2>a. p \in Int /\ ~(p <= q)
    BY <1>3
  <2>b. \A i \in 1..Len(seen) : Answers(seen[i]) => seen[i][2] # p
    BY <1>6, <2>a
  <2>2. \A i \in 1..Len(seen) : seen[i] # <<"out", p>> /\ seen[i] # <<"END", p>>
    BY <1>10, <2>b, Zenon
  <2> QED BY <1>7, <1>8, <2>2 DEF StateOf
<1> QED BY <1>3, <1>11, <1>12, <1>13 DEF h

\* The server begins a request.
LEMMA SendOpens ==
    ASSUME ConnectionInv, ServerSend, [Next]_vars
    PROVE  \/ LogVars' = LogVars
           \/ \E p \in Requests :
                 /\ LogState[p] = "new"
                 /\ \A q \in 1..p - 1 : LogState[q] # "new" /\ (~setting.pipelined => LogState[q] = "ended")
                 /\ LogState' = [LogState EXCEPT ![p] = "open"]
                 /\ UNCHANGED <<LogContent, ~setting.pipelined, serverShut>>
<1> DEFINE c == script[pos + 1]
           p == c[2]
<1> USE DEF server
<1>1. TypeOK /\ Streams /\ BegunPart /\ Places /\ Waited
  BY AnsweredParts, PositionParts DEF ConnectionInv
<1>2. setting' = setting /\ script' = script /\ seen' = seen /\ pos' = pos + 1 /\ serverShut' = serverShut
  BY DEF ServerSend
<1>3. \A q : Received("END", q)' <=> Received("END", q)
  BY <1>2 DEF Received
<1>4. UNCHANGED <<LogContent, ~setting.pipelined, serverShut>>
  BY <1>2 DEF LogContent, Count
<1>5. pos \in Nat /\ pos + 1 \in 1..Len(script) /\ Len(script) \in Nat
  BY <1>1, ScriptFacts DEF TypeOK, ServerSend
<1>6. c = <<c[1], p>> /\ p \in Nat /\ p \in 1..setting.requests
  BY <1>1, <1>5, ScriptFacts
<1>7. \A i : i \in 1..pos' <=> i \in 1..pos \/ i = pos + 1
  BY <1>2, <1>5
<1> HIDE DEF c
<1>8. \A q : (\E i \in 1..pos' : script[i] = <<"BEGIN", q>>) <=>
             (\E i \in 1..pos : script[i] = <<"BEGIN", q>>) \/ c = <<"BEGIN", q>>
  BY <1>7 DEF c
<1>9. CASE c[1] # "BEGIN"
  <2>a. \A q : c # <<"BEGIN", q>>
    BY <1>9
  <2>1. \A q : StateOf(q)' = StateOf(q)
    <3> SUFFICES ASSUME NEW q PROVE StateOf(q)' = StateOf(q)
      OBVIOUS
    <3>1. (\E i \in 1..pos' : script[i] = <<"BEGIN", q>>) <=> (\E i \in 1..pos : script[i] = <<"BEGIN", q>>)
      BY <1>8, <2>a
    <3> QED BY <1>2, <1>3, <3>1 DEF StateOf
  <2> QED BY <1>4, <2>1 DEF LogVars, LogState
<1>10. CASE c[1] = "BEGIN"
  <2>1. c = <<"BEGIN", p>> /\ p \in Requests
    BY <1>1, <1>6, <1>10, SettingFacts DEF Requests
  <2>2. \A i \in 1..pos : script[i] # <<"BEGIN", p>>
    <3> SUFFICES ASSUME NEW i \in 1..pos, script[i] = <<"BEGIN", p>> PROVE FALSE
      OBVIOUS
    <3>1. i \in 1..Len(script) /\ i < pos + 1
      BY <1>5
    <3>2. script[i][2] < script[pos + 1][2]
      BY <1>1, <1>5, <1>10, <3>1, ScriptFacts DEF Sorted, c
    <3> QED BY <1>6, <3>2 DEF c
  <2>3. ~Received("END", p)
    <3>1. SUFFICES ASSUME Received("END", p) PROVE FALSE
      OBVIOUS
    <3>2. seen \in Seq(OutCells) /\ Starts(seen, Output) /\ Len(Output) \in Nat
      BY <1>1, OutputType DEF Streams
    <3>3. PICK j \in 1..Len(seen) : seen[j] = <<"END", p>>
      BY <3>1, <3>2 DEF Received
    <3>4. j \in 1..Len(Output) /\ Output[j] = <<"END", p>> /\ Answers(Output[j])
      BY <3>2, <3>3 DEF Starts, Answers
    <3>5. PICK k \in 1..Base : script[k] = <<"BEGIN", p>>
      BY <1>1, <3>4 DEF BegunPart
    <3>6. Base \in Nat /\ Base <= pos
      BY <1>1, PlacesFacts
    <3> HIDE DEF Base
    <3>7. k \in 1..pos
      BY <1>5, <3>6
    <3> QED BY <2>2, <3>5, <3>7
  <2>4. ASSUME NEW q \in 1..p - 1
        PROVE  StateOf(q) # "new" /\ (~setting.pipelined => StateOf(q) = "ended")
    <3>1. q \in 1..script[pos + 1][2] /\ q # p
      BY <1>6 DEF c
    <3>2. PICK j \in 1..pos + 1 : script[j] = <<"BEGIN", q>>
      BY <1>1, <1>5, <3>1, ScriptFacts DEF BeginsPrecede
    <3>3. j # pos + 1
      BY <2>1, <3>1, <3>2 DEF c
    <3>4. j \in 1..pos
      BY <1>5, <3>3
    <3>5. StateOf(q) # "new"
      BY <3>2, <3>4 DEF StateOf
    <3>6. ~setting.pipelined => Received("END", q)
      <4>1. Waited'
        BY <1>1, WaitedStep
      <4>2. pos + 1 \in 1..pos' /\ script'[pos + 1] = c /\ setting' = setting
        BY <1>2, <1>5 DEF c
      <4>3. ~setting.pipelined => Received("END", q)'
        BY <1>10, <4>1, <4>2 DEF Waited
      <4> QED BY <1>3, <4>3
    <3> QED BY <3>5, <3>6 DEF StateOf
  <2>5. \A q : StateOf(q)' = IF q = p THEN "open" ELSE StateOf(q)
    <3> SUFFICES ASSUME NEW q PROVE StateOf(q)' = IF q = p THEN "open" ELSE StateOf(q)
      OBVIOUS
    <3>1. c = <<"BEGIN", q>> <=> q = p
      BY <2>1
    <3> QED BY <1>2, <1>3, <1>8, <2>3, <3>1 DEF StateOf
  <2>6. LogState' = [LogState EXCEPT ![p] = "open"]
    BY <2>1, <2>5 DEF LogState
  <2>7. StateOf(p) = "new"
    BY <2>2, <2>3 DEF StateOf
  <2>8. \A q \in 1..p - 1 : q \in Requests
    <3>1. MaxRequests \in Nat /\ p \in 1..MaxRequests
      BY <1>1, <2>1, SettingFacts DEF Requests
    <3> QED BY <3>1 DEF Requests
  <2>9. LogState[p] = "new"
    BY <2>1, <2>7 DEF LogState
  <2>10. \A q \in 1..p - 1 : LogState[q] # "new" /\ (~setting.pipelined => LogState[q] = "ended")
    BY <2>4, <2>8 DEF LogState
  <2> QED BY <1>4, <2>1, <2>6, <2>9, <2>10
<1> QED BY <1>9, <1>10

\* The server receives a cell of its response.
LEMMA ReceiveServes ==
    ASSUME ConnectionInv, ServerReceive
    PROVE  \/ LogVars' = LogVars
           \/ \E q \in Requests :
                 /\ ~serverShut /\ LogState[q] = "open"
                 /\ \A p \in 1..q - 1 : LogContent[p] > 0 => LogState[p] = "ended"
                 /\ \A p \in q + 1..MaxRequests : LogContent[p] = 0 /\ LogState[p] # "ended"
                 /\ UNCHANGED <<~setting.pipelined, serverShut>>
                 /\ \/ UNCHANGED LogState /\ LogContent' = [LogContent EXCEPT ![q] = @ + 1]
                    \/ UNCHANGED LogContent /\ LogState' = [LogState EXCEPT ![q] = "ended"]
<1> DEFINE h == Head(toServer)
           q == h[2]
<1> USE DEF server
<1>1. TypeOK /\ Streams
  BY DEF ConnectionInv
<1>2. /\ setting' = setting /\ script' = script /\ pos' = pos /\ serverShut' = serverShut
      /\ ~serverShut /\ toServer # <<>> /\ seen' = Append(seen, h)
  BY DEF ServerReceive
<1>3. seen \in Seq(OutCells) /\ h \in OutCells /\ MaxRequests \in Nat
  BY <1>1, <1>2, SettingFacts DEF Streams
<1>4. h = <<h[1], q>> /\ q \in Requests /\ h[1] \in OutKinds
  BY <1>3 DEF OutCells
<1> HIDE DEF h
<1>5. \A p : Count(seen', <<"out", p>>) = Count(seen, <<"out", p>>) + (IF h = <<"out", p>> THEN 1 ELSE 0)
  BY <1>2, <1>3, CountAppend
<1>6. \A p : Received("END", p)' <=> Received("END", p) \/ h = <<"END", p>>
  <2>1. /\ DOMAIN seen = 1..Len(seen) /\ DOMAIN seen' = 1..Len(seen) + 1 /\ Len(seen) \in Nat
        /\ \A i \in 1..Len(seen) : seen'[i] = seen[i]
        /\ seen'[Len(seen) + 1] = h
    BY <1>2, <1>3
  <2>2. \A i : i \in DOMAIN seen' <=> i \in DOMAIN seen \/ i = Len(seen) + 1
    BY <2>1
  <2>3. \A i \in DOMAIN seen : seen'[i] = seen[i]
    BY <2>1
  <2> QED BY <2>1, <2>2, <2>3, Zenon DEF Received
<1>7. \A p : h # <<"out", p>> => Count(seen', <<"out", p>>) = Count(seen, <<"out", p>>)
  <2> SUFFICES ASSUME NEW p, h # <<"out", p>> PROVE Count(seen', <<"out", p>>) = Count(seen, <<"out", p>>)
    OBVIOUS
  <2>1. Count(seen, <<"out", p>>) \in Nat
    BY <1>3, CountType
  <2>2. Count(seen', <<"out", p>>) = Count(seen, <<"out", p>>) + 0
    BY <1>5
  <2> QED BY <2>1, <2>2
<1>8. \A p \in Requests : LogState[p] = StateOf(p) /\ LogContent[p] = Count(seen, <<"out", p>>)
  BY DEF LogState, LogContent
<1>9. CASE ~Answers(h)
  <2>1. \A p : h # <<"END", p>> /\ h # <<"out", p>>
    BY <1>9 DEF Answers
  <2>2. \A p : StateOf(p)' = StateOf(p)
    BY <1>2, <1>6, <2>1 DEF StateOf
  <2>3. \A p : Count(seen', <<"out", p>>) = Count(seen, <<"out", p>>)
    BY <1>7, <2>1, Zenon
  <2> QED BY <1>2, <2>2, <2>3 DEF LogVars, LogState, LogContent
<1>10. CASE Answers(h)
  <2>1. /\ StateOf(q) = "open"
        /\ \A p \in 1..q - 1 : Count(seen, <<"out", p>>) > 0 => StateOf(p) = "ended"
        /\ \A p \in q + 1..MaxRequests : Count(seen, <<"out", p>>) = 0 /\ StateOf(p) # "ended"
    BY <1>2, <1>10, HeadIsServed DEF h
  <2>2. /\ \A p \in 1..q - 1 : p \in Requests
        /\ \A p \in q + 1..MaxRequests : p \in Requests
    BY <1>3, <1>4 DEF Requests
  <2>3. /\ LogState[q] = "open"
        /\ \A p \in 1..q - 1 : LogContent[p] > 0 => LogState[p] = "ended"
        /\ \A p \in q + 1..MaxRequests : LogContent[p] = 0 /\ LogState[p] # "ended"
    BY <1>4, <1>8, <2>1, <2>2
  <2>4. UNCHANGED <<~setting.pipelined, serverShut>>
    BY <1>2
  <2>5. CASE h[1] = "out"
    <3>1. h = <<"out", q>> /\ \A p : h # <<"END", p>> /\ (h = <<"out", p>> <=> p = q)
      BY <1>4, <2>5
    <3>2. \A p : StateOf(p)' = StateOf(p)
      BY <1>2, <1>6, <3>1 DEF StateOf
    <3>3. \A p : Count(seen', <<"out", p>>) = IF p = q THEN Count(seen, <<"out", p>>) + 1
                                              ELSE Count(seen, <<"out", p>>)
      <4> SUFFICES ASSUME NEW p
                   PROVE  Count(seen', <<"out", p>>) = IF p = q THEN Count(seen, <<"out", p>>) + 1
                                                       ELSE Count(seen, <<"out", p>>)
        OBVIOUS
      <4>1. CASE p = q
        <5>1. h = <<"out", p>>
          BY <3>1, <4>1
        <5> QED BY <1>5, <4>1, <5>1
      <4>2. CASE p # q
        <5>1. h # <<"out", p>>
          BY <3>1, <4>2
        <5> QED BY <1>7, <4>2, <5>1
      <4> QED BY <4>1, <4>2
    <3>4. LogContent' = [LogContent EXCEPT ![q] = @ + 1]
      BY <3>3 DEF LogContent
    <3>5. UNCHANGED LogState
      BY <3>2 DEF LogState
    <3> QED BY <1>2, <1>4, <2>3, <2>4, <3>4, <3>5
  <2>6. CASE h[1] = "END"
    <3>1. h = <<"END", q>> /\ \A p : h # <<"out", p>> /\ (h = <<"END", p>> <=> p = q)
      BY <1>4, <2>6
    <3>2. \A p : StateOf(p)' = IF p = q THEN "ended" ELSE StateOf(p)
      BY <1>2, <1>6, <3>1 DEF StateOf
    <3>3. \A p : Count(seen', <<"out", p>>) = Count(seen, <<"out", p>>)
      BY <1>7, <3>1, Zenon
    <3>4. UNCHANGED LogContent
      BY <3>3 DEF LogContent
    <3>5. LogState' = [LogState EXCEPT ![q] = "ended"]
      BY <3>2 DEF LogState
    <3> QED BY <1>2, <1>4, <2>3, <2>4, <3>4, <3>5
  <2> QED BY <1>10, <2>5, <2>6 DEF Answers
<1> QED BY <1>9, <1>10

\* Every other step is one that the server does not see, but for its own leaving.
LEMMA OthersStutter ==
    ASSUME [Next]_vars, ~ServerSend, ~ServerReceive
    PROVE  /\ UNCHANGED <<LogState, LogContent, ~setting.pipelined>>
           /\ serverShut' = serverShut \/ serverShut' = TRUE
<1> USE DEF server
<1>1. setting' = setting /\ script' = script /\ pos' = pos
  BY ScriptIsConstant, PosMoves
<1>2. seen' = seen /\ (serverShut' = serverShut \/ serverShut' = TRUE)
  <2>1. CASE ServerClose \/ OSRead \/ OSReadFails \/ AnswerManagement \/ AcceptBegin
    BY <2>1 DEF ServerClose, OSRead, OSReadFails, AnswerManagement, AcceptBegin
  <2>2. CASE AcceptSkips \/ SkipContent \/ AcceptRefuses \/ ReadEnvironment \/ ReadHeader \/ ReadContent
    BY <2>2 DEF AcceptSkips, SkipContent, AcceptRefuses, ReadEnvironment, ReadHeader, ReadContent
  <2>3. CASE ReadRefuses \/ ReadEnd \/ WriteCell \/ WriteFails \/ WriteDone \/ Finish \/ Drain \/ Close
    BY <2>3 DEF ReadRefuses, ReadEnd, WriteCell, WriteFails, WriteDone, Finish, Drain, Close
  <2>4. CASE AppRead \/ AppPut \/ AppFlush \/ AppFinish \/ UNCHANGED vars
    BY <2>4 DEF AppRead, AppPut, AppFlush, AppFinish, vars
  <2> QED BY <2>1, <2>2, <2>3, <2>4 DEF Next, Server, Library, App, Over
<1>3. \A q : Received("END", q)' <=> Received("END", q)
  BY <1>2 DEF Received
<1>4. \A q : StateOf(q)' = StateOf(q)
  BY <1>1, <1>3 DEF StateOf
<1>5. \A q : Count(seen, <<"out", q>>)' = Count(seen, <<"out", q>>)
  BY <1>2
<1> QED BY <1>1, <1>2, <1>4, <1>5 DEF LogState, LogContent

\* What the server sees of the connection is a log of requests answered in the order sent,
\* each with its own content and one end, for every number of requests, every room of the
\* sockets and whatever fails (FCGX_Accept_r, FCGX_Finish_r, FillBuffProc, EmptyBuffProc
\* and OS_Close put together).
THEOREM ConnectionIsALog == Spec => ImplementsLog
<1>1. Init => Log!Init
  <2> SUFFICES ASSUME Init PROVE Log!Init
    OBVIOUS
  <2>1. /\ pos = 0 /\ seen = <<>> /\ serverShut = FALSE /\ setting.pipelined \in BOOLEAN
    BY SettingsAssumption DEF Init
  <2>2. \A q : ~Received("END", q)
    BY <2>1 DEF Received
  <2>3. \A q : Cardinality({i \in DOMAIN seen : seen[i] = <<"out", q>>}) = 0
    <3>1. \A q : {i \in DOMAIN seen : seen[i] = <<"out", q>>} = {}
      BY <2>1
    <3> QED BY <3>1, FS_EmptySet
  <2>4. \A q : ~\E i \in 1..pos : script[i] = <<"BEGIN", q>>
    BY <2>1
  <2> QED BY <2>1, <2>2, <2>3, <2>4 DEF Log!Init, Requests
<1>2. ConnectionInv /\ [Next]_vars => [Log!Next]_LogVars
  <2> SUFFICES ASSUME ConnectionInv, [Next]_vars PROVE Log!Next \/ LogVars' = LogVars
    OBVIOUS
  <2>1. CASE ServerSend
    <3> SUFFICES ASSUME NEW p \in Requests,
                    LogState[p] = "new",
                    \A q \in 1..p - 1 : LogState[q] # "new" /\ (~setting.pipelined => LogState[q] = "ended"),
                    LogState' = [LogState EXCEPT ![p] = "open"],
                    UNCHANGED <<LogContent, ~setting.pipelined, serverShut>>
                 PROVE  Log!Next
      BY <2>1, SendOpens
    <3>1. Log!Open(p)
      BY DEF Log!Open, LogState, LogContent, StateOf, Count
    <3> QED BY <3>1 DEF Log!Next, Requests
  <2>2. CASE ServerReceive
    <3> SUFFICES ASSUME NEW q \in Requests,
                    ~serverShut, LogState[q] = "open",
                    \A p \in 1..q - 1 : LogContent[p] > 0 => LogState[p] = "ended",
                    \A p \in q + 1..MaxRequests : LogContent[p] = 0 /\ LogState[p] # "ended",
                    UNCHANGED <<~setting.pipelined, serverShut>>,
                    \/ UNCHANGED LogState /\ LogContent' = [LogContent EXCEPT ![q] = @ + 1]
                    \/ UNCHANGED LogContent /\ LogState' = [LogState EXCEPT ![q] = "ended"]
                 PROVE  Log!Next
      BY <2>2, ReceiveServes
    <3>1. Log!Served(q)
      BY DEF Log!Served, LogState, LogContent, StateOf, Count
    <3>2. Log!Answer(q) \/ Log!End(q)
      BY <3>1 DEF Log!Answer, Log!End, LogState, LogContent, StateOf, Count
    <3> QED BY <3>2 DEF Log!Next, Requests
  <2>3. CASE ~ServerSend /\ ~ServerReceive
    <3>1. /\ UNCHANGED <<LogState, LogContent, ~setting.pipelined>>
          /\ serverShut' = serverShut \/ serverShut' = TRUE
      BY <2>3, OthersStutter
    <3>2. CASE serverShut' = serverShut
      BY <3>1, <3>2 DEF LogVars
    <3>3. CASE serverShut' = TRUE
      <4>1. Log!Drop
        BY <3>1, <3>3 DEF Log!Drop, LogState, LogContent, StateOf, Count
      <4> QED BY <4>1 DEF Log!Next
    <3> QED BY <3>1, <3>2, <3>3
  <2> QED BY <2>1, <2>2, <2>3
<1>3. ConnectionInv /\ [Next]_vars
      => [Log!Next]_<<[q \in Requests |-> IF Received("END", q) THEN "ended"
                                 ELSE IF \E i \in 1..pos : script[i] = <<"BEGIN", q>> THEN "open"
                                 ELSE "new"],
                      [q \in Requests |-> Cardinality({i \in DOMAIN seen : seen[i] = <<"out", q>>})],
                      ~setting.pipelined, serverShut>>
  BY <1>2 DEF LogVars, LogState, LogContent, StateOf, Count
<1> QED BY ConnectionInvariant, <1>1, <1>3, PTL DEF Spec, ImplementsLog, Log!Spec

=============================================================================
