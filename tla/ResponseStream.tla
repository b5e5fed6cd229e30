--------------------------- MODULE ResponseStream ---------------------------
(***************************************************************************)
(* What the writers of a request promise to the web server, without        *)
(* buffers, records or calls: every stream grows at its end and then ends, *)
(* and the request ends once, after its streams.  After an error nothing   *)
(* is promised but that the error is not forgotten.                        *)
(***************************************************************************)
EXTENDS Sequences, SequencesExt

CONSTANTS
    Writers,    \* the streams of a response
    Main        \* the one that always ends before the request does

VARIABLES
    content,    \* what the server has of each stream
    eof,        \* the streams whose end it has seen
    ended,      \* it has seen the end of the request
    broken      \* the connection has failed

rvars == <<content, eof, ended, broken>>

Init ==
    /\ content = [w \in Writers |-> <<>>]
    /\ eof = [w \in Writers |-> FALSE]
    /\ ended = FALSE
    /\ broken = FALSE

\* One stream grows, ends, or both, and the request may end with it.
Deliver(w) ==
    /\ ~broken /\ ~broken'
    /\ ~ended
    /\ \A v \in Writers \ {w} : content'[v] = content[v] /\ eof'[v] = eof[v]
    /\ IsPrefix(content[w], content'[w])
    /\ eof[w] => content'[w] = content[w] /\ eof'[w]
    /\ ended' => /\ eof'[Main]
                 /\ \A v \in Writers : content'[v] # <<>> => eof'[v]

Break == ~broken /\ broken'
StayBroken == broken /\ broken'

Next == (\E w \in Writers : Deliver(w)) \/ Break \/ StayBroken

Spec == Init /\ [][Next]_rvars

=============================================================================
