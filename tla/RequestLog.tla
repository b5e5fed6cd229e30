----------------------------- MODULE RequestLog -----------------------------
(***************************************************************************)
(* What a FastCGI connection promises to the web server that sends its     *)
(* requests over it: they are answered one after the other, in the order   *)
(* sent, each with its own content and one end, until the connection is    *)
(* dropped.  A server that begins a request before the last one has ended  *)
(* may find that it is never answered, and nothing more: the others are,   *)
(* still in the order sent.                                                *)
(***************************************************************************)
EXTENDS Naturals

CONSTANT MaxRequests       \* the requests are 1..MaxRequests, in the order sent

VARIABLES
    state,      \* of each request: "new" | "open" | "ended"
    content,    \* amount of content the server has for each request
    orderly,    \* the server waits for the end of a request before the next
    dropped     \* nothing more will come

Init ==
    /\ state = [r \in 1..MaxRequests |-> "new"]
    /\ content = [r \in 1..MaxRequests |-> 0]
    /\ orderly \in BOOLEAN
    /\ dropped = FALSE

\* The server begins a request.
Open(r) ==
    /\ state[r] = "new"
    /\ \A q \in 1..r-1 : state[q] # "new" /\ (orderly => state[q] = "ended")
    /\ state' = [state EXCEPT ![r] = "open"]
    /\ UNCHANGED <<content, orderly, dropped>>

\* Content and an end go to the latest request that got any, or to a later one once
\* that has ended; what was passed over gets none.
Served(r) ==
    /\ ~dropped /\ state[r] = "open"
    /\ \A q \in 1..r-1 : content[q] > 0 => state[q] = "ended"
    /\ \A q \in r+1..MaxRequests : content[q] = 0 /\ state[q] # "ended"

Answer(r) ==
    /\ Served(r)
    /\ content' = [content EXCEPT ![r] = @ + 1]
    /\ UNCHANGED <<state, orderly, dropped>>

End(r) ==
    /\ Served(r)
    /\ state' = [state EXCEPT ![r] = "ended"]
    /\ UNCHANGED <<content, orderly, dropped>>

Drop ==
    /\ dropped' = TRUE
    /\ UNCHANGED <<state, content, orderly>>

Next == Drop \/ \E r \in 1..MaxRequests : Open(r) \/ Answer(r) \/ End(r)

Spec == Init /\ [][Next]_<<state, content, orderly, dropped>>

=============================================================================
