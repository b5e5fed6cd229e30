---------------------------- MODULE MCFcgxReader ----------------------------
(***************************************************************************)
(* Instances of FcgxReader for TLC: the conversations web servers hold.    *)
(***************************************************************************)
EXTENDS FcgxReader

\* A record of a conversation.
Rec(t, id, len, pad, req) ==
    [type |-> t, id |-> id, len |-> len, pad |-> pad, req |-> req,
     role |-> "RESPONDER", keep |-> TRUE]

Begin(id, req, r, k) ==
    [type |-> "BEGIN", id |-> id, len |-> BeginLen, pad |-> 0, req |-> req,
     role |-> r, keep |-> k]

\* Insert record x before position i of conversation s.
InsertRec(s, i, x) == SubSeq(s, 1, i-1) \o <<x>> \o SubSeq(s, i, Len(s))

\* One responder request: one pair split over two records, three input bytes.
Responder(id, req, k, pad) ==
    << Begin(id, req, "RESPONDER", k),
       Rec("PARAMS", id, 1, pad, req), Rec("PARAMS", id, 1, 0, req), Rec("PARAMS", id, 0, 0, req),
       Rec("STDIN", id, 2, pad, req), Rec("STDIN", id, 1, 0, req), Rec("STDIN", id, 0, 0, req) >>

\* The shortest conversation with an environment and an input.
Small(id, req, k, pad) ==
    << Begin(id, req, "RESPONDER", k),
       Rec("PARAMS", id, PairLen, pad, req), Rec("PARAMS", id, 0, 0, req),
       Rec("STDIN", id, 2, pad, req), Rec("STDIN", id, 0, 0, req) >>

Filter(id, req, k) ==
    << Begin(id, req, "FILTER", k), Rec("PARAMS", id, 0, 0, req),
       Rec("STDIN", id, 1, 0, req), Rec("STDIN", id, 0, 0, req),
       Rec("DATA", id, 2, 1, req), Rec("DATA", id, 0, 0, req) >>

\* Records a server may put between those of a request, with content and
\* padding as the library handles them rightly.
Interjections(req) ==
    { Rec("GET_VALUES", 0, PairLen, 1, req), Rec("OTHER", 0, 0, 0, req),
      Rec("STDIN", 2, 1, 1, req), Rec("OTHER", 2, 2, 0, req),
      Begin(2, req, "RESPONDER", TRUE) }

\* A second request is attempted only after the first one began.
Interrupted(s, noise) ==
    { InsertRec(s, i, x) : i \in 2..Len(s)+1, x \in noise }
    \cup { InsertRec(s, 1, x) : x \in {y \in noise : y.type # "BEGIN"} }

PlainScripts == { Responder(1, 1, k, 1) : k \in BOOLEAN }
NoisyScripts == Interrupted(Small(1, 1, FALSE, 1), Interjections(1))
KeepScripts == { Small(1, 1, TRUE, 1) \o Small(id, 2, k, 0) : id \in 1..2, k \in BOOLEAN }
               \cup { Filter(1, 1, TRUE) \o Small(1, 2, FALSE, 0) }
ServedScripts == PlainScripts \cup NoisyScripts \cup KeepScripts

\* Requests the library turns away, and conversations for the runs with faults.
RefusedScripts == { << Begin(1, 1, "UNKNOWN", TRUE) >>,
                    << Begin(0, 1, "RESPONDER", TRUE) >>,
                    << [Begin(1, 1, "RESPONDER", TRUE) EXCEPT !.len = 1] >> }
FaultNoise == { x \in Interjections(1) : x.id = 0 \/ x.type # "OTHER" }
\* Three requests, of which a server that pipelines may lose the second.
PipelinedScripts == { Small(1, 1, TRUE, 0) \o Small(1, 2, TRUE, 0) \o Small(1, 3, FALSE, 0) }
FaultScripts == RefusedScripts \cup PlainScripts \cup KeepScripts \cup PipelinedScripts
                \cup Interrupted(Small(1, 1, FALSE, 1), FaultNoise)

\* A record of another request without content.
EmptyForeign == { InsertRec(Small(1, 1, FALSE, 0), 4, Rec("STDIN", 2, 0, 0, 1)) }

\* The conversations of the runs that pass are what the theorems about the reader
\* assume; the one the reader gets wrong is not.
ASSUME ScriptsConform ==
    /\ \A s \in ServedScripts \cup FaultScripts : Conforming(s)
    /\ \A s \in EmptyForeign : ~Conforming(s)
    /\ \A s \in ServedScripts \cup FaultScripts : Numbered(s) /\ EndsWithInput(s)

=============================================================================
