-------------------------------- MODULE Params --------------------------------
(***************************************************************************)
(* The vectors of name=value strings: the environment of a request, which  *)
(* FCGX_Accept_r builds and the application sees as envp, and the one that *)
(* ProcessManagementRecord builds for the questions of FCGI_GET_VALUES,    *)
(* which may come while the environment is being read, also in the middle  *)
(* of a pair, or while the application reads its input.                    *)
(*                                                                         *)
(* A string is <<owner, k>>, the k-th of its owner; the role is number 0.  *)
(***************************************************************************)
EXTENDS Integers, Sequences, FiniteSets, SequencesExt, SequenceOps

CONSTANTS
    Names,          \* names of an environment
    RequestLength,  \* slots of a new environment
    ValuesLength,   \* slots of a new vector of questions
    MaxPairs,       \* bound: pairs of one owner
    MaxUnknown      \* bound: management records that are not understood

ASSUME ParamsAssumption ==
    /\ {RequestLength, ValuesLength} \subseteq Nat \ {0, 1} /\ {MaxPairs, MaxUnknown} \subseteq Nat

Owners == {"request", "values"}

\* What FCGI_GET_VALUES may ask for, with the lengths of the names, and what a
\* server may ask that the library does not know.
Variables == [FCGI_MAX_CONNS |-> 14, FCGI_MAX_REQS |-> 13, FCGI_MPXS_CONNS |-> 15]
Questions == DOMAIN Variables \cup {"OTHER"}

HeaderLen == 8
ResponseLen == 64   \* char response[64]

Null == <<"null", 0>>
Junk == <<"junk", 0>>
Absent == [vec |-> <<>>, cur |-> 0]

VARIABLES
    params,     \* [Owners -> a Params structure]: vec with its slots, cur counted from 1
    received,   \* [Owners -> the names of the pairs begun]
    held,       \* [Owners -> BOOLEAN]: nameValue is allocated and not yet in vec
    heap,       \* the strings allocated
    structs,    \* Params structures allocated
    unknown,    \* management records that were not understood
    stage,      \* "begin" | "params" | "app" | "values"
    back,       \* where the management record came
    readError,  \* the stream has an error
    moves,      \* how often the vector of the environment was moved
    envpTaken,  \* the value of moves when envp was taken
    response    \* bytes written to response

paramsVars == <<params, received, held, heap, structs, unknown, stage, back, readError, moves,
                envpTaken, response>>

-----------------------------------------------------------------------------
(* Operations on a structure.                                              *)

NewParams(length) == [vec |-> [i \in 1..length |-> IF i = 1 THEN Null ELSE Junk], cur |-> 1]

\* Mutant of PutParam: the vector grows when it is too late.
LatePutParam(p, string) ==
    LET full == p.cur > Len(p.vec)
        room == IF full THEN p.vec \o [i \in 1..Len(p.vec) |-> Junk] ELSE p.vec
    IN [vec |-> [i \in DOMAIN room |-> IF i = p.cur THEN string
                                       ELSE IF i = p.cur + 1 THEN Null ELSE room[i]],
        cur |-> p.cur + 1]

\* The string, then the NULL behind it, for which the vector is doubled.
PutParam(p, string) ==
    LET full == p.cur >= Len(p.vec)
        room == IF full THEN p.vec \o [i \in 1..Len(p.vec) |-> Junk] ELSE p.vec
    IN [vec |-> [i \in DOMAIN room |-> IF i = p.cur THEN string
                                       ELSE IF i = p.cur + 1 THEN Null ELSE room[i]],
        cur |-> p.cur + 1]

Strings(p) == {p.vec[i] : i \in 1..p.cur - 1}

FreeParams(o) ==
    /\ params' = [params EXCEPT ![o] = Absent]
    /\ received' = [received EXCEPT ![o] = <<>>]
    /\ structs' = structs - 1

\* FCGX_GetParam: the first string of that name; 0 for none.
Name(string) == IF string[2] = 0 THEN "ROLE" ELSE received[string[1]][string[2]]
GetParam(name) ==
    LET Found(i) == i < params["request"].cur /\ Name(params["request"].vec[i]) = name
    IN IF \E i \in DOMAIN params["request"].vec : Found(i)
       THEN params["request"].vec[CHOOSE i \in DOMAIN params["request"].vec :
                                     Found(i) /\ \A j \in 1..i-1 : ~Found(j)][2]
       ELSE -1

-----------------------------------------------------------------------------
(* FCGX_Accept_r and ReadParams.                                           *)

Reader == IF stage = "params" THEN "request" ELSE "values"
Held(o) == <<o, Len(received[o])>>

NewRequest ==
    /\ stage = "begin"
    /\ params' = [params EXCEPT !["request"] = PutParam(NewParams(RequestLength), <<"request", 0>>)]
    /\ heap' = heap \cup {<<"request", 0>>}
    /\ structs' = structs + 1
    /\ stage' = "params" /\ readError' = FALSE /\ moves' = 0
    /\ UNCHANGED <<received, held, unknown, back, envpTaken, response>>

\* The lengths are read and nameValue is allocated.
BeginPair ==
    /\ stage \in {"params", "values"} /\ ~held[Reader] /\ ~readError
    /\ Len(received[Reader]) < MaxPairs
    /\ \E name \in IF stage = "params" THEN Names ELSE Questions :
          /\ stage = "values" /\ name # "OTHER" => name \notin Range(received["values"])
          /\ received' = [received EXCEPT ![Reader] = Append(@, name)]
    /\ held' = [held EXCEPT ![Reader] = TRUE]
    /\ heap' = heap \cup {<<Reader, Len(received[Reader]) + 1>>}
    /\ UNCHANGED <<params, structs, unknown, stage, back, readError, moves, envpTaken, response>>

EndPair ==
    /\ stage \in {"params", "values"} /\ held[Reader] /\ ~readError
    /\ params' = [params EXCEPT ![Reader] = PutParam(@, Held(Reader))]
    /\ held' = [held EXCEPT ![Reader] = FALSE]
    /\ moves' = IF stage = "params" /\ Len(params'["request"].vec) # Len(params["request"].vec)
                THEN moves + 1 ELSE moves
    /\ UNCHANGED <<received, heap, structs, unknown, stage, back, readError, envpTaken, response>>

Freed(o) == Strings(params[o]) \cup (IF held[o] THEN {Held(o)} ELSE {})

\* The stream fails or ends within a pair of the environment: TryAgain.
CutParams ==
    /\ stage = "params"
    /\ heap' = heap \ Freed("request")
    /\ FreeParams("request")
    /\ held' = [held EXCEPT !["request"] = FALSE]
    /\ stage' = "begin"
    /\ UNCHANGED <<unknown, back, readError, moves, envpTaken, response>>

\* The end, or an error between two pairs.  envp is what the vector is by now.
ParamsDone ==
    /\ stage = "params" /\ ~held["request"]
    /\ stage' = "app"
    /\ envpTaken' = moves
    /\ UNCHANGED <<params, received, held, heap, structs, unknown, back, readError, moves,
                   response>>

\* FCGX_Finish_r.
FinishRequest ==
    /\ stage = "app"
    /\ heap' = heap \ Freed("request")
    /\ FreeParams("request")
    /\ stage' = "begin"
    /\ UNCHANGED <<held, unknown, back, readError, moves, envpTaken, response>>

-----------------------------------------------------------------------------
(* ProcessManagementRecord.                                                *)

GetValues ==
    /\ stage \in {"params", "app"} /\ ~readError
    /\ params' = [params EXCEPT !["values"] = NewParams(ValuesLength)]
    /\ structs' = structs + 1
    /\ back' = stage /\ stage' = "values" /\ response' = 0
    /\ UNCHANGED <<received, held, heap, unknown, readError, moves, envpTaken>>

\* The structure is made before the type is looked at, and only FCGI_GET_VALUES
\* frees it.
UnknownManagement ==
    /\ stage \in {"params", "app"} /\ ~readError /\ unknown < MaxUnknown
    /\ structs' = structs + 1
    /\ unknown' = unknown + 1
    /\ UNCHANGED <<params, received, held, heap, stage, back, readError, moves, envpTaken,
                   response>>

AlignInt8(n) == ((n + 7) \div 8) * 8

\* Two lengths, the name and one digit, for each variable the library knows.
AnswerOf(name) == IF name = "OTHER" THEN 0 ELSE Variables[name] + 3
AnswerLen == Total([i \in DOMAIN received["values"] |-> AnswerOf(received["values"][i])])

\* What sprintf wrote, its last NUL included, and what is sent with padding.
ValuesDone ==
    /\ stage = "values" /\ ~held["values"]
    /\ response' = HeaderLen + Max({AnswerLen + 1, AlignInt8(AnswerLen)})
    /\ heap' = heap \ Freed("values")
    /\ FreeParams("values")
    /\ stage' = back
    /\ UNCHANGED <<held, unknown, back, readError, moves, envpTaken>>

\* FCGX_PROTOCOL_ERROR of the stream that was being read.
ValuesCut ==
    /\ stage = "values"
    /\ heap' = heap \ Freed("values")
    /\ FreeParams("values")
    /\ held' = [held EXCEPT !["values"] = FALSE]
    /\ readError' = TRUE
    /\ stage' = back
    /\ UNCHANGED <<unknown, back, moves, envpTaken, response>>

-----------------------------------------------------------------------------

ParamsInit ==
    /\ params = [o \in Owners |-> Absent]
    /\ received = [o \in Owners |-> <<>>]
    /\ held = [o \in Owners |-> FALSE]
    /\ heap = {} /\ structs = 0 /\ unknown = 0
    /\ stage = "begin" /\ back = "params" /\ readError = FALSE
    /\ moves = 0 /\ envpTaken = 0 /\ response = 0

ParamsNext ==
    \/ NewRequest \/ BeginPair \/ EndPair \/ CutParams \/ ParamsDone \/ FinishRequest
    \/ GetValues \/ UnknownManagement \/ ValuesDone \/ ValuesCut

ParamsSpec == ParamsInit /\ [][ParamsNext]_paramsVars

-----------------------------------------------------------------------------

\* The types; an owner has its structure exactly while it is at work.
ParamsTypeOK ==
    /\ stage \in {"begin", "params", "app", "values"} /\ back \in {"params", "app"}
    /\ received["request"] \in Seq(Names) /\ received["values"] \in Seq(Questions)
    /\ params["values"] # Absent <=> stage = "values"
    /\ params["request"] # Absent <=> stage # "begin"
    /\ {structs, unknown, moves, envpTaken, response} \subseteq Nat

Used(o) == params[o] # Absent

\* Every vector ends with a NULL that is within it, whatever the number of pairs
\* and the length it began with: PutParam grows it in time (fcgiapp.c:1082).
RoomForNull ==
    \A o \in Owners : Used(o) =>
        /\ params[o].cur <= Len(params[o].vec)
        /\ params[o].vec[params[o].cur] = Null
        /\ Null \notin Strings(params[o]) /\ Junk \notin Strings(params[o])

\* Every string is in one vector or being read, on every way out of the nested
\* readings; the only structures lost are those of unknown management records.
HeapExact ==
    /\ heap = UNION {Strings(params[o]) \cup (IF held[o] THEN {Held(o)} ELSE {}) : o \in Owners}
    /\ \A o \in Owners : Cardinality(Strings(params[o])) = (IF Used(o) THEN params[o].cur - 1 ELSE 0)
    /\ structs = Cardinality({o \in Owners : Used(o)}) + unknown

\* envp, which the application keeps until it finishes the request, is the
\* vector that FreeParams frees then: it was taken after the last move
\* (fcgiapp.c:2253), and questions answered later move another one.
EnvpCurrent == stage = "app" => envpTaken = moves

\* FCGX_GetParam finds the first pair of every name that was sent, and no other,
\* however often the vector has grown; its own ROLE comes before any that was sent.
EnvironmentComplete ==
    stage = "app" => \A name \in Names \ {"ROLE"} :
        LET Sent(i) == i \in DOMAIN received["request"] /\ received["request"][i] = name
        IN IF \E i \in 1..MaxPairs : Sent(i)
           THEN Sent(GetParam(name)) /\ \A j \in 1..GetParam(name)-1 : ~Sent(j)
           ELSE GetParam(name) = -1

\* The answer to FCGI_GET_VALUES fits into response[64], for servers that ask for
\* a variable once: "64 = 8 + 3*(1+1+14+1)* + padding" (fcgiapp.c:1458).
ResponseFits == response <= ResponseLen

\* Whatever comes between the pairs and wherever they stop, the application has a
\* vector that is whole, ends with NULL, and is freed with all its strings.
ParamsSafe == RoomForNull /\ HeapExact /\ EnvpCurrent /\ EnvironmentComplete /\ ResponseFits

=============================================================================
