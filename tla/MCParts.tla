------------------------------ MODULE MCParts -------------------------------
(***************************************************************************)
(* Instances for TLC of the parts below and beside the streams: how the    *)
(* library is set up and accepts, the vectors of parameters, formatted     *)
(* output, the table of asynchronous operations, and the descriptors of    *)
(* processes.  They share no state here, so each behaviour is one of one   *)
(* part, and the others stay as they begin.                                *)
(***************************************************************************)
EXTENDS FcgxInit, Params, VFPrintF, AsyncTable, Processes

VARIABLE part

Conv(op, arg) == [op |-> op, size |-> " ", flags |-> 0, width |-> 0, wstar |-> FALSE,
                  prec |-> -1, pstar |-> FALSE, arg |-> arg]

\* Items around the limits of the buffers of FCGX_VFPrintF: what an item of each
\* path and of each way to refuse one looks like.
MCItems == {
    Conv("text", 7), Conv("s", 120), Conv("d", 22), Conv("c", 0), Conv("n", 1), Conv("%", 1),
    Conv("other", 0), Conv("f", 1024),
    [Conv("f", 300) EXCEPT !.prec = 3, !.pstar = TRUE],
    [Conv("d", 5) EXCEPT !.width = 99, !.flags = MaxFlags],
    [Conv("x", 5) EXCEPT !.prec = 110, !.size = "l", !.width = 119],
    [Conv("e", 6) EXCEPT !.prec = Limit, !.pstar = TRUE, !.size = "L"],
    [Conv("s", 150) EXCEPT !.prec = 130],
    [Conv("s", 150) EXCEPT !.prec = -5, !.pstar = TRUE, !.wstar = TRUE],
    [Conv("f", 1) EXCEPT !.size = "h"],
    [Conv("d", 5) EXCEPT !.size = "L"],
    [Conv("x", 5) EXCEPT !.flags = MaxFlags + 20, !.width = 5] }

PartsInit ==
    /\ part \in {"startup", "params", "printf", "async", "processes"}
    /\ StartupInit /\ ParamsInit /\ PrintfInit /\ AsyncInit /\ ProcessesInit
    /\ part # "startup" => program = "threads" /\ ~fastCGI
    /\ part # "printf" => format = <<>>
    /\ part # "processes" => known[Parent] = {}

PartsNext ==
    /\ UNCHANGED part
    /\ \/ /\ part = "startup" /\ StartupNext
          /\ UNCHANGED <<paramsVars, printfVars, asyncVars, processesVars>>
       \/ /\ part = "params" /\ ParamsNext
          /\ UNCHANGED <<startupVars, printfVars, asyncVars, processesVars>>
       \/ /\ part = "printf" /\ PrintfNext
          /\ UNCHANGED <<startupVars, paramsVars, asyncVars, processesVars>>
       \/ /\ part = "async" /\ AsyncNext
          /\ UNCHANGED <<startupVars, paramsVars, printfVars, processesVars>>
       \/ /\ part = "processes" /\ ProcessesNext
          /\ UNCHANGED <<startupVars, paramsVars, printfVars, asyncVars>>

PartsSpec ==
    PartsInit /\ [][PartsNext]_<<part, startupVars, paramsVars, printfVars, asyncVars, processesVars>>

\* The types of the parts.
PartsTypeOK == /\ StartupTypeOK /\ ParamsTypeOK /\ PrintfTypeOK
               /\ AsyncTypeOK /\ ProcessesTypeOK

=============================================================================
