------------------------------ MODULE MCHooks ------------------------------
(***************************************************************************)
(* The two halves of main.c for TLC: the intake of events, or the judging  *)
(* of what is executed.  They share no variable; one of them moves while   *)
(* the other stands where it began.                                        *)
(***************************************************************************)
EXTENDS EventIntake, ExecPipeline

\* An idle worker has no file: any will do.
MCPipelineInit == PipelineInit /\ file = [w \in Workers |-> CHOOSE f \in Files : TRUE]

MCInit ==
    /\ Init
    /\ MCPipelineInit

MCNext ==
    \/ Next /\ MCPipelineInit /\ UNCHANGED pipelineVars
    \/ PipelineNext /\ Init /\ UNCHANGED vars

MCSpec ==
    /\ MCInit /\ [][MCNext]_<<vars, pipelineVars>>
    /\ Fairness
=============================================================================
