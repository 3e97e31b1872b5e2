--------------------------- MODULE MCSpreadEvents ---------------------------
(***************************************************************************)
(* The two ends of the stream of spread events, one of them at a time: the *)
(* worker of the monitor that publishes them, and the engine that acts on  *)
(* them.  NATS lies between and promises neither order nor delivery, so    *)
(* they share no state; what the engine may receive is any event.          *)
(*                                                                         *)
(* Worker: two quotes; the spread is below the threshold when both         *)
(* exchanges quote the first.                                              *)
(***************************************************************************)
EXTENDS ArbEngine, MonitorPipeline

CONSTANTS q1, q2
VARIABLE part

MCQuotes == {q1, q2}
MCNarrow == {<<q1, q1>>}

WorkerAtRest ==
    /\ PipelineInit
    /\ \A ex \in Exchanges : market[ex].quote = q1

MCInit ==
    \/ part = "worker" /\ PipelineInit /\ Init
    \/ part = "engine" /\ WorkerAtRest /\ Init

MCNext ==
    /\ UNCHANGED part
    /\ \/ part = "worker" /\ PipelineNext /\ UNCHANGED vars
       \/ part = "engine" /\ Next /\ UNCHANGED workerVars

MCSpec == MCInit /\ [][MCNext]_<<part, vars, workerVars>>
=============================================================================
