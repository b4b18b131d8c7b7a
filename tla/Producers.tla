----------------------------- MODULE Producers -----------------------------
(***************************************************************************)
(* What the readers of a session's streams may count on: the node's        *)
(* process declares its stream, writes, falls silent, exits, dies or is    *)
(* swept at any time; a run's consumer creates its streams when it is      *)
(* attached and releases them at its end.  HardwareNodes, where the daemon *)
(* supervises the node, implements this.                                   *)
(***************************************************************************)
EXTENDS StreamSegments

VARIABLES alive    \* is the process that declared the node's stream running?

producerVars == <<streamVars, alive>>

ProducersInit == StreamsInit /\ alive = FALSE

\* StreamProducerNode.run creates its streams before anything else.
NodeDeclares ==
    /\ ~alive /\ seg[Hw] = 0
    /\ Create({Hw})
    /\ alive' = TRUE
    /\ UNCHANGED <<sess, run>>

NodeWrites ==
    /\ alive
    /\ Write(Hw)
    /\ UNCHANGED <<sess, run, alive>>

NodeSilent ==
    /\ GrowOlder(Hw)
    /\ UNCHANGED <<sess, run, alive>>

\* run_node's teardown unlinks; a killed process leaves segment and entry.
NodeExits ==
    /\ alive
    /\ alive' = FALSE
    /\ Unlink({Hw})
    /\ UNCHANGED <<sess, run>>

NodeKilled ==
    /\ alive
    /\ alive' = FALSE
    /\ UNCHANGED streamVars

\* _sweep_node_streams, after the process has ended or was made to end.  An arm
\* that is swept takes the run with it.
Stopped(r) == IF r = NoRun THEN r ELSE [r EXCEPT !.at = "stopping"]

NodeSwept ==
    /\ seg[Hw] # 0
    /\ alive' = FALSE
    /\ Unlink({Hw})
    /\ run' \in {run, Stopped(run)}
    /\ UNCHANGED sess

StartRun(phase) ==
    /\ run = NoRun
    /\ run' = [phase |-> phase, at |-> "attach"]
    /\ UNCHANGED <<segmentVars, sess, alive>>

\* Brain.attach, then StreamWriter.create for the consumer's own streams, of
\* which those in watched have a reader.
RunAttaches(watched) ==
    /\ run.at = "attach"
    /\ Create(Published(run.phase) \cap watched)
    /\ run' = [run EXCEPT !.at = "live"]
    /\ UNCHANGED <<sess, alive>>

\* publish_comm, publish_horizon: packets are sent and answered in turn, an
\* answer brings a horizon.  A skill publishes its end pose.
RunPublishes ==
    /\ run.at = "live"
    /\ \E s \in RunStreams: seg[s] # 0 /\ Write(s)
    /\ UNCHANGED <<sess, run, alive>>

\* The policy server is slow between two packets.
CommSilent ==
    /\ run.at = "live" /\ seg["comm"] # 0
    /\ GrowOlder("comm")
    /\ UNCHANGED <<sess, run, alive>>

RunStopped ==
    /\ run.at \in {"attach", "live"}
    /\ run' = Stopped(run)
    /\ UNCHANGED <<segmentVars, sess, alive>>

\* The end of a run, by a stop or by itself: the finally blocks release what it
\* created.
RunEnds ==
    /\ run # NoRun
    /\ run' = NoRun
    /\ Unlink(RunStreams)
    /\ UNCHANGED <<sess, alive>>

\* The dashboard replaces the session; the old one takes everything down.
NewSession ==
    /\ sess < MaxSessions
    /\ sess' = sess + 1
    /\ run' = NoRun
    /\ Unlink(Streams)
    /\ alive' = FALSE

\* The steps that register no segment.
NodeStep == NodeWrites \/ NodeSilent \/ NodeExits \/ NodeKilled \/ NodeSwept
RunStep ==
    \/ \E phase \in Phases: StartRun(phase)
    \/ RunPublishes \/ CommSilent \/ RunStopped \/ RunEnds

ProducersNext ==
    \/ NodeStep \/ NodeDeclares
    \/ RunStep \/ \E watched \in SUBSET RunStreams: RunAttaches(watched)
    \/ NewSession

ProducersSpec == ProducersInit /\ [][ProducersNext]_producerVars
=============================================================================
