----------------------------- MODULE ViserView -----------------------------
(***************************************************************************)
(* The Viser consumer: what its scene shows, by the stream and segment the *)
(* shown sample comes from.                                                *)
(***************************************************************************)
EXTENDS StreamReaders

VARIABLES
    newest,   \* the newest sample read of each stream: <<segment, number>>, or Nothing
    path,     \* horizon_paths: the segment the drawn joint path was read from, 0 for none
    targets   \* did the last pass show the targets of a run?

viserVars == <<newest, path, targets>>

Nothing == <<0, 0>>
NoTrace == <<"none", 0>>

ViserInit ==
    /\ newest = [s \in Streams |-> Nothing]
    /\ path = 0
    /\ targets = FALSE

\* One pass over the rings: the newest sample of every reader that has one.
ReadRings(readers, kept) ==
    [s \in Streams |->
        IF readers[s] # 0 /\ count[s][readers[s]] > 0
        THEN <<readers[s], count[s][readers[s]]>> ELSE kept[s]]

\* The joint path is read again whenever the horizon has a new sample, and is
\* forgotten with the attached session only.
NextPath(kept, read, sameRun) ==
    IF read["q_horizon"] # kept["q_horizon"] THEN read["q_horizon"][1]
    ELSE IF sameRun THEN path ELSE 0

\* RobotScene.update_targets: the ghost follows the joint horizon; the trace is
\* drawn when either horizon is there, from the joint path if there is one.
Trace ==
    IF newest["q_horizon"] = Nothing /\ newest["eef_horizon"] = Nothing THEN NoTrace
    ELSE IF path # 0 THEN <<"q_horizon", path>>
    ELSE IF newest["q_horizon"] # Nothing THEN <<"q_horizon", newest["q_horizon"][1]>>
    ELSE <<"eef_horizon", newest["eef_horizon"][1]>>

\* _render_scene: what is visible after a pass.
Scene == [node |-> newest[Hw],
          ghost |-> IF targets THEN newest["q_horizon"][1] ELSE 0,
          trace |-> IF targets THEN Trace ELSE NoTrace]

\* One turn of ViserConsumer.run.
ViserPass(discovers) ==
    LET readers == Attached(discovers)
        sameRun == ~discovers \/ FoundRun \in {vrun} \ {0}
        kept == [s \in Streams |-> IF Survives(discovers, s) THEN newest[s] ELSE Nothing]
        read == ReadRings(readers, kept)
    IN  /\ MayPass(discovers)
        /\ rd' = readers
        /\ vrun' = IF discovers THEN FoundRun ELSE vrun
        /\ newest' = read
        /\ path' = NextPath(kept, read, sameRun)
        /\ targets' = (run.phase \in {"eval_q", "eval_eef", "skill"})
        /\ UNCHANGED <<wanted, up>>

\* start_consumer and stop_consumer: the process has no memory of the last one.
ViserStarts == ~up /\ up' = TRUE /\ UNCHANGED <<wanted, vrun, rd, viserVars>>

ViserStops ==
    /\ up /\ up' = FALSE
    /\ vrun' = 0 /\ rd' = NoReaders
    /\ newest' = [s \in Streams |-> Nothing] /\ path' = 0 /\ targets' = FALSE
    /\ UNCHANGED wanted
=============================================================================
