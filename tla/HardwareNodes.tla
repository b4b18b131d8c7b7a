--------------------------- MODULE HardwareNodes ---------------------------
(***************************************************************************)
(* A hardware node of a session under the daemon's supervision: a camera,  *)
(* an arm or the FACTR node, chosen initially.  The device comes and goes, *)
(* the process boots, delivers, stalls, exits or dies, the daemon reports, *)
(* kills, sweeps and respawns, and runs start, observe the node's stream   *)
(* and stop.  Implements Producers.                                        *)
(***************************************************************************)
EXTENDS StreamSegments

CONSTANTS Kinds    \* the hardware nodes to consider

VARIABLES
    kind,      \* "camera", "arm" or "factr": the node of this behaviour
    device,    \* does the device answer (plugged in, reachable)?
    proc,      \* the node's process: "off", "boot", "open" (streams declared), "up"
    handle,    \* can the open handle of the device still deliver?
    down,      \* is the node in state.cameras_down or state.arms_down?
    pinned     \* the segment of the node's stream that the run's Brain mapped, or 0

nodeVars == <<kind, device, proc, handle, down>>
vars == <<streamVars, nodeVars, pinned>>

Init ==
    /\ StreamsInit
    /\ kind \in Kinds /\ device \in BOOLEAN
    /\ proc = "boot" /\ handle = FALSE /\ down = FALSE /\ pinned = 0

----------------------------------------------------------------------------
(* The node's process.                                                     *)

\* A camera handle whose device once dropped never delivers again; the arm's
\* connection and the leader servers resume.
Delivering == proc = "up" /\ handle /\ device

\* StreamProducerNode.run declares its streams, then opens the source.
DeclareStreams ==
    /\ proc = "boot"
    /\ Create({Hw})
    /\ proc' = "open"
    /\ UNCHANGED <<kind, device, handle, down, sess, run, pinned>>

\* The sources' open(); the FACTR client connects in the background.
OpenSource ==
    /\ proc = "open"
    /\ device \/ kind = "factr"
    /\ proc' = "up" /\ handle' = TRUE
    /\ UNCHANGED <<kind, device, down, streamVars, pinned>>

\* open() raises when there is no device, poll() may raise later: run_node's
\* teardown closes, unlinks and unregisters.
ProcessEnds ==
    /\ \/ proc = "open" /\ ~device /\ kind # "factr"
       \/ proc = "up"
    /\ proc' = "off" /\ handle' = FALSE
    /\ Unlink({Hw})
    /\ UNCHANGED <<kind, device, down, sess, run, pinned>>

ProcessKilled ==
    /\ proc \in {"open", "up"}
    /\ proc' = "off" /\ handle' = FALSE
    /\ UNCHANGED <<kind, device, down, streamVars, pinned>>

\* poll() returned a sample; the node stamps and writes it.
PollDelivers ==
    /\ Delivering
    /\ Write(Hw)
    /\ UNCHANGED <<nodeVars, sess, run, pinned>>

\* poll() keeps returning None, or there is no process.
PollNothing ==
    /\ ~Delivering
    /\ GrowOlder(Hw)
    /\ UNCHANGED <<nodeVars, sess, run, pinned>>

Unplug ==
    /\ device
    /\ device' = FALSE
    /\ handle' = (handle /\ kind # "camera")
    /\ UNCHANGED <<kind, proc, down, streamVars, pinned>>

Plug ==
    /\ ~device
    /\ device' = TRUE
    /\ UNCHANGED <<kind, proc, handle, down, streamVars, pinned>>

----------------------------------------------------------------------------
(* The daemon's supervision.                                               *)

\* The timers of a unit (its boot grace, the pacing of respawns, the time a
\* stall must last) are not counted; in each pass they have run out or not.
\* A process that is starting or delivering is within its boot grace.
Starting == proc \in {"boot", "open"} \/ Delivering

\* _camera_producing and _arm_fresh look at the newest sample of the stream.
FreshForDaemon == HasSamples(Hw) /\ IF kind = "arm" THEN silence[Hw] < 2 ELSE silence[Hw] = 0

\* Mutant: the streams of the old process are not swept.
RespawnUnswept == proc' = "boot" /\ handle' = FALSE /\ UNCHANGED segmentVars

\* _sweep_node_streams, then a fresh process of the same node.
Respawn == proc' = "boot" /\ handle' = FALSE /\ Unlink({Hw})
KeepNode == UNCHANGED <<proc, handle, segmentVars>>
SweepDead == UNCHANGED <<proc, handle>> /\ Unlink({Hw})

\* Mutant: a silent camera is only reported, like an arm.
OnlyReportCamera == FALSE

\* _tend_cameras: a dead camera, and one that is alive and silent for too long,
\* is replaced, also during a run.
MustReplaceCamera == ~FreshForDaemon /\ ~Starting

TendCamera(due) ==
    /\ kind = "camera"
    /\ down' = ~(proc # "off" /\ FreshForDaemon)
    /\ IF due /\ (proc = "off" \/ MustReplaceCamera) THEN Respawn ELSE KeepNode
    /\ UNCHANGED run

\* _tend_arms, with _reap_dead_arm: a silent arm is only reported, a dead one
\* takes the run with it and is respawned once no run is active.
MayReplaceArm(due) == due /\ run = NoRun

TendArm(due) ==
    /\ kind = "arm"
    /\ down' = ~(proc # "off" /\ FreshForDaemon)
    /\ IF proc # "off" THEN KeepNode
       ELSE IF MayReplaceArm(due) THEN Respawn ELSE SweepDead
    /\ run' = IF proc = "off" /\ run # NoRun THEN [run EXCEPT !.at = "stopping"] ELSE run

\* _tend_factr: silence is no reason to replace the node.
TendFactr(due) ==
    /\ kind = "factr"
    /\ IF due /\ proc = "off" THEN Respawn ELSE KeepNode
    /\ UNCHANGED <<down, run>>

Tend(due) ==
    /\ TendCamera(due) \/ TendArm(due) \/ TendFactr(due)
    /\ UNCHANGED <<kind, device, sess, pinned>>

\* The operator's respawn_camera and reconnect_arm replace the node at once,
\* alive or dead.
ReplaceNode ==
    /\ kind # "factr"
    /\ run = NoRun \/ (kind = "camera" /\ run.phase = "skill")
    /\ Respawn
    /\ UNCHANGED <<kind, device, down, sess, run, pinned>>

----------------------------------------------------------------------------
(* Runs.                                                                   *)

\* The nodes a run of this phase observes through its Brain.
Observes(phase) ==
    \/ kind = "arm"
    \/ kind = "camera" /\ phase # "skill"
    \/ kind = "factr" /\ phase = "collection"

\* The gates of _handle_start: what the last pass over the hardware found, or
\* for the leaders (_factr_stale_sides) what their stream says now.
StartRefused(phase) ==
    /\ Observes(phase)
    /\ IF kind = "factr" THEN ~(HasSamples(Hw) /\ silence[Hw] = 0) ELSE down

HandleStart(phase) ==
    /\ run = NoRun
    /\ ~StartRefused(phase)
    /\ run' = [phase |-> phase, at |-> "attach"]
    /\ UNCHANGED <<segmentVars, nodeVars, sess, pinned>>

\* Brain.attach maps what is registered now, for the rest of the run.
BrainAttaches ==
    /\ run.at = "attach"
    /\ Observes(run.phase) => seg[Hw] # 0
    /\ run' = [run EXCEPT !.at = "live"]
    /\ pinned' = IF Observes(run.phase) THEN seg[Hw] ELSE 0
    /\ UNCHANGED <<segmentVars, nodeVars, sess>>

\* The run ends, by a stop or by itself.
ConsumerReaped ==
    /\ run # NoRun
    /\ run' = NoRun /\ pinned' = 0
    /\ UNCHANGED <<segmentVars, nodeVars, sess>>

\* The old daemon's teardown, and a new daemon that spawns its nodes and knows
\* nothing of them yet.
SessionReplaced ==
    /\ sess < MaxSessions
    /\ sess' = sess + 1
    /\ run' = NoRun /\ pinned' = 0
    /\ Unlink(Streams)
    /\ proc' = "boot" /\ handle' = FALSE /\ down' = FALSE
    /\ UNCHANGED <<kind, device>>

Next ==
    \/ DeclareStreams \/ OpenSource \/ ProcessEnds \/ ProcessKilled
    \/ PollDelivers \/ PollNothing \/ Unplug \/ Plug
    \/ \E due \in BOOLEAN: Tend(due)
    \/ ReplaceNode
    \/ \E phase \in Phases: HandleStart(phase)
    \/ BrainAttaches \/ ConsumerReaped \/ SessionReplaced

\* The operating system schedules the processes, the daemon's loop tends the
\* hardware every second and its timers run out, and a stopped run ends.
Fairness ==
    /\ WF_vars(DeclareStreams)
    /\ WF_vars(OpenSource)
    /\ WF_vars(proc = "open" /\ ProcessEnds)
    /\ WF_vars(PollDelivers)
    /\ WF_vars(PollNothing)
    /\ WF_vars(Tend(TRUE))
    /\ WF_vars(run.at = "stopping" /\ ConsumerReaped)

Spec == Init /\ [][Next]_vars /\ Fairness

----------------------------------------------------------------------------
\* Supervision shows the readers nothing that Producers does not: whatever the
\* daemon, the operator and the device do, a stream name is unregistered before
\* it is registered again, and no sample is written by a dead process.
Abstract == INSTANCE Producers WITH alive <- proc \in {"open", "up"}
ImplementsProducers == Abstract!ProducersSpec

\* A node whose device is there delivers again, also after the device was gone,
\* the process died or its handle was lost, without the operator: _tend_cameras
\* says a recovered camera "comes back automatically without restarting the
\* session".  (The bound on segments may be used up first.)
UsedUp == proc = "boot" /\ made[Hw] = MaxSegments
NodeComesBack == <>[]device => []<>(Delivering \/ UsedUp)

\* Refuted for cameras and FACTR: the node a run was attached to is not replaced
\* under it.  The run's Brain maps the segments once (Brain.attach) and goes on
\* with the frozen values of the old one.
RunKeepsItsNode ==
    run.at = "live" /\ pinned # 0 /\ proc \in {"open", "up"} => pinned = seg[Hw]
=============================================================================
