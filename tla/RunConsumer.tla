---------------------------- MODULE RunConsumer ----------------------------
(***************************************************************************)
(* The consumer process of one run (CollectionNode, EvalNode, SkillNode    *)
(* over the Brain): it attaches the telemetry, creates the control         *)
(* channels of the sides it drives, posts setpoints until it is told to    *)
(* stop or is done, saves, posts STOP, unlinks its channels and exits.     *)
(* The manifests it published stay behind.  It may die at any point.       *)
(***************************************************************************)
EXTENDS RigBus

VARIABLES
  con,       \* where the process is; "none" when no consumer was spawned
  runSeq,    \* state.run_seq: the number of the current or last run
  sides,     \* the sides it drives (command_sides)
  watched,   \* the arms whose telemetry it attaches
  stopping   \* its stop event (run.stopping)

consumer == <<con, runSeq, sides, watched, stopping>>

ConsumerInit ==
  /\ con = "none" /\ runSeq = 0
  /\ sides = {} /\ watched = {} /\ stopping = FALSE

ConsumerTypeOK ==
  /\ con \in {"none", "attach", "open", "serve", "saving", "closing", "down"}
  /\ runSeq \in 0 .. MaxRuns
  /\ sides \subseteq Sides /\ watched \subseteq Sides
  /\ stopping \in BOOLEAN

\* Every process the daemon spawns for a run starts here (run_node).
Spawn(drive, watch) ==
  /\ runSeq' = runSeq + 1
  /\ con' = "attach" /\ sides' = drive /\ watched' = watch /\ stopping' = FALSE

\* Brain.attach: every manifest is there.
AttachTelemetry ==
  /\ con = "attach" /\ \A s \in watched : pub[s] # "none"
  /\ con' = "open"
  /\ UNCHANGED <<runSeq, sides, watched, stopping, bus>>

\* AttachAborted: a stop while waiting is a clean exit.
AttachAborted ==
  /\ con = "attach" /\ stopping
  /\ con' = "down"
  /\ UNCHANGED <<runSeq, sides, watched, stopping, bus>>

\* A stream was not published within attach_timeout_s.
AttachTimeout ==
  /\ con = "attach" /\ \E s \in watched : pub[s] = "none"
  /\ con' = "down"
  /\ UNCHANGED <<runSeq, sides, watched, stopping, bus>>

\* Brain.open_control: the channels of one side, segment then manifest.
OpenChannels(s) ==
  /\ con = "open" /\ s \in sides /\ man[s] # runSeq /\ seg[s] = NoRun
  /\ seg' = [seg EXCEPT ![s] = runSeq]
  /\ man' = [man EXCEPT ![s] = runSeq]
  /\ UNCHANGED <<consumer, q, pub, sp, stp>>

Serve ==
  /\ con = "open" /\ \A s \in sides : man[s] = runSeq
  /\ con' = "serve"
  /\ UNCHANGED <<runSeq, sides, watched, stopping, bus>>

\* Brain.command to the sides S in one pass of the loop.
PostSetpoint(S) ==
  /\ con = "serve"
  /\ sp' = [sp EXCEPT ![runSeq] = @ \cup S]
  /\ UNCHANGED <<consumer, q, pub, man, seg, stp>>

\* The loop ends: stop requested, run complete, or an error; the recording is
\* finalised before the arms are told.
EndLoop ==
  /\ con = "serve"
  /\ con' = "saving"
  /\ UNCHANGED <<runSeq, sides, watched, stopping, bus>>

\* Brain.stop_arms.
StopArms ==
  /\ con = "saving"
  /\ stp' = [stp EXCEPT ![runSeq] = sides]
  /\ con' = "closing"
  /\ UNCHANGED <<runSeq, sides, watched, stopping, q, pub, man, seg, sp>>

\* Brain.close: the segments are unlinked, the manifests are not removed.
Close ==
  /\ con = "closing"
  /\ seg' = [s \in Sides |-> IF s \in sides THEN NoRun ELSE seg[s]]
  /\ con' = "down"
  /\ UNCHANGED <<runSeq, sides, watched, stopping, q, pub, man, sp, stp>>

\* A kill, a segment that already exists, a recorder or a
\* policy that cannot be built: the process ends with its channels left.
Crash ==
  /\ con \in {"attach", "open", "serve", "saving", "closing"}
  /\ con' = "down"
  /\ UNCHANGED <<runSeq, sides, watched, stopping, bus>>

\* What the process does by itself; whether and when it posts a setpoint, and
\* when it ends unasked, depends on the leaders, the policy or the skill.
ConsumerStep ==
  \/ AttachTelemetry \/ AttachAborted \/ AttachTimeout
  \/ \E s \in Sides : OpenChannels(s)
  \/ Serve
  \/ stopping /\ EndLoop
  \/ StopArms \/ Close

ConsumerEvent == (\E S \in SUBSET sides : PostSetpoint(S)) \/ EndLoop \/ Crash

=============================================================================
