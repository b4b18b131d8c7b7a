--------------------------- MODULE SessionDaemon ---------------------------
(***************************************************************************)
(* The session daemon (session.py): it owns the arm processes and at most  *)
(* one run.  Each serve tick drains the operator's commands, reaps a       *)
(* finished consumer, tends the queued start, polls the dropout watchdog   *)
(* and tends the arm processes, in this order.                             *)
(*                                                                         *)
(* Refusals that depend on what is not modelled here (a malformed command, *)
(* a camera down, an unreachable leader or policy server, a config that    *)
(* does not compose) may happen to every start and leave it without        *)
(* effect.  Pacing and deadlines are events that may come at any tick.     *)
(***************************************************************************)
EXTENDS ArmNode, RunConsumer

CONSTANT Offered         \* the phases the operator starts

Phases == {"collection", "eval", "skill"}

ASSUME OfferedAssumption == Offered \subseteq Phases

VARIABLES
  runOn,     \* self.run is not None
  phase,     \* run.phase, and before that the phase of the start being handled
  active,    \* run.active_sides
  armed,     \* run.watchdog_armed
  pending,   \* the queued start: NoStart or [phase, timed]; timed: deadline set
  armsDown,  \* state.arms_down
  dpc,       \* the part of the serve tick the daemon is in
  want       \* history: the start the operator was promised and not yet given

daemon == <<runOn, phase, active, armed, pending, armsDown, dpc, want>>
vars == <<bus, arm, consumer, daemon>>

NoStart == [phase |-> "none", timed |-> FALSE]

DaemonInit ==
  /\ runOn = FALSE /\ phase = "none" /\ active = {} /\ armed = FALSE
  /\ pending = NoStart /\ armsDown = {} /\ dpc = "drain" /\ want = "none"

DaemonTypeOK ==
  /\ runOn \in BOOLEAN /\ armed \in BOOLEAN
  /\ phase \in Phases \cup {"none"} /\ want \in Phases \cup {"none"}
  /\ active \subseteq Sides /\ armsDown \subseteq Sides
  /\ pending \in {NoStart} \cup [phase : Phases, timed : BOOLEAN]
  /\ dpc \in {"drain", "fire", "launch", "pending", "watch", "tend"}
  /\ (runOn <=> con # "none")
  /\ dpc \in {"fire", "launch"} => phase \in Phases /\ ~runOn

\* Mutant: the streams are only looked at while a run is on.
BusyInRun == {s \in Sides : runOn /\ pub[s] = "control"}

\* _arms_still_in_control: what the status streams say, not what the arms do.
Busy == {s \in Sides : pub[s] = "control"}

----------------------------------------------------------------------------
(* The commands *)

\* The sides a start of phase p may command.  One follower without a usable
\* status makes an evaluation a dry run, and any status may turn out unsafe; a
\* skill drives the sides it was taught on, none of them down.
CommandSides(p) ==
  CASE p = "collection" -> {Sides}
    [] p = "eval" -> {{}} \cup (IF \A s \in Sides : pub[s] \in {"idle", "control"}
                                THEN {Sides} ELSE {})
    [] p = "skill" -> (SUBSET Sides) \ {{}}

\* The end of _handle_start, after the config is composed and the preflight has
\* probed the leaders or the policy server (which takes seconds): EnterControl
\* to each commanded arm, then the consumer.
Launch ==
  /\ dpc = "launch" /\ dpc' = "drain" /\ runSeq < MaxRuns
  /\ \E drive \in CommandSides(phase) :
       /\ drive \cap armsDown = {}
       /\ q' = [s \in Sides |-> IF s \in drive THEN Append(q[s], runSeq + 1) ELSE q[s]]
       /\ Spawn(drive, IF phase = "skill" THEN drive ELSE Sides)
  /\ runOn' = TRUE /\ active' = {} /\ armed' = FALSE
  /\ pending' = NoStart /\ want' = "none"
  /\ UNCHANGED <<arm, pub, channels, phase, armsDown>>

\* A start is refused at one of its gates; a start already queued stays queued.
Refuse ==
  /\ dpc \in {"fire", "launch"} /\ dpc' = "drain" /\ phase' = "none"
  /\ UNCHANGED <<bus, arm, consumer, runOn, active, armed, pending, armsDown, want>>

\* _set_pending and nothing else.
Queue(p, timed) ==
  /\ pending' = [phase |-> p, timed |-> timed] /\ want' = p
  /\ UNCHANGED <<bus, arm, con, runSeq, sides, watched, runOn, active, armed, armsDown>>

\* The first gates of _handle_start: an arm in control queues the start, an arm
\* down refuses it.
Gate(p) ==
  \/ /\ Busy = {} /\ (p # "skill" => armsDown = {})
     /\ dpc' = "launch" /\ phase' = p
     /\ UNCHANGED <<bus, arm, consumer, runOn, active, armed, pending, armsDown, want>>
  \/ /\ Busy # {} /\ Queue(p, TRUE)
     /\ dpc' = "drain" /\ phase' = "none"
     /\ UNCHANGED stopping

\* The start command.
HandleStart(p) == dpc = "drain" /\ ~runOn /\ Gate(p)

\* The switch command with a run to stop or an arm to wait for; otherwise it
\* is a start.
HandleSwitch(p) ==
  /\ dpc = "drain" /\ (runOn \/ Busy # {})
  /\ Queue(p, ~runOn)
  /\ stopping' = (stopping \/ runOn)
  /\ UNCHANGED <<phase, dpc>>

\* Mutant: the queued start survives the stop.
StopRunOnly == UNCHANGED pending /\ stopping' = (stopping \/ runOn)

\* The effect of _handle_stop on the run and on the queued start.
StopRun == pending' = NoStart /\ stopping' = (stopping \/ runOn)

HandleStop ==
  /\ dpc = "drain" /\ (pending # NoStart \/ (runOn /\ ~stopping))
  /\ StopRun
  /\ want' = "none"
  /\ UNCHANGED <<bus, arm, con, runSeq, sides, watched, runOn, phase, active, armed, armsDown, dpc>>

\* Replace an arm node now: stop or kill it, sweep its streams, drain its
\* queue, spawn.
HandleReconnectArm(s) ==
  /\ dpc = "drain" /\ ~runOn /\ pending = NoStart /\ s \notin Busy
  /\ Goto(s, "spawned") /\ NoSession(s) /\ Publish(s, "none")
  /\ q' = [q EXCEPT ![s] = <<>>]
  /\ UNCHANGED <<channels, consumer, daemon>>

----------------------------------------------------------------------------
(* The rest of the tick *)

\* Mutant: the manifests go, the segments stay.
SweepManifests == man' = [s \in Sides |-> NoRun] /\ UNCHANGED seg

\* cleanup_sub on the control registry: what a manifest names is unlinked and
\* the manifest removed.
SweepControl ==
  /\ man' = [s \in Sides |-> NoRun]
  /\ seg' = [s \in Sides |-> IF man[s] # NoRun THEN NoRun ELSE seg[s]]

\* _reap_consumer: sweep the control registry, forget the run.
ReapConsumer ==
  /\ dpc = "drain" /\ dpc' = "pending"
  /\ IF runOn /\ con = "down"
     THEN /\ SweepControl
          /\ runOn' = FALSE /\ phase' = "none" /\ active' = {} /\ armed' = FALSE
          /\ con' = "none" /\ sides' = {} /\ watched' = {} /\ stopping' = FALSE
          /\ sp' = [n \in Runs |-> IF \E s \in Sides : att[s] = n THEN sp[n] ELSE {}]
          /\ stp' = [n \in Runs |-> IF \E s \in Sides : att[s] = n THEN stp[n] ELSE {}]
     ELSE UNCHANGED <<man, seg, sp, stp, con, sides, watched, stopping, runOn, phase, active, armed>>
  /\ UNCHANGED <<q, pub, arm, runSeq, pending, armsDown, want>>

\* _tend_pending with nothing to tend, or with the run still stopping.
NothingPending ==
  /\ dpc = "pending" /\ dpc' = "watch" /\ (pending = NoStart \/ runOn)
  /\ UNCHANGED <<bus, arm, consumer, runOn, phase, active, armed, pending, armsDown, want>>

\* The arms are still in control: the first look arms the deadline.
AwaitArms ==
  /\ dpc = "pending" /\ dpc' = "watch" /\ pending # NoStart /\ ~runOn /\ Busy # {}
  /\ Queue(pending.phase, TRUE)
  /\ UNCHANGED <<stopping, phase>>

\* Its deadline passed.
AbandonPending ==
  /\ dpc = "pending" /\ dpc' = "watch" /\ pending # NoStart /\ ~runOn
  /\ pending.timed /\ Busy # {}
  /\ pending' = NoStart /\ want' = "none"
  /\ UNCHANGED <<bus, arm, consumer, runOn, phase, active, armed, armsDown>>

\* The session is idle: the queued start is handed to _handle_start, which looks
\* at the arms again and may queue it again.
FirePending ==
  /\ dpc = "pending" /\ dpc' = "fire" /\ pending # NoStart /\ ~runOn /\ Busy = {}
  /\ phase' = pending.phase
  /\ pending' = NoStart /\ want' = "none"
  /\ UNCHANGED <<bus, arm, consumer, runOn, active, armed, armsDown>>

Refire == dpc = "fire" /\ Gate(phase)

\* Mutant: only an arm whose status stream is gone counts.
Vanished == {s \in sides \cap active : pub[s] = "none"}

\* The commanded arms that were in control and no longer are.
FellOut == {s \in sides \cap active : pub[s] # "control"}

\* The commanded arms that are in control now.
Engaged == sides \cap Busy

\* _watch_arm_dropout.
WatchArmDropout ==
  /\ dpc = "watch" /\ dpc' = "tend"
  /\ runOn /\ ~stopping /\ sides # {}
  /\ IF armed /\ FellOut # {}
     THEN StopRun /\ UNCHANGED <<active, armed>>
     ELSE /\ active' = active \cup Engaged
          /\ armed' = (armed \/ sides \subseteq active')
          /\ UNCHANGED <<stopping, pending>>
  /\ UNCHANGED <<bus, arm, con, runSeq, sides, watched, runOn, phase, armsDown, want>>

\* _reap_dead_arm: sweep the streams, drain the queue.
ReapDead(Dead) ==
  /\ pub' = [s \in Sides |-> IF s \in Dead THEN "none" ELSE pub[s]]
  /\ q' = [s \in Sides |-> IF s \in Dead THEN <<>> ELSE q[s]]

\* _tend_arms: reap the dead nodes (sweep, drain, stop a run they fed), respawn
\* any of them while no run is active, report who is down.  A node blocked in
\* Enable may look stale.
TendArms ==
  /\ dpc \in {"watch", "tend"} /\ dpc' = "drain"
  /\ LET Dead == {s \in Sides : apc[s] = "dead"}
         Gone == Dead \cup {s \in Sides : apc[s] = "reaped"}
     IN \E Spawned \in SUBSET Gone, Stale \in SUBSET {s \in Sides : apc[s] = "enable"} :
          /\ runOn => Spawned = {}
          /\ apc' = [s \in Sides |-> CASE s \in Spawned -> "spawned"
                                       [] s \in Dead \ Spawned -> "reaped"
                                       [] OTHER -> apc[s]]
          /\ ReapDead(Dead)
          /\ armsDown' = Gone \cup Stale \cup {s \in Sides : pub[s] \in {"none", "empty"}}
          /\ IF runOn /\ ~stopping /\ \E s \in Dead : s \in sides \/ phase # "skill"
             THEN StopRun
             ELSE UNCHANGED <<stopping, pending>>
  /\ UNCHANGED <<msg, att, deaf, channels, con, runSeq, sides, watched,
                 runOn, phase, active, armed, want>>

\* Not yet time for the watchdog or for the hardware.
EndTick ==
  /\ dpc \in {"watch", "tend"} /\ dpc' = "drain"
  /\ UNCHANGED <<bus, arm, consumer, runOn, phase, active, armed, pending, armsDown, want>>

Command ==
  \/ \E p \in Offered : HandleStart(p) \/ HandleSwitch(p)
  \/ HandleStop
  \/ \E s \in Sides : HandleReconnectArm(s)

ServeTick ==
  \/ Launch \/ Refuse
  \/ ReapConsumer \/ NothingPending \/ AwaitArms \/ AbandonPending \/ FirePending \/ Refire
  \/ WatchArmDropout \/ TendArms \/ EndTick

=============================================================================
