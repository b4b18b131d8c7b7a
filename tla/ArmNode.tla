------------------------------ MODULE ArmNode ------------------------------
(***************************************************************************)
(* The arm process (interfaces/flexiv/interface.py): it publishes its      *)
(* telemetry streams, connects to the robot and then alternates between    *)
(* IDLE telemetry and control sessions.  One session: servo on, wait for   *)
(* the brain's channels, attach, wait for the first setpoint, MoveJ to it, *)
(* track setpoints; every exit stops the robot and closes the readers.     *)
(*                                                                         *)
(* Timeouts, faults, the deadman and RDK errors are events that may happen *)
(* whenever the code waits for them.  An exception other than TimeoutError *)
(* leaves the session loop and ends the process after its teardown.        *)
(***************************************************************************)
EXTENDS RigBus

CONSTANT Fragile         \* the arms whose process may be killed or raise

VARIABLES
  apc,     \* where the process is
  msg,     \* the run whose EnterControl (coefficients) the session serves
  att,     \* the run whose channels the session attached
  deaf     \* STOP was in the command ring before the cursor's baseline

arm == <<apc, msg, att, deaf>>

\* Stages of a control session.  In "start" MoveJ has been commanded and its
\* first poll is still to come; from "movej" on the robot moves and says so.
Bootstrap == {"enable", "channels", "first", "start"}
Driving == {"movej", "loop"}
Session == Bootstrap \cup Driving
Alive == {"spawned", "boot", "idle"} \cup Session

ArmInit ==
  /\ apc = [s \in Sides |-> "spawned"]
  /\ msg = [s \in Sides |-> NoRun]
  /\ att = [s \in Sides |-> NoRun]
  /\ deaf = [s \in Sides |-> FALSE]

ArmTypeOK ==
  /\ apc \in [Sides -> Alive \cup {"dead", "reaped"}]
  /\ msg \in [Sides -> Runs \cup {NoRun}]
  /\ att \in [Sides -> Runs \cup {NoRun}]
  /\ deaf \in [Sides -> BOOLEAN]
  \* a session holds its message, and from the attach on its channels
  /\ \A s \in Sides : msg[s] # NoRun <=> apc[s] \in Session
  /\ \A s \in Sides : att[s] # NoRun <=> apc[s] \in {"first", "start"} \cup Driving

Goto(s, pc) == apc' = [apc EXCEPT ![s] = pc]
Publish(s, flag) == pub' = [pub EXCEPT ![s] = flag]
NoSession(s) ==
  /\ msg' = [msg EXCEPT ![s] = NoRun]
  /\ att' = [att EXCEPT ![s] = NoRun]
  /\ deaf' = [deaf EXCEPT ![s] = FALSE]

\* The finally of _control_session: robot stopped, readers closed, IDLE.  No
\* telemetry is written before the queue is polled again.
Leave(s) == Goto(s, "idle") /\ NoSession(s) /\ UNCHANGED bus

\* An exception other than TimeoutError: the finally above, then _teardown
\* removes the telemetry streams and run_node exits non-zero.
Die(s) == Goto(s, "dead") /\ NoSession(s) /\ Publish(s, "none") /\ UNCHANGED <<q, channels>>

----------------------------------------------------------------------------
(* Process start and the IDLE loop *)

\* StreamWriter.create fails on a leaked segment of the same name.
CreateStreams(s) ==
  /\ apc[s] = "spawned"
  /\ IF pub[s] = "none"
     THEN Publish(s, "empty") /\ Goto(s, "boot")
     ELSE Goto(s, "dead") /\ UNCHANGED pub
  /\ UNCHANGED <<msg, att, deaf, q, channels>>

Connect(s) ==
  /\ apc[s] = "boot"
  /\ Goto(s, "idle")
  /\ UNCHANGED <<msg, att, deaf, bus>>

\* _poll_session_q found nothing: one IDLE telemetry tick.
IdleTick(s) ==
  /\ apc[s] = "idle" /\ q[s] = <<>>
  /\ Publish(s, "idle")
  /\ UNCHANGED <<arm, q, channels>>

EnterControl(s) ==
  /\ apc[s] = "idle" /\ q[s] # <<>>
  /\ msg' = [msg EXCEPT ![s] = Head(q[s])]
  /\ q' = [q EXCEPT ![s] = Tail(@)]
  /\ Goto(s, "enable")
  /\ UNCHANGED <<att, deaf, pub, channels>>

----------------------------------------------------------------------------
(* One control session *)

\* The eager Enable returned; nothing was published while it blocked.
Enabled(s) ==
  /\ apc[s] = "enable"
  /\ Goto(s, "channels")
  /\ UNCHANGED <<msg, att, deaf, bus>>

\* Mutant: no deadline on the first setpoint.
TimedOutBeforeAttach(s) ==
  /\ \/ apc[s] = "enable"
     \/ apc[s] = "channels" /\ man[s] = NoRun
  /\ Leave(s)

\* Enable, the channels or the first setpoint did not come in time.
TimedOut(s) ==
  /\ \/ apc[s] = "enable"
     \/ apc[s] = "channels" /\ man[s] = NoRun
     \/ apc[s] = "first" /\ s \notin sp[att[s]]
  /\ Leave(s)

\* A telemetry tick of _await_channels or _await_first_setpoint.
WaitTick(s) ==
  /\ \/ apc[s] = "channels" /\ man[s] = NoRun
     \/ apc[s] = "first" /\ s \notin sp[att[s]]
  /\ Publish(s, "control")
  /\ UNCHANGED <<arm, q, channels>>

\* Both manifests are there.  The command cursor starts at the ring's head, so
\* a STOP already posted is never drained.
AttachChannels(s) ==
  /\ apc[s] = "channels" /\ man[s] # NoRun /\ seg[s] = man[s]
  /\ att' = [att EXCEPT ![s] = seg[s]]
  /\ deaf' = [deaf EXCEPT ![s] = s \in stp[seg[s]]]
  /\ Goto(s, "first")
  /\ UNCHANGED <<msg, bus>>

\* The manifest names a segment its owner has unlinked: FileNotFoundError.
AttachFails(s) ==
  /\ apc[s] = "channels" /\ man[s] # NoRun /\ seg[s] # man[s]
  /\ Die(s)

StopSeen(s) == s \in stp[att[s]] /\ ~deaf[s]

StopDrained(s) ==
  /\ apc[s] \in {"first", "movej", "loop"} /\ StopSeen(s)
  /\ Leave(s)

\* The first setpoint is there and passes the preflight: MoveJ is started.
StartMoveJ(s) ==
  /\ apc[s] = "first" /\ ~StopSeen(s) /\ s \in sp[att[s]]
  /\ Goto(s, "start")
  /\ UNCHANGED <<msg, att, deaf, bus>>

\* The first poll of MoveJ writes telemetry (and drains the commands next).
PollMoveJ(s) ==
  /\ apc[s] = "start"
  /\ Goto(s, "movej") /\ Publish(s, "control")
  /\ UNCHANGED <<msg, att, deaf, q, channels>>

\* reachedTarget, mode switched, coefficients applied.
ReachedTarget(s) ==
  /\ apc[s] = "movej" /\ ~StopSeen(s)
  /\ Goto(s, "loop")
  /\ UNCHANGED <<msg, att, deaf, bus>>

\* Robot fault or SafetyHalt.
Halt(s) == apc[s] = "loop" /\ Leave(s)
\* The newest setpoint is older than deadman_hard_ms.
Deadman(s) == apc[s] = "loop" /\ ~StopSeen(s) /\ Leave(s)

\* An exception other than TimeoutError anywhere in run(): the connection fails,
\* a fault does not clear, the first target is too far from the measured pose,
\* an RDK call raises.
Raise(s) == s \in Fragile /\ apc[s] \in Alive \ {"spawned"} /\ Die(s)

\* SIGKILL or a crash of the interpreter: nothing is cleaned up.
Kill(s) ==
  /\ s \in Fragile /\ apc[s] \in Alive
  /\ Goto(s, "dead") /\ NoSession(s)
  /\ UNCHANGED bus

\* Steps the process takes by itself; ReachedTarget also needs the robot to arrive.
ArmStep(s) ==
  \/ CreateStreams(s) \/ Connect(s) \/ IdleTick(s) \/ EnterControl(s)
  \/ Enabled(s) \/ TimedOut(s) \/ WaitTick(s)
  \/ AttachChannels(s) \/ AttachFails(s) \/ StopDrained(s)
  \/ StartMoveJ(s) \/ PollMoveJ(s)

ArmEvent(s) == ReachedTarget(s) \/ Raise(s) \/ Halt(s) \/ Deadman(s) \/ Kill(s)

=============================================================================
