----------------------------- MODULE ArmControl -----------------------------
(***************************************************************************)
(* One arm's control sessions in time, from the attached channels on       *)
(* (ArmNode has the way there): MoveJ, the loop that tracks setpoints      *)
(* under the two deadmen and the joint error gate, and the way out.  The   *)
(* loop is the Python one of interfaces/flexiv/interface.py or, with       *)
(* rt_streaming, the process of native/flexiv_rt_controller/main.cpp, to   *)
(* which the arm node hands the robot connection.                          *)
(*                                                                         *)
(* Time is counted in ticks.  The setpoint ring is used through what       *)
(* SeqlockRing shows of it: a read finds the newest sample, or tears when  *)
(* the brain posts during the read.  RDK calls may block or raise.         *)
(***************************************************************************)
EXTENDS Integers

CONSTANTS
  Kinds,           \* which loops the arm may be configured for
  Soft, Hard,      \* deadman_ms, deadman_hard_ms
  MaxLag,          \* the longest a pass of the loop takes
  VMax, AMax,      \* max_joint_vel, max_joint_acc (per pass)
  Tolerance,       \* control_tolerance
  Setpoints,       \* joint targets the brain posts
  MaxSessions      \* bound on control sessions

ASSUME ArmAssumption ==
  /\ Kinds \subseteq {"python", "native"}
  /\ Soft \in Nat /\ Hard \in Nat /\ MaxLag \in Nat \ {0} /\ Soft <= Hard
  /\ VMax \in Nat \ {0} /\ AMax \in Nat \ {0}
  /\ Tolerance \in Nat /\ Setpoints \subseteq Int /\ MaxSessions \in Nat

VARIABLES
  kind,     \* the configured loop
  ses,      \* control sessions begun
  brain,    \* "up", "closed" after stop_arms and close, "killed"
  stop,     \* STOP is in the command ring
  sp,       \* the newest setpoint
  age,      \* and how long ago it was posted
  lag,      \* time since the loop's pass began (t_ns, now)
  apc,      \* where the arm process is
  raised,   \* its session ends in an exception
  shut,     \* its stop event is set
  npc,      \* where the native process is
  code,     \* its exit status
  term,     \* it was sent SIGTERM
  seen,     \* the age of its last_setpoint_time
  want,     \* its desired_q
  traj,     \* its target_q, target_dq, target_ddq
  gw,       \* its gripper worker
  py, nt,   \* the RDK connections of the two processes
  rob,      \* the robot: "idle", "ready", "movej", "track"
  grip,     \* the Python loop drives the gripper
  gm,       \* a gripper Move was sent since the gripper's last Stop
  left,     \* what was left without its Stop: "robot", "gripper"
  orphan,   \* the native process outlived the arm process
  after     \* targets sent since STOP was posted

conf == <<kind, ses, shut>>
feed == <<brain, stop, sp>>
clock == <<age, lag>>
armp == <<apc, raised, py, grip>>
proc == <<npc, code, term, nt, orphan>>
motion == <<seen, want, traj>>
robot == <<rob, gm, left>>
vars == <<conf, feed, clock, armp, proc, motion, gw, robot, after>>

AgeCap == Hard + 2 * MaxLag + 1
Older(a) == IF a < AgeCap THEN a + 1 ELSE a
Abs(x) == IF x < 0 THEN -x ELSE x
Clamp(x, lo, hi) == IF x < lo THEN lo ELSE IF x > hi THEN hi ELSE x

PyLoop == {"top", "read", "send"}
PySession == {"enable", "movej", "grip", "leave", "spawn", "wait", "reopen"} \cup PyLoop
NtLoop == {"top", "read", "stream"}
NtAlive == {"connect", "enable", "movej", "grip", "gstop", "stop"} \cup NtLoop

FlagsOK ==
  /\ stop \in BOOLEAN /\ raised \in BOOLEAN /\ shut \in BOOLEAN /\ term \in BOOLEAN
  /\ py \in BOOLEAN /\ nt \in BOOLEAN /\ grip \in BOOLEAN /\ gm \in BOOLEAN /\ orphan \in BOOLEAN
TypeOK ==
  /\ FlagsOK
  /\ kind \in Kinds /\ ses \in 0 .. MaxSessions
  /\ brain \in {"up", "closed", "killed"} /\ sp \in Setpoints
  /\ age \in 0 .. AgeCap /\ lag \in 0 .. MaxLag /\ seen \in 0 .. AgeCap
  /\ apc \in {"idle", "dead"} \cup PySession
  /\ npc \in {"none", "exited"} \cup NtAlive
  /\ code \in {0, 1} /\ gw \in {"none", "idle", "decided", "off"}
  /\ rob \in {"idle", "ready", "movej", "track"}
  /\ traj \in [q : Int, v : Int, a : Int] /\ want \in Int
  /\ left \subseteq {"robot", "gripper"} /\ after \in 0 .. 2

AtRest(p) == [q |-> p, v |-> 0, a |-> 0]

Init ==
  /\ kind \in Kinds /\ ses = 0
  /\ brain = "closed" /\ stop = FALSE /\ sp \in Setpoints /\ age = AgeCap /\ lag = 0
  /\ apc = "idle" /\ raised = FALSE /\ shut = FALSE /\ py = TRUE /\ grip = FALSE
  /\ npc = "none" /\ code = 0 /\ term = FALSE /\ gw = "none" /\ nt = FALSE
  /\ seen = 0 /\ want = 0 /\ traj = AtRest(0)
  /\ rob = "idle" /\ gm = FALSE /\ left = {} /\ orphan = FALSE /\ after = 0

----------------------------------------------------------------------------
(* Time and the brain *)

InPass == apc \in PyLoop \/ npc \in NtLoop

\* A pass of the loop takes at most MaxLag.
Tick ==
  /\ InPass => lag < MaxLag
  /\ age' = Older(age) /\ seen' = IF npc \in {"movej", "grip"} \cup NtLoop THEN Older(seen) ELSE seen
  /\ lag' = IF InPass THEN lag + 1 ELSE lag
  /\ UNCHANGED <<conf, feed, armp, proc, want, traj, gw, robot, after>>

\* Brain.command: latest-wins.
Post ==
  /\ brain = "up"
  /\ sp' \in Setpoints /\ age' = 0
  /\ UNCHANGED <<conf, brain, stop, lag, armp, proc, motion, gw, robot, after>>

\* stop_arms and close at the end of the run, or the consumer is killed.
BrainEnds ==
  /\ brain = "up"
  /\ \/ brain' = "closed" /\ stop' = TRUE
     \/ brain' = "killed" /\ UNCHANGED stop
  /\ UNCHANGED <<conf, sp, clock, armp, proc, motion, gw, robot, after>>

\* The daemon sets the arm's stop event.
ShutDown ==
  /\ ~shut /\ apc # "dead" /\ shut' = TRUE
  /\ UNCHANGED <<kind, ses, feed, clock, armp, proc, motion, gw, robot, after>>

\* A tear of the newest slot takes a post since the pass began.
Torn == brain = "up" /\ age <= lag

----------------------------------------------------------------------------
(* The session of the arm process *)

\* EnterControl with a run whose channels hold a first setpoint.  (Without a
\* robot the telemetry of the wait for the channels raises: IdleEnds.  A session
\* beside an orphaned native process is outside the model.)
BeginSession ==
  /\ apc = "idle" /\ py /\ ~shut /\ ses < MaxSessions /\ npc = "none"
  /\ ses' = ses + 1 /\ brain' = "up" /\ stop' = FALSE /\ after' = 0
  /\ sp' \in Setpoints /\ age' = 0
  /\ apc' = IF kind = "native" THEN "spawn" ELSE "enable"
  /\ UNCHANGED <<kind, shut, lag, raised, py, grip, proc, motion, gw, robot>>

ArmTo(pc) == apc' = pc /\ UNCHANGED <<raised, py, grip>>
Ends(exc) == apc' = "leave" /\ raised' = exc /\ UNCHANGED <<py, grip>>

\* enter_control, the preflight of the first target, MoveJ started; a control
\* kind other than qpos switches the mode at once.
EnableAndMoveJ ==
  /\ apc = "enable"
  /\ \/ ArmTo("movej") /\ rob' = "movej"
     \/ ArmTo("grip") /\ rob' = "ready"
     \/ \E exc \in BOOLEAN : Ends(exc) /\ rob' \in {rob, "ready"}
  /\ UNCHANGED <<conf, feed, clock, proc, motion, gw, gm, left, after>>

\* The poll of MoveJ: abort, arrival (mode switched, coefficients applied), error.
PollMoveJ ==
  /\ apc = "movej"
  /\ \/ (stop \/ shut) /\ Ends(FALSE) /\ UNCHANGED rob
     \/ ~stop /\ ~shut /\ ArmTo("grip") /\ rob' = "ready"
     \/ Ends(TRUE) /\ UNCHANGED rob
  /\ UNCHANGED <<conf, feed, clock, proc, motion, gw, gm, left, after>>

\* setup_gripper: ready, or no channel, disabled, failed.
SetupGripper ==
  /\ apc = "grip"
  /\ grip' \in BOOLEAN /\ apc' = "top" /\ lag' = 0
  /\ UNCHANGED <<conf, feed, age, raised, py, proc, motion, gw, robot, after>>

LoopTop ==
  /\ apc = "top"
  /\ IF shut THEN Ends(FALSE) ELSE ArmTo("read")
  /\ lag' = 0
  /\ UNCHANGED <<conf, feed, age, proc, motion, gw, robot, after>>

\* Mutant: a stale setpoint is only held.
ReadSoft ==
  /\ apc = "read"
  /\ \/ Ends(FALSE)
     \/ ~stop /\ (Torn \/ age - lag > Soft) /\ ArmTo("top")
     \/ ~stop /\ age - lag <= Soft /\ ArmTo("send")
  /\ UNCHANGED <<conf, feed, clock, proc, motion, gw, robot, after>>

\* Mutant: commands are drained only when there is no fresh setpoint.
ReadStopLast ==
  /\ apc = "read"
  /\ \/ Ends(FALSE)
     \/ ~stop /\ Torn /\ ArmTo("top")
     \/ age - lag > Hard /\ Ends(FALSE)
     \/ ~stop /\ age - lag \in Soft + 1 .. Hard /\ ArmTo("top")
     \/ age - lag <= Soft /\ ArmTo("send")
  /\ UNCHANGED <<conf, feed, clock, proc, motion, gw, robot, after>>

\* Fault, commands, newest setpoint, deadmen.
LoopRead ==
  /\ apc = "read"
  /\ \/ Ends(FALSE)                                    \* fault, STOP
     \/ Ends(TRUE)                                     \* states() raises
     \/ ~stop /\ Torn /\ ArmTo("top")
     \/ ~stop /\ age - lag > Hard /\ Ends(FALSE)
     \/ ~stop /\ age - lag \in Soft + 1 .. Hard /\ ArmTo("top")
     \/ ~stop /\ age - lag <= Soft /\ ArmTo("send")
  /\ UNCHANGED <<conf, feed, clock, proc, motion, gw, robot, after>>

Sent == after' = IF stop /\ after < 2 THEN after + 1 ELSE after

\* send_control, then the gripper: Move, nothing to do, or a failure that turns
\* it off for the session.
LoopSend ==
  /\ apc = "send"
  /\ \/ \E exc \in BOOLEAN : Ends(exc) /\ UNCHANGED <<rob, gm, after>>  \* SafetyHalt, error
     \/ /\ rob' = "track" /\ Sent /\ apc' = "top" /\ UNCHANGED <<raised, py>>
        /\ \/ UNCHANGED <<grip, gm>>
           \/ grip /\ gm' = TRUE /\ UNCHANGED grip
           \/ grip /\ gm' = FALSE /\ grip' = FALSE
  /\ UNCHANGED <<conf, feed, clock, proc, motion, gw, left>>

\* The finally of _control_session: stop_gripper, Stop (which may raise and is
\* then only logged); a source whose reopening failed has no robot to stop.
Leave ==
  /\ apc = "leave"
  /\ gm' = (gm /\ ~grip) /\ grip' = FALSE
  /\ \/ py /\ rob' = "idle" /\ left' = left \ {"robot"}
     \/ left' = left \cup {"robot"} /\ UNCHANGED rob
  /\ apc' = IF raised \/ shut THEN "dead" ELSE "idle"
  /\ raised' = FALSE /\ py' = (py /\ ~raised /\ ~shut)
  /\ UNCHANGED <<conf, feed, clock, proc, motion, gw, after>>

\* IDLE telemetry of a source whose reopening failed; the stop event.
IdleEnds ==
  /\ apc = "idle" /\ (shut \/ ~py)
  /\ apc' = "dead" /\ py' = FALSE
  /\ UNCHANGED <<conf, feed, clock, raised, grip, proc, motion, gw, robot, after>>

\* SIGKILL, at any time: the native process goes on.
Kill ==
  /\ apc # "dead"
  /\ apc' = "dead" /\ raised' = FALSE /\ py' = FALSE /\ grip' = FALSE
  /\ left' = {"robot", "gripper"}
  /\ IF npc \in NtAlive THEN orphan' = TRUE /\ UNCHANGED npc ELSE orphan' = FALSE /\ npc' = "none"
  /\ UNCHANGED <<conf, feed, clock, code, term, nt, motion, gw, rob, gm, after>>

\* The daemon respawns the node: a new connection, IDLE.
Respawn ==
  /\ apc = "dead"
  /\ apc' = "idle" /\ py' = TRUE /\ shut' = FALSE
  /\ UNCHANGED <<kind, ses, feed, clock, raised, grip, proc, motion, gw, robot, after>>

----------------------------------------------------------------------------
(* Handing the robot to the native process and back *)

\* Mutant: the Python connection stays open.
SpawnBeside ==
  /\ apc = "spawn" /\ apc' = "wait"
  /\ npc' = "connect" /\ code' = 0 /\ term' = FALSE
  /\ UNCHANGED <<conf, feed, clock, raised, py, grip, nt, orphan, motion, gw, robot, after>>

\* find_controller, close_source, Popen.
SpawnNative ==
  /\ apc = "spawn"
  /\ \/ /\ apc' = "wait" /\ py' = FALSE /\ UNCHANGED raised
        /\ npc' = "connect" /\ code' = 0 /\ term' = FALSE
     \/ apc' = "leave" /\ raised' = TRUE /\ UNCHANGED <<py, npc, code, term>>
  /\ UNCHANGED <<conf, feed, clock, grip, nt, orphan, motion, gw, robot, after>>

\* The native process and its locals are gone; its status waits for the arm process.
Exit ==
  /\ npc' = (IF orphan THEN "none" ELSE "exited")
  /\ nt' = FALSE /\ orphan' = FALSE /\ gw' = "none"
  /\ seen' = 0 /\ want' = 0 /\ traj' = AtRest(0)
\* It is gone without unwinding.
Vanish ==
  /\ Exit /\ code' = 1
  /\ left' = left \cup {"gripper"} /\ UNCHANGED term

\* run_controller: SIGTERM on the stop event, SIGKILL when that is not obeyed.
Terminate ==
  /\ apc = "wait" /\ npc \in NtAlive /\ shut
  /\ IF term THEN Vanish ELSE term' = TRUE /\ UNCHANGED <<npc, code, nt, orphan, gw, motion, left>>
  /\ UNCHANGED <<conf, feed, clock, armp, rob, gm, after>>

\* The process ended; a status other than 0 raises after open_source.
NativeEnded ==
  /\ apc = "wait" /\ npc = "exited"
  /\ npc' = "none" /\ apc' = "reopen" /\ raised' = (code # 0) /\ code' = 0 /\ term' = FALSE
  /\ UNCHANGED <<conf, feed, clock, py, grip, nt, orphan, motion, gw, robot, after>>

\* open_source: connected, or TimeoutError (which replaces the status error and
\* which the session loop absorbs), or another error.
Reopen ==
  /\ apc = "reopen" /\ apc' = "leave"
  /\ \/ py' = TRUE /\ UNCHANGED raised
     \/ py' = FALSE /\ raised' \in BOOLEAN
  /\ UNCHANGED <<conf, feed, clock, grip, proc, motion, gw, robot, after>>

----------------------------------------------------------------------------
(* The native process *)

NtTo(pc) == npc' = pc /\ UNCHANGED <<code, term, nt, orphan>>
\* An exception unwinds the gripper worker, then the stop guard.
Throw == npc' = "gstop" /\ code' = 1 /\ UNCHANGED <<term, nt, orphan>>

\* The rings are mapped and the robot connected, or it exits before that.
NtConnect ==
  /\ npc = "connect"
  /\ \/ npc' = "enable" /\ nt' = TRUE /\ UNCHANGED <<code, orphan, motion, gw>>
     \/ Exit /\ code' = 1
  /\ UNCHANGED <<conf, feed, clock, armp, term, robot, after>>

\* Enable, the initial setpoint and its error gate, MoveJ started.
NtEnable ==
  /\ npc = "enable"
  /\ \/ NtTo("movej") /\ rob' = "movej" /\ want' = sp /\ seen' = age
     \/ term /\ NtTo("gstop") /\ UNCHANGED <<rob, want, seen>>
     \/ Throw /\ rob' \in {rob, "ready"} /\ UNCHANGED <<want, seen>>
  /\ UNCHANGED <<conf, feed, clock, armp, traj, gw, gm, left, after>>

NtPollMoveJ ==
  /\ npc = "movej"
  /\ \/ (term \/ stop) /\ NtTo("gstop")
     \/ NtTo("grip")
     \/ Throw
  /\ UNCHANGED <<conf, feed, clock, armp, motion, gw, robot, after>>

\* The gripper worker (or none), the mode switch, the trajectory at the setpoint.
NtStart ==
  /\ npc = "grip"
  /\ \/ /\ NtTo("top") /\ rob' = "ready" /\ lag' = 0
        /\ traj' = AtRest(want)
     \/ Throw /\ UNCHANGED <<rob, traj, lag>>
  /\ gw' \in {"none", "idle"}
  /\ UNCHANGED <<conf, feed, age, armp, seen, want, gm, left, after>>

NtTop ==
  /\ npc = "top"
  /\ NtTo(IF term THEN "gstop" ELSE "read")
  /\ lag' = 0
  /\ UNCHANGED <<conf, feed, age, armp, motion, gw, robot, after>>

\* min(max_joint_vel, sqrt(2 * max_joint_acc * d)), rounded down.
Speeds(d) ==
  {s \in 0 .. VMax : s * s <= 2 * AMax * d /\ (s = VMax \/ (s + 1) * (s + 1) > 2 * AMax * d)}

\* One joint of AdvanceTrajectory towards d (desired_q).
AdvanceTrajectory(t, d) ==
  LET delta == d - t.q
      dv(s) == Clamp((IF delta < 0 THEN -s ELSE s) - t.v, -AMax, AMax)
  IN  IF delta = 0 /\ Abs(t.v) <= AMax
      THEN {[q |-> d, v |-> 0, a |-> -t.v]}
      ELSE {[q |-> t.q + t.v + dv(s), v |-> t.v + dv(s), a |-> dv(s)] : s \in Speeds(Abs(delta))}

\* Fault, commands, newest setpoint, deadmen, trajectory, error gate.  A failed
\* Latest leaves the words of a torn copy behind.
NtRead ==
  /\ npc = "read"
  /\ \/ NtTo("gstop") /\ UNCHANGED motion              \* fault, STOP
     \/ Throw /\ UNCHANGED motion
     \/ /\ ~stop
        /\ \E torn \in BOOLEAN, w \in Setpoints \cup {want} :
             /\ IF torn THEN Torn /\ seen' = seen ELSE w = sp /\ seen' = age
             /\ want' = IF seen' - lag <= Soft THEN w ELSE want
        /\ IF seen' - lag > Hard
           THEN NtTo("gstop") /\ UNCHANGED traj
           ELSE /\ traj' \in AdvanceTrajectory(traj, want')
                /\ \E q \in Setpoints :
                     NtTo(IF Abs(traj'.q - q) > Tolerance THEN "gstop" ELSE "stream")
  /\ UNCHANGED <<conf, feed, clock, armp, gw, robot, after>>

\* StreamJointPosition.
NtStream ==
  /\ npc = "stream"
  /\ \/ NtTo("top") /\ rob' = "track" /\ Sent
     \/ Throw /\ UNCHANGED <<rob, after>>
  /\ UNCHANGED <<conf, feed, clock, armp, motion, gw, gm, left>>

\* The worker's look at its flags and its sample, then its Move (none is due, it
\* is done, it fails and the worker returns).
WorkerDecides ==
  /\ gw = "idle" /\ npc \in NtLoop \cup {"gstop"} /\ ~term
  /\ gw' = "decided"
  /\ UNCHANGED <<conf, feed, clock, armp, proc, motion, robot, after>>
WorkerMoves ==
  /\ gw = "decided"
  /\ \/ gw' = "idle" /\ gm' = TRUE
     \/ gw' \in {"idle", "off"} /\ UNCHANGED gm
  /\ UNCHANGED <<conf, feed, clock, armp, proc, motion, rob, left, after>>

\* Mutant: the worker is not joined.
GripperStopUnjoined ==
  /\ npc = "gstop"
  /\ gm' = (gm /\ gw = "none") /\ UNCHANGED gw /\ NtTo("stop")
  /\ UNCHANGED <<conf, feed, clock, armp, motion, rob, left, after>>

\* GripperWorker::Stop: the flag is set; the join, then the gripper's Stop.
NtGripperStop ==
  /\ npc = "gstop" /\ gw # "decided"
  /\ gm' = (gm /\ gw = "none") /\ gw' = "none" /\ NtTo("stop")
  /\ UNCHANGED <<conf, feed, clock, armp, motion, rob, left, after>>

\* robot.Stop() (status 1 when it raises), the guard's Stop, and the exit.
NtStop ==
  /\ npc = "stop" /\ Exit
  /\ code' \in {code, 1}
  /\ \/ rob' = "idle" /\ left' = left \ {"robot"}
     \/ UNCHANGED <<rob, left>>                        \* both raise
  /\ UNCHANGED <<conf, feed, clock, armp, term, gm, after>>

\* A crash of the native process.
NtCrash ==
  /\ npc \in NtAlive /\ Vanish
  /\ UNCHANGED <<conf, feed, clock, armp, rob, gm, after>>

----------------------------------------------------------------------------
PyStep ==
  \/ EnableAndMoveJ \/ PollMoveJ \/ SetupGripper \/ LoopTop \/ LoopRead \/ LoopSend \/ Leave
  \/ IdleEnds \/ SpawnNative \/ Terminate \/ NativeEnded \/ Reopen
NtStep ==
  \/ NtConnect \/ NtEnable \/ NtPollMoveJ \/ NtStart \/ NtTop \/ NtRead \/ NtStream
  \/ NtGripperStop \/ NtStop \/ WorkerMoves
Next ==
  \/ Tick \/ Post \/ BrainEnds \/ ShutDown \/ BeginSession \/ Kill \/ Respawn
  \/ PyStep \/ NtStep \/ WorkerDecides \/ NtCrash

Spec == Init /\ [][Next]_vars

----------------------------------------------------------------------------
(* Properties *)

\* The robot has one client: the Python connection is closed before the native
\* process connects and opened again after it has exited (_run_native_rt); only
\* a native process that outlived a killed arm node is a second one.
OneOwner == py /\ nt => orphan

\* However a session ends - STOP, deadman, fault, an exception in either process,
\* a native process that crashed or had to be killed - an arm that is back in
\* IDLE has been sent Stop (the finally of _control_session), unless the arm
\* node was killed, the robot could not be reached again, or Stop itself failed.
IdleRobotStopped == apc = "idle" /\ npc = "none" => rob = "idle" \/ "robot" \in left

\* No gripper Move is in force after a session: the worker is joined before the
\* gripper is stopped (GripperWorker::Stop), unless a process was killed.
IdleGripperStopped == apc = "idle" /\ npc = "none" => ~gm \/ "gripper" \in left

\* An arm back in IDLE is at rest, robot and gripper (the finally of
\* _control_session, the native controller's exit paths).
IdleArmStopped == IdleRobotStopped /\ IdleGripperStopped

\* The hard deadman: a loop that tracks has had a setpoint within the hard limit
\* and two passes, whichever process runs it, and sends only what was within the
\* soft limit when its pass began.
DeadmanBound ==
  /\ rob = "track" /\ InPass => age <= Hard + 2 * MaxLag
  /\ apc = "send" => age <= Soft + MaxLag

\* A STOP that was posted lets at most one more target through.
StopIsPrompt == after <= 1

\* The streamed trajectory respects max_joint_vel and max_joint_acc for every
\* sequence of setpoints, torn ones included (AdvanceTrajectory).
MotionLimits == Abs(traj.v) <= VMax /\ Abs(traj.a) <= AMax

=============================================================================
