--------------------------- MODULE ArmControlProofs ---------------------------
(***************************************************************************)
(* Proofs about ArmControl, for all deadman times, speed and acceleration  *)
(* limits and setpoints, and any number of sessions.                       *)
(***************************************************************************)
EXTENDS ArmControl, TLAPS

\* The initial state is well typed.
LEMMA TypeInit == Init => TypeOK
<1> SUFFICES ASSUME Init PROVE TypeOK
  OBVIOUS
<1>1. FlagsOK
  BY Zenon DEF Init, FlagsOK
<1> QED
  BY <1>1, ArmAssumption DEF Init, TypeOK, AgeCap, AtRest, PySession, PyLoop, NtAlive, NtLoop

\* A step of the trajectory stays within the limits, whatever the target and the
\* speed the braking curve allows (AdvanceTrajectory).
LEMMA AdvanceLimits ==
  ASSUME NEW t \in [q : Int, v : Int, a : Int], NEW d \in Int, Abs(t.v) <= VMax,
         NEW u \in AdvanceTrajectory(t, d)
  PROVE  u \in [q : Int, v : Int, a : Int] /\ Abs(u.v) <= VMax /\ Abs(u.a) <= AMax
<1> USE ArmAssumption DEF Abs
<1>1. CASE d - t.q = 0 /\ Abs(t.v) <= AMax
  BY <1>1 DEF AdvanceTrajectory
<1>2. CASE ~(d - t.q = 0 /\ Abs(t.v) <= AMax)
  <2> DEFINE dv(s) == Clamp((IF d - t.q < 0 THEN -s ELSE s) - t.v, -AMax, AMax)
  <2>1. PICK s \in Speeds(Abs(d - t.q)) :
          u = [q |-> t.q + t.v + dv(s), v |-> t.v + dv(s), a |-> dv(s)]
    BY <1>2 DEF AdvanceTrajectory
  <2>2. s \in 0 .. VMax
    BY <2>1 DEF Speeds
  <2>3. dv(s) \in Int /\ Abs(dv(s)) <= AMax /\ Abs(t.v + dv(s)) <= VMax
    BY <2>2 DEF Clamp
  <2> HIDE DEF dv
  <2> QED
    BY <2>1, <2>3
<1> QED
  BY <1>1, <1>2

\* Every step keeps the types of the flags.
LEMMA FlagsStep == FlagsOK /\ [Next]_vars => FlagsOK'
<1> SUFFICES ASSUME FlagsOK, [Next]_vars PROVE FlagsOK'
  OBVIOUS
<1> USE DEF FlagsOK, conf, feed, clock, armp, proc, motion, robot
<1>1. CASE Tick
  BY <1>1, Zenon DEF Tick, InPass, Older
<1>2. CASE Post
  BY <1>2, Zenon DEF Post
<1>3. CASE BrainEnds
  BY <1>3, Zenon DEF BrainEnds
<1>4. CASE ShutDown
  BY <1>4, Zenon DEF ShutDown
<1>5. CASE BeginSession
  BY <1>5, Zenon DEF BeginSession
<1>6. CASE Kill
  BY <1>6, Zenon DEF Kill
<1>7. CASE Respawn
  BY <1>7, Zenon DEF Respawn
<1>8. CASE EnableAndMoveJ
  BY <1>8, Zenon DEF EnableAndMoveJ, ArmTo, Ends
<1>9. CASE PollMoveJ
  BY <1>9, Zenon DEF PollMoveJ, ArmTo, Ends
<1>10. CASE SetupGripper
  BY <1>10, Zenon DEF SetupGripper
<1>11. CASE LoopTop
  BY <1>11, Zenon DEF LoopTop, ArmTo, Ends
<1>12. CASE LoopRead
  BY <1>12, Zenon DEF LoopRead, ArmTo, Ends, Torn
<1>13. CASE LoopSend
  BY <1>13, Zenon DEF LoopSend, Ends, Sent
<1>14. CASE Leave
  BY <1>14, Zenon DEF Leave
<1>15. CASE IdleEnds
  BY <1>15, Zenon DEF IdleEnds
<1>16. CASE SpawnNative
  BY <1>16, Zenon DEF SpawnNative
<1>17. CASE Terminate
  BY <1>17, Zenon DEF Terminate, Vanish, Exit, AtRest
<1>18. CASE NativeEnded
  BY <1>18, Zenon DEF NativeEnded
<1>19. CASE Reopen
  BY <1>19, Zenon DEF Reopen
<1>20. CASE NtConnect
  BY <1>20, Zenon DEF NtConnect, Exit, AtRest
<1>21. CASE NtEnable
  BY <1>21, Zenon DEF NtEnable, NtTo, Throw
<1>22. CASE NtPollMoveJ
  BY <1>22, Zenon DEF NtPollMoveJ, NtTo, Throw
<1>23. CASE NtStart
  BY <1>23, Zenon DEF NtStart, NtTo, Throw, AtRest
<1>24. CASE NtTop
  BY <1>24, Zenon DEF NtTop, NtTo
<1>25. CASE NtRead
  BY <1>25, Zenon DEF NtRead, NtTo, Throw, Torn
<1>26. CASE NtStream
  BY <1>26, Zenon DEF NtStream, NtTo, Throw, Sent
<1>27. CASE NtGripperStop
  BY <1>27, Zenon DEF NtGripperStop, NtTo
<1>28. CASE NtStop
  BY <1>28, Zenon DEF NtStop, Exit, AtRest
<1>29. CASE WorkerMoves
  BY <1>29, Zenon DEF WorkerMoves
<1>30. CASE WorkerDecides
  BY <1>30, Zenon DEF WorkerDecides
<1>31. CASE NtCrash
  BY <1>31, Zenon DEF NtCrash, Vanish, Exit, AtRest
<1>32. CASE UNCHANGED vars
  BY <1>32 DEF vars
<1> QED
  BY <1>1, <1>2, <1>3, <1>4, <1>5, <1>6, <1>7, <1>8, <1>9, <1>10, <1>11, <1>12, <1>13, <1>14,
       <1>15, <1>16, <1>17, <1>18, <1>19, <1>20, <1>21, <1>22, <1>23, <1>24, <1>25, <1>26,
       <1>27, <1>28, <1>29, <1>30, <1>31, <1>32 DEF Next, PyStep, NtStep

\* Every step keeps the types.
LEMMA TypeStep == TypeOK /\ MotionLimits /\ [Next]_vars => TypeOK'
<1> SUFFICES ASSUME TypeOK, MotionLimits, [Next]_vars PROVE TypeOK'
  OBVIOUS
<1>0. FlagsOK'
  BY FlagsStep DEF TypeOK
<1> USE <1>0, ArmAssumption DEF TypeOK, AgeCap, PySession, PyLoop, NtAlive, NtLoop, conf, feed,
     clock, armp, proc, motion, robot
<1>1. CASE Tick
  BY <1>1 DEF Tick, InPass, Older
<1>2. CASE Post
  BY <1>2 DEF Post
<1>3. CASE BrainEnds
  BY <1>3 DEF BrainEnds
<1>4. CASE ShutDown
  BY <1>4 DEF ShutDown
<1>5. CASE BeginSession
  BY <1>5 DEF BeginSession
<1>6. CASE Kill
  BY <1>6 DEF Kill
<1>7. CASE Respawn
  BY <1>7 DEF Respawn
<1>8. CASE EnableAndMoveJ
  BY <1>8 DEF EnableAndMoveJ, ArmTo, Ends
<1>9. CASE PollMoveJ
  BY <1>9 DEF PollMoveJ, ArmTo, Ends
<1>10. CASE SetupGripper
  BY <1>10 DEF SetupGripper
<1>11. CASE LoopTop
  BY <1>11 DEF LoopTop, ArmTo, Ends
<1>12. CASE LoopRead
  BY <1>12 DEF LoopRead, ArmTo, Ends, Torn
<1>13. CASE LoopSend
  BY <1>13 DEF LoopSend, Ends, Sent
<1>14. CASE Leave
  <2>1. left' \subseteq {"robot", "gripper"} /\ rob' \in {"idle", rob}
    BY <1>14, Zenon DEF Leave
  <2>2. apc' \in {"idle", "dead"}
    BY <1>14 DEF Leave
  <2>3. UNCHANGED <<conf, feed, clock, proc, motion, gw, after>>
    BY <1>14 DEF Leave
  <2> QED
    BY <2>1, <2>2, <2>3
<1>15. CASE IdleEnds
  BY <1>15 DEF IdleEnds
<1>16. CASE SpawnNative
  BY <1>16 DEF SpawnNative
<1>17. CASE Terminate
  <2>1. CASE term
    <3>1. left' \subseteq {"robot", "gripper"}
      BY <1>17, <2>1, Zenon DEF Terminate, Vanish
    <3>2. traj' = AtRest(0) /\ seen' = 0 /\ want' = 0 /\ gw' = "none" /\ npc' \in {"none", "exited"} /\ code' = 1
      BY <1>17, <2>1 DEF Terminate, Vanish, Exit
    <3> QED
      BY <1>17, <3>1, <3>2 DEF Terminate, AtRest
  <2>2. CASE ~term
    BY <1>17, <2>2 DEF Terminate
  <2> QED
    BY <2>1, <2>2
<1>18. CASE NativeEnded
  BY <1>18 DEF NativeEnded
<1>19. CASE Reopen
  BY <1>19 DEF Reopen
<1>20. CASE NtConnect
  BY <1>20 DEF NtConnect, Exit, AtRest
<1>21. CASE NtEnable
  BY <1>21 DEF NtEnable, NtTo, Throw
<1>22. CASE NtPollMoveJ
  BY <1>22 DEF NtPollMoveJ, NtTo, Throw
<1>23. CASE NtStart
  BY <1>23 DEF NtStart, NtTo, Throw, AtRest
<1>24. CASE NtTop
  BY <1>24 DEF NtTop, NtTo
<1>25. CASE NtRead
  <2>1. seen' \in 0 .. AgeCap /\ want' \in Int /\ code' \in {0, 1} /\ npc' \in {"gstop", "stream"}
    BY <1>25 DEF NtRead, NtTo, Throw, Torn
  <2>2. traj' = traj \/ traj' \in AdvanceTrajectory(traj, want')
    BY <1>25 DEF NtRead
  <2>3. traj' \in [q : Int, v : Int, a : Int]
    BY <2>1, <2>2, AdvanceLimits DEF MotionLimits
  <2>4. UNCHANGED <<conf, feed, clock, armp, gw, robot, after>>
    BY <1>25 DEF NtRead
  <2> QED
    BY <2>1, <2>3, <2>4
<1>26. CASE NtStream
  BY <1>26 DEF NtStream, NtTo, Throw, Sent
<1>27. CASE NtGripperStop
  BY <1>27 DEF NtGripperStop, NtTo
<1>28. CASE NtStop
  <2>1. left' \subseteq {"robot", "gripper"}
    BY <1>28, Zenon DEF NtStop
  <2>2. traj' = AtRest(0) /\ seen' = 0 /\ want' = 0 /\ gw' = "none" /\ npc' \in {"none", "exited"}
    BY <1>28 DEF NtStop, Exit
  <2>3. code' \in {0, 1} /\ rob' \in {"idle", rob}
    BY <1>28 DEF NtStop
  <2> QED
    BY <1>28, <2>1, <2>2, <2>3 DEF NtStop, AtRest
<1>29. CASE WorkerMoves
  BY <1>29 DEF WorkerMoves
<1>30. CASE WorkerDecides
  BY <1>30 DEF WorkerDecides
<1>31. CASE NtCrash
  BY <1>31 DEF NtCrash, Vanish, Exit, AtRest
<1>32. CASE UNCHANGED vars
  BY <1>32 DEF vars
<1> QED
  BY <1>1, <1>2, <1>3, <1>4, <1>5, <1>6, <1>7, <1>8, <1>9, <1>10, <1>11, <1>12, <1>13, <1>14,
       <1>15, <1>16, <1>17, <1>18, <1>19, <1>20, <1>21, <1>22, <1>23, <1>24, <1>25, <1>26,
       <1>27, <1>28, <1>29, <1>30, <1>31, <1>32 DEF Next, PyStep, NtStep

\* Who is alive while the other process is where, and who is connected.
ProcInv ==
  /\ apc \in PySession \ {"wait"} => npc = "none"
  /\ npc \in NtAlive => apc = "wait" \/ orphan
  /\ orphan => apc \in {"idle", "dead"} /\ npc \in NtAlive /\ "robot" \in left
  /\ npc = "exited" => apc = "wait"
  /\ apc = "wait" => ~py
  /\ nt => npc \in NtAlive

\* ProcInv holds initially.
LEMMA ProcInit == Init => ProcInv
BY DEF Init, ProcInv, PySession, PyLoop, NtAlive, NtLoop

\* Every step keeps the relation of the two processes.
LEMMA ProcStep == TypeOK /\ ProcInv /\ [Next]_vars => ProcInv'
<1> SUFFICES ASSUME TypeOK, ProcInv, [Next]_vars PROVE ProcInv'
  OBVIOUS
<1> USE DEF ProcInv, TypeOK, PySession, PyLoop, NtAlive, NtLoop, conf, feed, clock, armp, proc,
     motion, robot
<1>1. CASE Tick
  BY <1>1 DEF Tick, InPass, Older
<1>2. CASE Post
  BY <1>2 DEF Post
<1>3. CASE BrainEnds
  BY <1>3 DEF BrainEnds
<1>4. CASE ShutDown
  BY <1>4 DEF ShutDown
<1>5. CASE BeginSession
  BY <1>5 DEF BeginSession
<1>6. CASE Kill
  BY <1>6 DEF Kill
<1>7. CASE Respawn
  BY <1>7 DEF Respawn
<1>8. CASE EnableAndMoveJ
  BY <1>8 DEF EnableAndMoveJ, ArmTo, Ends
<1>9. CASE PollMoveJ
  BY <1>9 DEF PollMoveJ, ArmTo, Ends
<1>10. CASE SetupGripper
  BY <1>10 DEF SetupGripper
<1>11. CASE LoopTop
  BY <1>11 DEF LoopTop, ArmTo, Ends
<1>12. CASE LoopRead
  BY <1>12 DEF LoopRead, ArmTo, Ends, Torn
<1>13. CASE LoopSend
  BY <1>13 DEF LoopSend, Ends, Sent
<1>14. CASE Leave
  BY <1>14 DEF Leave
<1>15. CASE IdleEnds
  BY <1>15 DEF IdleEnds
<1>16. CASE SpawnNative
  BY <1>16 DEF SpawnNative
<1>17. CASE Terminate
  BY <1>17 DEF Terminate, Vanish, Exit, AtRest
<1>18. CASE NativeEnded
  BY <1>18 DEF NativeEnded
<1>19. CASE Reopen
  BY <1>19 DEF Reopen
<1>20. CASE NtConnect
  BY <1>20 DEF NtConnect, Exit, AtRest
<1>21. CASE NtEnable
  BY <1>21 DEF NtEnable, NtTo, Throw
<1>22. CASE NtPollMoveJ
  BY <1>22 DEF NtPollMoveJ, NtTo, Throw
<1>23. CASE NtStart
  BY <1>23 DEF NtStart, NtTo, Throw, AtRest
<1>24. CASE NtTop
  BY <1>24 DEF NtTop, NtTo
<1>25. CASE NtRead
  BY <1>25 DEF NtRead, NtTo, Throw, Torn
<1>26. CASE NtStream
  BY <1>26 DEF NtStream, NtTo, Throw, Sent
<1>27. CASE NtGripperStop
  BY <1>27 DEF NtGripperStop, NtTo
<1>28. CASE NtStop
  BY <1>28 DEF NtStop, Exit, AtRest
<1>29. CASE WorkerMoves
  BY <1>29 DEF WorkerMoves
<1>30. CASE WorkerDecides
  BY <1>30 DEF WorkerDecides
<1>31. CASE NtCrash
  BY <1>31 DEF NtCrash, Vanish, Exit, AtRest
<1>32. CASE UNCHANGED vars
  BY <1>32 DEF vars
<1> QED
  BY <1>1, <1>2, <1>3, <1>4, <1>5, <1>6, <1>7, <1>8, <1>9, <1>10, <1>11, <1>12, <1>13, <1>14,
       <1>15, <1>16, <1>17, <1>18, <1>19, <1>20, <1>21, <1>22, <1>23, <1>24, <1>25, <1>26,
       <1>27, <1>28, <1>29, <1>30, <1>31, <1>32 DEF Next, PyStep, NtStep

\* Sends after a STOP: the loop that has not sent one yet is the only one that can.
StopInv ==
  /\ ~stop => after = 0
  /\ after <= 1
  /\ after = 1 => apc # "send" /\ npc # "stream"

\* The inductive form of IdleRobotStopped: also while the arm process is dead.
RobotInv == apc \in {"idle", "dead"} /\ npc = "none" => rob = "idle" \/ "robot" \in left

\* A gripper Move in force has somebody who will stop it.
GripperInv ==
  /\ gm => grip \/ gw # "none" \/ "gripper" \in left
  /\ grip => apc \in PyLoop \cup {"leave"}
  /\ gw # "none" => npc \in NtLoop \cup {"gstop"}

\* How old the setpoint can be at each point of a pass.
DeadmanInv ==
  /\ apc = "grip" => rob = "ready"
  /\ rob = "track" /\ apc \in {"top", "send"} => age <= Hard + lag
  /\ rob = "track" /\ apc = "read" => age <= Hard + MaxLag + lag
  /\ apc = "send" => age <= Soft + lag
  /\ npc \in {"movej", "grip"} \cup NtLoop => age <= seen
  /\ npc = "stream" \/ (rob = "track" /\ npc = "top") => seen <= Hard + lag
  /\ rob = "track" /\ npc = "read" => seen <= Hard + MaxLag + lag

\* StopInv holds initially.
LEMMA StopInit == Init => StopInv
BY DEF Init, StopInv, PySession, PyLoop, NtAlive, NtLoop

\* Every step keeps StopInv.
LEMMA StopStep == TypeOK /\ ProcInv /\ StopInv /\ [Next]_vars => StopInv'
<1> SUFFICES ASSUME TypeOK, ProcInv, StopInv, [Next]_vars PROVE StopInv'
  OBVIOUS
<1> USE DEF StopInv, TypeOK, ProcInv, PySession, PyLoop, NtAlive, NtLoop, conf, feed, clock,
     armp, proc, motion, robot
<1>1. CASE Tick
  BY <1>1 DEF Tick, InPass, Older
<1>2. CASE Post
  BY <1>2 DEF Post
<1>3. CASE BrainEnds
  BY <1>3 DEF BrainEnds
<1>4. CASE ShutDown
  BY <1>4 DEF ShutDown
<1>5. CASE BeginSession
  BY <1>5 DEF BeginSession
<1>6. CASE Kill
  BY <1>6 DEF Kill
<1>7. CASE Respawn
  BY <1>7 DEF Respawn
<1>8. CASE EnableAndMoveJ
  BY <1>8 DEF EnableAndMoveJ, ArmTo, Ends
<1>9. CASE PollMoveJ
  BY <1>9 DEF PollMoveJ, ArmTo, Ends
<1>10. CASE SetupGripper
  BY <1>10 DEF SetupGripper
<1>11. CASE LoopTop
  BY <1>11 DEF LoopTop, ArmTo, Ends
<1>12. CASE LoopRead
  BY <1>12 DEF LoopRead, ArmTo, Ends, Torn
<1>13. CASE LoopSend
  BY <1>13 DEF LoopSend, Ends, Sent
<1>14. CASE Leave
  BY <1>14 DEF Leave
<1>15. CASE IdleEnds
  BY <1>15 DEF IdleEnds
<1>16. CASE SpawnNative
  BY <1>16 DEF SpawnNative
<1>17. CASE Terminate
  BY <1>17 DEF Terminate, Vanish, Exit, AtRest
<1>18. CASE NativeEnded
  BY <1>18 DEF NativeEnded
<1>19. CASE Reopen
  BY <1>19 DEF Reopen
<1>20. CASE NtConnect
  BY <1>20 DEF NtConnect, Exit, AtRest
<1>21. CASE NtEnable
  BY <1>21 DEF NtEnable, NtTo, Throw
<1>22. CASE NtPollMoveJ
  BY <1>22 DEF NtPollMoveJ, NtTo, Throw
<1>23. CASE NtStart
  BY <1>23 DEF NtStart, NtTo, Throw, AtRest
<1>24. CASE NtTop
  BY <1>24 DEF NtTop, NtTo
<1>25. CASE NtRead
  BY <1>25 DEF NtRead, NtTo, Throw, Torn
<1>26. CASE NtStream
  BY <1>26 DEF NtStream, NtTo, Throw, Sent
<1>27. CASE NtGripperStop
  BY <1>27 DEF NtGripperStop, NtTo
<1>28. CASE NtStop
  BY <1>28 DEF NtStop, Exit, AtRest
<1>29. CASE WorkerMoves
  BY <1>29 DEF WorkerMoves
<1>30. CASE WorkerDecides
  BY <1>30 DEF WorkerDecides
<1>31. CASE NtCrash
  BY <1>31 DEF NtCrash, Vanish, Exit, AtRest
<1>32. CASE UNCHANGED vars
  BY <1>32 DEF vars
<1> QED
  BY <1>1, <1>2, <1>3, <1>4, <1>5, <1>6, <1>7, <1>8, <1>9, <1>10, <1>11, <1>12, <1>13, <1>14,
       <1>15, <1>16, <1>17, <1>18, <1>19, <1>20, <1>21, <1>22, <1>23, <1>24, <1>25, <1>26,
       <1>27, <1>28, <1>29, <1>30, <1>31, <1>32 DEF Next, PyStep, NtStep

\* RobotInv holds initially.
LEMMA RobotInit == Init => RobotInv
BY DEF Init, RobotInv, PySession, PyLoop, NtAlive, NtLoop

\* Every step keeps RobotInv.
LEMMA RobotStep == TypeOK /\ ProcInv /\ RobotInv /\ [Next]_vars => RobotInv'
<1> SUFFICES ASSUME TypeOK, ProcInv, RobotInv, [Next]_vars PROVE RobotInv'
  OBVIOUS
<1> USE DEF RobotInv, TypeOK, ProcInv, PySession, PyLoop, NtAlive, NtLoop, conf, feed, clock,
     armp, proc, motion, robot
<1>1. CASE Tick
  BY <1>1 DEF Tick, InPass, Older
<1>2. CASE Post
  BY <1>2 DEF Post
<1>3. CASE BrainEnds
  BY <1>3 DEF BrainEnds
<1>4. CASE ShutDown
  BY <1>4 DEF ShutDown
<1>5. CASE BeginSession
  BY <1>5 DEF BeginSession
<1>6. CASE Kill
  BY <1>6 DEF Kill
<1>7. CASE Respawn
  BY <1>7 DEF Respawn
<1>8. CASE EnableAndMoveJ
  BY <1>8 DEF EnableAndMoveJ, ArmTo, Ends
<1>9. CASE PollMoveJ
  BY <1>9 DEF PollMoveJ, ArmTo, Ends
<1>10. CASE SetupGripper
  BY <1>10 DEF SetupGripper
<1>11. CASE LoopTop
  BY <1>11 DEF LoopTop, ArmTo, Ends
<1>12. CASE LoopRead
  BY <1>12 DEF LoopRead, ArmTo, Ends, Torn
<1>13. CASE LoopSend
  BY <1>13 DEF LoopSend, Ends, Sent
<1>14. CASE Leave
  BY <1>14 DEF Leave
<1>15. CASE IdleEnds
  BY <1>15 DEF IdleEnds
<1>16. CASE SpawnNative
  BY <1>16 DEF SpawnNative
<1>17. CASE Terminate
  BY <1>17 DEF Terminate, Vanish, Exit, AtRest
<1>18. CASE NativeEnded
  BY <1>18 DEF NativeEnded
<1>19. CASE Reopen
  BY <1>19 DEF Reopen
<1>20. CASE NtConnect
  BY <1>20 DEF NtConnect, Exit, AtRest
<1>21. CASE NtEnable
  BY <1>21 DEF NtEnable, NtTo, Throw
<1>22. CASE NtPollMoveJ
  BY <1>22 DEF NtPollMoveJ, NtTo, Throw
<1>23. CASE NtStart
  BY <1>23 DEF NtStart, NtTo, Throw, AtRest
<1>24. CASE NtTop
  BY <1>24 DEF NtTop, NtTo
<1>25. CASE NtRead
  BY <1>25 DEF NtRead, NtTo, Throw, Torn
<1>26. CASE NtStream
  BY <1>26 DEF NtStream, NtTo, Throw, Sent
<1>27. CASE NtGripperStop
  BY <1>27 DEF NtGripperStop, NtTo
<1>28. CASE NtStop
  BY <1>28 DEF NtStop, Exit, AtRest
<1>29. CASE WorkerMoves
  BY <1>29 DEF WorkerMoves
<1>30. CASE WorkerDecides
  BY <1>30 DEF WorkerDecides
<1>31. CASE NtCrash
  BY <1>31 DEF NtCrash, Vanish, Exit, AtRest
<1>32. CASE UNCHANGED vars
  BY <1>32 DEF vars
<1> QED
  BY <1>1, <1>2, <1>3, <1>4, <1>5, <1>6, <1>7, <1>8, <1>9, <1>10, <1>11, <1>12, <1>13, <1>14,
       <1>15, <1>16, <1>17, <1>18, <1>19, <1>20, <1>21, <1>22, <1>23, <1>24, <1>25, <1>26,
       <1>27, <1>28, <1>29, <1>30, <1>31, <1>32 DEF Next, PyStep, NtStep

\* GripperInv holds initially.
LEMMA GripperInit == Init => GripperInv
BY DEF Init, GripperInv, PySession, PyLoop, NtAlive, NtLoop

\* Every step keeps GripperInv.
LEMMA GripperStep == TypeOK /\ ProcInv /\ GripperInv /\ [Next]_vars => GripperInv'
<1> SUFFICES ASSUME TypeOK, ProcInv, GripperInv, [Next]_vars PROVE GripperInv'
  OBVIOUS
<1> USE DEF GripperInv, TypeOK, ProcInv, PySession, PyLoop, NtAlive, NtLoop, conf, feed, clock,
     armp, proc, motion, robot
<1>1. CASE Tick
  BY <1>1 DEF Tick, InPass, Older
<1>2. CASE Post
  BY <1>2 DEF Post
<1>3. CASE BrainEnds
  BY <1>3 DEF BrainEnds
<1>4. CASE ShutDown
  BY <1>4 DEF ShutDown
<1>5. CASE BeginSession
  BY <1>5 DEF BeginSession
<1>6. CASE Kill
  BY <1>6 DEF Kill
<1>7. CASE Respawn
  BY <1>7 DEF Respawn
<1>8. CASE EnableAndMoveJ
  BY <1>8 DEF EnableAndMoveJ, ArmTo, Ends
<1>9. CASE PollMoveJ
  BY <1>9 DEF PollMoveJ, ArmTo, Ends
<1>10. CASE SetupGripper
  BY <1>10 DEF SetupGripper
<1>11. CASE LoopTop
  BY <1>11 DEF LoopTop, ArmTo, Ends
<1>12. CASE LoopRead
  BY <1>12 DEF LoopRead, ArmTo, Ends, Torn
<1>13. CASE LoopSend
  BY <1>13 DEF LoopSend, Ends, Sent
<1>14. CASE Leave
  BY <1>14 DEF Leave
<1>15. CASE IdleEnds
  BY <1>15 DEF IdleEnds
<1>16. CASE SpawnNative
  BY <1>16 DEF SpawnNative
<1>17. CASE Terminate
  BY <1>17 DEF Terminate, Vanish, Exit, AtRest
<1>18. CASE NativeEnded
  BY <1>18 DEF NativeEnded
<1>19. CASE Reopen
  BY <1>19 DEF Reopen
<1>20. CASE NtConnect
  BY <1>20 DEF NtConnect, Exit, AtRest
<1>21. CASE NtEnable
  BY <1>21 DEF NtEnable, NtTo, Throw
<1>22. CASE NtPollMoveJ
  BY <1>22 DEF NtPollMoveJ, NtTo, Throw
<1>23. CASE NtStart
  BY <1>23 DEF NtStart, NtTo, Throw, AtRest
<1>24. CASE NtTop
  BY <1>24 DEF NtTop, NtTo
<1>25. CASE NtRead
  BY <1>25 DEF NtRead, NtTo, Throw, Torn
<1>26. CASE NtStream
  BY <1>26 DEF NtStream, NtTo, Throw, Sent
<1>27. CASE NtGripperStop
  BY <1>27 DEF NtGripperStop, NtTo
<1>28. CASE NtStop
  BY <1>28 DEF NtStop, Exit, AtRest
<1>29. CASE WorkerMoves
  BY <1>29 DEF WorkerMoves
<1>30. CASE WorkerDecides
  BY <1>30 DEF WorkerDecides
<1>31. CASE NtCrash
  BY <1>31 DEF NtCrash, Vanish, Exit, AtRest
<1>32. CASE UNCHANGED vars
  BY <1>32 DEF vars
<1> QED
  BY <1>1, <1>2, <1>3, <1>4, <1>5, <1>6, <1>7, <1>8, <1>9, <1>10, <1>11, <1>12, <1>13, <1>14,
       <1>15, <1>16, <1>17, <1>18, <1>19, <1>20, <1>21, <1>22, <1>23, <1>24, <1>25, <1>26,
       <1>27, <1>28, <1>29, <1>30, <1>31, <1>32 DEF Next, PyStep, NtStep

\* DeadmanInv holds initially.
LEMMA DeadmanInit == Init => DeadmanInv
BY DEF Init, DeadmanInv, PySession, PyLoop, NtAlive, NtLoop

\* Every step keeps DeadmanInv.
LEMMA DeadmanStep == TypeOK /\ ProcInv /\ DeadmanInv /\ [Next]_vars => DeadmanInv'
<1> SUFFICES ASSUME TypeOK, ProcInv, DeadmanInv, [Next]_vars PROVE DeadmanInv'
  OBVIOUS
<1> USE ArmAssumption DEF DeadmanInv, TypeOK, ProcInv, AgeCap, Older, InPass, PySession, PyLoop,
     NtAlive, NtLoop, conf, feed, clock, armp, proc, motion, robot
<1>1. CASE Tick
  BY <1>1 DEF Tick, InPass, Older
<1>2. CASE Post
  BY <1>2 DEF Post
<1>3. CASE BrainEnds
  BY <1>3 DEF BrainEnds
<1>4. CASE ShutDown
  BY <1>4 DEF ShutDown
<1>5. CASE BeginSession
  BY <1>5 DEF BeginSession
<1>6. CASE Kill
  BY <1>6 DEF Kill
<1>7. CASE Respawn
  BY <1>7 DEF Respawn
<1>8. CASE EnableAndMoveJ
  BY <1>8 DEF EnableAndMoveJ, ArmTo, Ends
<1>9. CASE PollMoveJ
  BY <1>9 DEF PollMoveJ, ArmTo, Ends
<1>10. CASE SetupGripper
  BY <1>10 DEF SetupGripper
<1>11. CASE LoopTop
  BY <1>11 DEF LoopTop, ArmTo, Ends
<1>12. CASE LoopRead
  BY <1>12 DEF LoopRead, ArmTo, Ends, Torn
<1>13. CASE LoopSend
  BY <1>13 DEF LoopSend, Ends, Sent
<1>14. CASE Leave
  BY <1>14 DEF Leave
<1>15. CASE IdleEnds
  BY <1>15 DEF IdleEnds
<1>16. CASE SpawnNative
  BY <1>16 DEF SpawnNative
<1>17. CASE Terminate
  BY <1>17 DEF Terminate, Vanish, Exit, AtRest
<1>18. CASE NativeEnded
  BY <1>18 DEF NativeEnded
<1>19. CASE Reopen
  BY <1>19 DEF Reopen
<1>20. CASE NtConnect
  BY <1>20 DEF NtConnect, Exit, AtRest
<1>21. CASE NtEnable
  BY <1>21 DEF NtEnable, NtTo, Throw
<1>22. CASE NtPollMoveJ
  BY <1>22 DEF NtPollMoveJ, NtTo, Throw
<1>23. CASE NtStart
  BY <1>23 DEF NtStart, NtTo, Throw, AtRest
<1>24. CASE NtTop
  BY <1>24 DEF NtTop, NtTo
<1>25. CASE NtRead
  BY <1>25 DEF NtRead, NtTo, Throw, Torn
<1>26. CASE NtStream
  BY <1>26 DEF NtStream, NtTo, Throw, Sent
<1>27. CASE NtGripperStop
  BY <1>27 DEF NtGripperStop, NtTo
<1>28. CASE NtStop
  BY <1>28 DEF NtStop, Exit, AtRest
<1>29. CASE WorkerMoves
  BY <1>29 DEF WorkerMoves
<1>30. CASE WorkerDecides
  BY <1>30 DEF WorkerDecides
<1>31. CASE NtCrash
  BY <1>31 DEF NtCrash, Vanish, Exit, AtRest
<1>32. CASE UNCHANGED vars
  BY <1>32 DEF vars
<1> QED
  BY <1>1, <1>2, <1>3, <1>4, <1>5, <1>6, <1>7, <1>8, <1>9, <1>10, <1>11, <1>12, <1>13, <1>14,
       <1>15, <1>16, <1>17, <1>18, <1>19, <1>20, <1>21, <1>22, <1>23, <1>24, <1>25, <1>26,
       <1>27, <1>28, <1>29, <1>30, <1>31, <1>32 DEF Next, PyStep, NtStep

\* Every step keeps the motion limits (AdvanceLimits at the one step that moves the trajectory).
LEMMA MotionStep == TypeOK /\ MotionLimits /\ [Next]_vars => MotionLimits'
<1> SUFFICES ASSUME TypeOK, MotionLimits, [Next]_vars PROVE MotionLimits'
  OBVIOUS
<1> USE ArmAssumption DEF TypeOK, MotionLimits, conf, feed, clock, armp, proc, motion, robot
<1>1. CASE Tick
  BY <1>1 DEF Tick, InPass, Older, Abs, AtRest
<1>2. CASE Post
  BY <1>2 DEF Post, Abs, AtRest
<1>3. CASE BrainEnds
  BY <1>3 DEF BrainEnds, Abs, AtRest
<1>4. CASE ShutDown
  BY <1>4 DEF ShutDown, Abs, AtRest
<1>5. CASE BeginSession
  BY <1>5 DEF BeginSession, Abs, AtRest
<1>6. CASE Kill
  BY <1>6 DEF Kill, Abs, AtRest
<1>7. CASE Respawn
  BY <1>7 DEF Respawn, Abs, AtRest
<1>8. CASE EnableAndMoveJ
  BY <1>8 DEF EnableAndMoveJ, ArmTo, Ends, Abs, AtRest
<1>9. CASE PollMoveJ
  BY <1>9 DEF PollMoveJ, ArmTo, Ends, Abs, AtRest
<1>10. CASE SetupGripper
  BY <1>10 DEF SetupGripper, Abs, AtRest
<1>11. CASE LoopTop
  BY <1>11 DEF LoopTop, ArmTo, Ends, Abs, AtRest
<1>12. CASE LoopRead
  BY <1>12 DEF LoopRead, ArmTo, Ends, Torn, Abs, AtRest
<1>13. CASE LoopSend
  BY <1>13 DEF LoopSend, Ends, Sent, Abs, AtRest
<1>14. CASE Leave
  BY <1>14 DEF Leave, Abs, AtRest
<1>15. CASE IdleEnds
  BY <1>15 DEF IdleEnds, Abs, AtRest
<1>16. CASE SpawnNative
  BY <1>16 DEF SpawnNative, Abs, AtRest
<1>17. CASE Terminate
  BY <1>17 DEF Terminate, Vanish, Exit, AtRest, Abs, AtRest
<1>18. CASE NativeEnded
  BY <1>18 DEF NativeEnded, Abs, AtRest
<1>19. CASE Reopen
  BY <1>19 DEF Reopen, Abs, AtRest
<1>20. CASE NtConnect
  BY <1>20 DEF NtConnect, Exit, AtRest, Abs, AtRest
<1>21. CASE NtEnable
  BY <1>21 DEF NtEnable, NtTo, Throw, Abs, AtRest
<1>22. CASE NtPollMoveJ
  BY <1>22 DEF NtPollMoveJ, NtTo, Throw, Abs, AtRest
<1>23. CASE NtStart
  BY <1>23 DEF NtStart, NtTo, Throw, AtRest, Abs, AtRest
<1>24. CASE NtTop
  BY <1>24 DEF NtTop, NtTo, Abs, AtRest
<1>25. CASE NtRead
  <2>1. want' \in Int
    BY <1>25 DEF NtRead
  <2>2. traj' = traj \/ traj' \in AdvanceTrajectory(traj, want')
    BY <1>25 DEF NtRead
  <2> QED
    BY <2>1, <2>2, AdvanceLimits
<1>26. CASE NtStream
  BY <1>26 DEF NtStream, NtTo, Throw, Sent, Abs, AtRest
<1>27. CASE NtGripperStop
  BY <1>27 DEF NtGripperStop, NtTo, Abs, AtRest
<1>28. CASE NtStop
  BY <1>28 DEF NtStop, Exit, AtRest, Abs, AtRest
<1>29. CASE WorkerMoves
  BY <1>29 DEF WorkerMoves, Abs, AtRest
<1>30. CASE WorkerDecides
  BY <1>30 DEF WorkerDecides, Abs, AtRest
<1>31. CASE NtCrash
  BY <1>31 DEF NtCrash, Vanish, Exit, AtRest, Abs, AtRest
<1>32. CASE UNCHANGED vars
  BY <1>32 DEF vars
<1> QED
  BY <1>1, <1>2, <1>3, <1>4, <1>5, <1>6, <1>7, <1>8, <1>9, <1>10, <1>11, <1>12, <1>13, <1>14,
       <1>15, <1>16, <1>17, <1>18, <1>19, <1>20, <1>21, <1>22, <1>23, <1>24, <1>25, <1>26,
       <1>27, <1>28, <1>29, <1>30, <1>31, <1>32 DEF Next, PyStep, NtStep

\* What every reachable state satisfies.
IInv == TypeOK /\ MotionLimits /\ ProcInv /\ StopInv /\ RobotInv /\ GripperInv /\ DeadmanInv

\* IInv is an inductive invariant of a session's control loops.
THEOREM Inductive == Spec => []IInv
<1>1. Init => IInv
  <2> SUFFICES ASSUME Init PROVE MotionLimits
    BY TypeInit, ProcInit, StopInit, RobotInit, GripperInit, DeadmanInit DEF IInv
  <2> QED
    BY ArmAssumption DEF Init, MotionLimits, AtRest, Abs
<1>2. IInv /\ [Next]_vars => IInv'
  BY TypeStep, MotionStep, ProcStep, StopStep, RobotStep, GripperStep, DeadmanStep DEF IInv
<1> QED
  BY <1>1, <1>2, PTL DEF Spec

\* Every variable keeps its type: ages and pass times stay within their caps.
THEOREM TypeCorrect == Spec => []TypeOK
<1>1. IInv => TypeOK
  BY DEF IInv
<1> QED
  BY <1>1, Inductive, PTL

\* The robot has one client, except beside a native process that outlived its arm
\* node (_run_native_rt).
THEOREM OneOwnerTheorem == Spec => []OneOwner
<1>1. IInv => OneOwner
  BY ArmAssumption DEF IInv, ProcInv, OneOwner
<1> QED
  BY <1>1, Inductive, PTL

\* An arm back in IDLE was sent Stop (the finally of _control_session), and no
\* gripper Move outlives its session (GripperWorker::Stop, stop_gripper).
THEOREM IdleArmTheorem == Spec => []IdleArmStopped
<1>1. IInv => IdleRobotStopped
  BY ArmAssumption DEF IInv, RobotInv, IdleRobotStopped
<1>2. IInv => IdleGripperStopped
  BY ArmAssumption DEF IInv, GripperInv, IdleGripperStopped, ProcInv, PyLoop, NtLoop
<1>3. IInv => IdleArmStopped
  BY <1>1, <1>2 DEF IdleArmStopped
<1> QED
  BY <1>3, Inductive, PTL

\* A loop that tracks has had a setpoint within the hard limit and two passes,
\* for every choice of the two limits and of the pace.
THEOREM DeadmanTheorem == Spec => []DeadmanBound
<1>1. IInv => DeadmanBound
  BY ArmAssumption DEF IInv, DeadmanInv, DeadmanBound, TypeOK, InPass, PyLoop, NtLoop
<1> QED
  BY <1>1, Inductive, PTL

\* At most one target is sent after STOP was posted.
THEOREM StopTheorem == Spec => []StopIsPrompt
<1>1. IInv => StopIsPrompt
  BY ArmAssumption DEF IInv, StopInv, StopIsPrompt
<1> QED
  BY <1>1, Inductive, PTL

\* The streamed trajectory respects the velocity and acceleration limits for
\* every sequence of setpoints (AdvanceTrajectory).
THEOREM MotionTheorem == Spec => []MotionLimits
<1>1. IInv => MotionLimits
  BY DEF IInv
<1> QED
  BY <1>1, Inductive, PTL

=============================================================================
