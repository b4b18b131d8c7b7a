-------------------------- MODULE RunControlProofs --------------------------
(***************************************************************************)
(* Proofs about RunControl, for any set of arms and any number of runs.    *)
(***************************************************************************)
EXTENDS RunControl, TLAPS

\* The initial state is well typed.
LEMMA TypeInit == Init => TypeOK
<1> SUFFICES ASSUME Init PROVE TypeOK
  OBVIOUS
<1> USE RunsAssumption DEF Init
<1>1. BusTypeOK
  BY DEF BusInit, BusTypeOK, Runs, NoRun
<1>2. ArmTypeOK
  BY DEF ArmInit, ArmTypeOK, Runs, NoRun, Alive, Session, Bootstrap, Driving
<1>3. ConsumerTypeOK
  <2>1. stopping \in BOOLEAN
    BY Zenon DEF ConsumerInit
  <2> QED
    BY <2>1 DEF ConsumerInit, ConsumerTypeOK
<1>4. DaemonTypeOK
  <2>1. (runOn <=> con # "none") /\ runOn \in BOOLEAN /\ armed \in BOOLEAN
    BY Zenon DEF ConsumerInit, DaemonInit
  <2> QED
    BY <2>1 DEF DaemonInit, DaemonTypeOK
<1> QED
  BY <1>1, <1>2, <1>3, <1>4 DEF TypeOK

\* Every step of an arm process keeps the types.
LEMMA TypeArm ==
  ASSUME TypeOK, NEW s \in Sides, Arm(s) \/ Robot(s)
  PROVE  TypeOK'
<1> USE RunsAssumption DEF TypeOK, BusTypeOK, ArmTypeOK, ConsumerTypeOK, DaemonTypeOK, Runs, NoRun,
        NoStart, Alive, Session, Bootstrap, Driving, Goto, Publish, NoSession, Leave, Die,
        bus, arm, consumer, daemon, channels
<1>1. CASE CreateStreams(s) /\ UNCHANGED <<consumer, daemon>>
  <2>1. ConsumerTypeOK' /\ DaemonTypeOK'
    BY <1>1
  <2>2. BusTypeOK'
    BY <1>1 DEF CreateStreams
  <2>3. ArmTypeOK'
    <3>1. PICK pc \in {"boot", "dead"} : apc' = [apc EXCEPT ![s] = pc]
      BY <1>1 DEF CreateStreams
    <3> QED
      BY <1>1, <3>1 DEF CreateStreams
  <2> QED
    BY <2>1, <2>2, <2>3
<1>2. CASE Connect(s) /\ UNCHANGED <<consumer, daemon>>
  BY <1>2 DEF Connect
<1>3. CASE IdleTick(s) /\ UNCHANGED <<consumer, daemon>>
  BY <1>3 DEF IdleTick
<1>4. CASE EnterControl(s) /\ UNCHANGED <<consumer, daemon>>
  <2>1. ConsumerTypeOK' /\ DaemonTypeOK'
    BY <1>4
  <2>2. BusTypeOK'
    BY <1>4 DEF EnterControl
  <2>3. ArmTypeOK'
    <3>1. Head(q[s]) \in Runs
      BY <1>4 DEF EnterControl
    <3> QED
      BY <1>4, <3>1 DEF EnterControl
  <2> QED
    BY <2>1, <2>2, <2>3
<1>5. CASE Enabled(s) /\ UNCHANGED <<consumer, daemon>>
  BY <1>5 DEF Enabled
<1>6. CASE TimedOut(s) /\ UNCHANGED <<consumer, daemon>>
  BY <1>6 DEF TimedOut
<1>7. CASE WaitTick(s) /\ UNCHANGED <<consumer, daemon>>
  BY <1>7 DEF WaitTick
<1>8. CASE AttachChannels(s) /\ UNCHANGED <<consumer, daemon>>
  BY <1>8 DEF AttachChannels
<1>9. CASE AttachFails(s) /\ UNCHANGED <<consumer, daemon>>
  BY <1>9 DEF AttachFails
<1>10. CASE StopDrained(s) /\ UNCHANGED <<consumer, daemon>>
  BY <1>10 DEF StopDrained
<1>11. CASE StartMoveJ(s) /\ UNCHANGED <<consumer, daemon>>
  BY <1>11 DEF StartMoveJ
<1>16. CASE PollMoveJ(s) /\ UNCHANGED <<consumer, daemon>>
  BY <1>16 DEF PollMoveJ
<1>12. CASE ReachedTarget(s) /\ UNCHANGED <<consumer, daemon>>
  BY <1>12 DEF ReachedTarget
<1>13. CASE (Halt(s) \/ Deadman(s)) /\ UNCHANGED <<consumer, daemon>>
  <2>1. ConsumerTypeOK' /\ DaemonTypeOK'
    BY <1>13
  <2>2. BusTypeOK'
    BY <1>13 DEF Halt, Deadman
  <2>3. Leave(s) /\ apc[s] = "loop"
    BY <1>13 DEF Halt, Deadman
  <2>4. ArmTypeOK'
    BY <2>3
  <2> QED
    BY <2>1, <2>2, <2>4
<1>14. CASE Raise(s) /\ UNCHANGED <<consumer, daemon>>
  BY <1>14 DEF Raise
<1>15. CASE Kill(s) /\ UNCHANGED <<consumer, daemon>>
  BY <1>15 DEF Kill
<1> QED
  BY <1>1, <1>2, <1>3, <1>4, <1>5, <1>6, <1>7, <1>8, <1>9, <1>10, <1>11, <1>12, <1>13, <1>14,
     <1>15, <1>16 DEF Arm, Robot, ArmStep, ArmEvent

\* Every step of the consumer keeps the types.
LEMMA TypeConsumer ==
  ASSUME TypeOK, Consumer
  PROVE  TypeOK'
<1> USE RunsAssumption DEF TypeOK, Runs, NoRun, bus, arm, consumer, daemon
<1>1. ArmTypeOK'
  BY DEF Consumer, ArmTypeOK
<1>2. runOn' = runOn /\ (con # "none" <=> con' # "none")
  BY DEF Consumer, ConsumerStep, ConsumerEvent, AttachTelemetry, AttachAborted, AttachTimeout,
         OpenChannels, Serve, PostSetpoint, EndLoop, StopArms, Close, Crash
<1>3. DaemonTypeOK'
  BY <1>2 DEF Consumer, DaemonTypeOK
<1>4. ConsumerTypeOK'
  BY DEF Consumer, ConsumerStep, ConsumerEvent, AttachTelemetry, AttachAborted, AttachTimeout,
         OpenChannels, Serve, PostSetpoint, EndLoop, StopArms, Close, Crash, ConsumerTypeOK
<1>5. BusTypeOK'
  <2> USE DEF BusTypeOK, ConsumerTypeOK
  <2>1. CASE UNCHANGED bus
    BY <2>1
  <2>2. ASSUME NEW s \in Sides, OpenChannels(s) PROVE BusTypeOK'
    BY <2>2 DEF OpenChannels
  <2>3. ASSUME NEW S \in SUBSET sides, PostSetpoint(S) PROVE BusTypeOK'
    BY <2>3 DEF PostSetpoint
  <2>4. CASE StopArms
    BY <2>4 DEF StopArms
  <2>5. CASE Close
    BY <2>5 DEF Close
  <2> QED
    BY <2>1, <2>2, <2>3, <2>4, <2>5 DEF Consumer, ConsumerStep, ConsumerEvent, AttachTelemetry,
       AttachAborted, AttachTimeout, Serve, EndLoop, Crash
<1> QED
  BY <1>1, <1>3, <1>4, <1>5

\* A launch that goes through: what it does to each variable, for some set of
\* commanded sides.
LEMMA LaunchEffect ==
  ASSUME TypeOK, Launch
  PROVE  \E drive \in SUBSET Sides, watch \in SUBSET Sides :
           /\ drive \cap armsDown = {}
           /\ q' = [s \in Sides |-> IF s \in drive THEN Append(q[s], runSeq + 1) ELSE q[s]]
           /\ Spawn(drive, watch)
<1>1. PICK drive \in CommandSides(phase) :
        /\ drive \cap armsDown = {}
        /\ q' = [s \in Sides |-> IF s \in drive THEN Append(q[s], runSeq + 1) ELSE q[s]]
        /\ Spawn(drive, IF phase = "skill" THEN drive ELSE Sides)
  BY DEF Launch
<1>2. drive \in SUBSET Sides
  <2>1. phase \in Phases
    BY DEF Launch, TypeOK, DaemonTypeOK
  <2> QED
    BY <2>1 DEF CommandSides, Phases
<1>3. (IF phase = "skill" THEN drive ELSE Sides) \in SUBSET Sides
  BY <1>2
<1> QED
  BY <1>1, <1>2, <1>3

\* A launch keeps the types.
LEMMA TypeLaunch ==
  ASSUME TypeOK, Launch
  PROVE  TypeOK'
<1> USE RunsAssumption DEF TypeOK, Runs, NoRun, NoStart, arm, channels, Spawn
<1>1. PICK drive \in SUBSET Sides, watch \in SUBSET Sides :
           /\ drive \cap armsDown = {}
           /\ q' = [s \in Sides |-> IF s \in drive THEN Append(q[s], runSeq + 1) ELSE q[s]]
           /\ Spawn(drive, watch)
  BY LaunchEffect
<1>2. ArmTypeOK'
  BY DEF Launch, ArmTypeOK
<1>3. runSeq + 1 \in Runs
  BY DEF Launch, ConsumerTypeOK
<1>4. BusTypeOK'
  <2>1. \A s \in Sides : q[s] \in Seq(Runs) /\ Append(q[s], runSeq + 1) \in Seq(Runs)
    BY <1>3 DEF BusTypeOK
  <2>2. q' \in [Sides -> Seq(Runs)]
    BY <1>1, <2>1
  <2> QED
    BY <2>2 DEF Launch, BusTypeOK
<1>5. ConsumerTypeOK'
  <2>1. stopping' \in BOOLEAN
    BY <1>1, Zenon
  <2> QED
    BY <1>1, <1>3, <2>1 DEF ConsumerTypeOK
<1>6. DaemonTypeOK'
  <2>1. runOn' \in BOOLEAN /\ armed' \in BOOLEAN /\ (runOn' <=> con' # "none")
    BY <1>1, Zenon DEF Launch
  <2> QED
    BY <2>1 DEF Launch, DaemonTypeOK
<1> QED
  BY <1>2, <1>4, <1>5, <1>6

\* Every step of the daemon keeps the types.
LEMMA TypeDaemon ==
  ASSUME TypeOK, Command \/ ServeTick
  PROVE  TypeOK'
<1> USE RunsAssumption, OfferedAssumption DEF TypeOK, BusTypeOK, ArmTypeOK, ConsumerTypeOK, DaemonTypeOK,
        Runs, NoRun, bus, arm, consumer, daemon, channels
<1>1. ASSUME NEW p \in Phases, Gate(p), ~runOn PROVE TypeOK'
  <2>1. CASE dpc' = "launch"
    BY <1>1, <2>1 DEF Gate, Queue
  <2>2. CASE dpc' = "drain"
    <3>1. /\ Queue(p, TRUE) /\ phase' = "none" /\ UNCHANGED stopping
      BY <1>1, <2>2 DEF Gate
    <3>2. pending' \in [phase : Phases, timed : BOOLEAN]
      BY <1>1, <3>1 DEF Queue
    <3> QED
      BY <1>1, <2>2, <3>1, <3>2 DEF Queue
  <2> QED
    BY <1>1, <2>1, <2>2 DEF Gate
<1>2. ASSUME NEW p \in Offered, HandleSwitch(p) PROVE TypeOK'
  <2>1. stopping' \in BOOLEAN
    BY <1>2, Zenon DEF HandleSwitch
  <2> QED
    BY <1>2, <2>1 DEF HandleSwitch, Queue
<1>3. CASE HandleStop
  <2>1. stopping' \in BOOLEAN
    BY <1>3, Zenon DEF HandleStop, StopRun
  <2> QED
    BY <1>3, <2>1 DEF HandleStop, StopRun
<1>4. ASSUME NEW s \in Sides, HandleReconnectArm(s) PROVE TypeOK'
  BY <1>4 DEF HandleReconnectArm, Goto, Publish, NoSession, Alive, Session, Bootstrap, Driving
<1>5. CASE ReapConsumer
  <2>1. CASE runOn /\ con = "down"
    <3>1. stopping' \in BOOLEAN /\ runOn' \in BOOLEAN /\ armed' \in BOOLEAN
          /\ (runOn' <=> con' # "none")
      BY <1>5, <2>1, Zenon DEF ReapConsumer
    <3>2. BusTypeOK'
      <4>1. man' \in [Sides -> Runs \cup {NoRun}] /\ seg' \in [Sides -> Runs \cup {NoRun}]
        BY <1>5, <2>1 DEF ReapConsumer, SweepControl
      <4>2. sp' \in [Runs -> SUBSET Sides]
        BY <1>5, <2>1 DEF ReapConsumer
      <4>3. stp' \in [Runs -> SUBSET Sides]
        BY <1>5, <2>1 DEF ReapConsumer
      <4> QED
        BY <1>5, <4>1, <4>2, <4>3 DEF ReapConsumer
    <3>3. ArmTypeOK'
      BY <1>5 DEF ReapConsumer
    <3>4. ConsumerTypeOK' /\ DaemonTypeOK'
      BY <1>5, <2>1, <3>1 DEF ReapConsumer
    <3> QED
      BY <3>2, <3>3, <3>4
  <2>2. CASE ~(runOn /\ con = "down")
    BY <1>5, <2>2 DEF ReapConsumer
  <2> QED
    BY <2>1, <2>2
<1>6. CASE NothingPending \/ EndTick
  BY <1>6 DEF NothingPending, EndTick
<1>7. CASE AwaitArms
  BY <1>7 DEF AwaitArms, Queue
<1>8. CASE AbandonPending
  BY <1>8 DEF AbandonPending
<1>9. CASE FirePending
  <2>1. pending.phase \in Phases
    BY <1>9 DEF FirePending
  <2> QED
    BY <1>9, <2>1 DEF FirePending
<1>12. CASE Refuse
  BY <1>12 DEF Refuse
<1>10. CASE WatchArmDropout
  <2>1. CASE armed /\ FellOut # {}
    <3>1. stopping' \in BOOLEAN
      BY <1>10, <2>1, Zenon DEF WatchArmDropout, StopRun
    <3> QED
      BY <1>10, <2>1, <3>1 DEF WatchArmDropout, StopRun
  <2>2. CASE ~(armed /\ FellOut # {})
    <3>1. armed' \in BOOLEAN
      BY <1>10, <2>2, Zenon DEF WatchArmDropout
    <3> QED
      BY <1>10, <2>2, <3>1 DEF WatchArmDropout, Engaged
  <2> QED
    BY <2>1, <2>2
<1>11. CASE TendArms
  <2> DEFINE Dead == {s \in Sides : apc[s] = "dead"}
             Gone == Dead \cup {s \in Sides : apc[s] = "reaped"}
  <2>1. stopping' \in BOOLEAN /\ pending' \in {pending, NoStart}
    BY <1>11 DEF TendArms, StopRun
  <2>2. /\ pub' \in [Sides -> {"none", "empty", "idle", "control"}]
        /\ q' \in [Sides -> Seq(Runs)]
    <3>1. ReapDead(Dead)
      BY <1>11 DEF TendArms
    <3>2. pub' \in [Sides -> {"none", "empty", "idle", "control"}]
      BY <3>1 DEF ReapDead
    <3>3. <<>> \in Seq(Runs)
      OBVIOUS
    <3>4. q' \in [Sides -> Seq(Runs)]
      BY <3>1, <3>3 DEF ReapDead
    <3> QED
      BY <3>2, <3>4
  <2>3. PICK Spawned \in SUBSET Gone :
          apc' = [s \in Sides |-> CASE s \in Spawned -> "spawned"
                                    [] s \in Dead \ Spawned -> "reaped"
                                    [] OTHER -> apc[s]]
    BY <1>11 DEF TendArms
  <2>4. ArmTypeOK'
    <3>1. \A s \in Sides :
            \/ apc'[s] = apc[s]
            \/ (apc[s] \in {"dead", "reaped"} /\ apc'[s] \in {"spawned", "reaped"})
      <4> TAKE s \in Sides
      <4>1. CASE s \in Spawned
        BY <2>3, <4>1
      <4>2. CASE s \in Dead \ Spawned
        BY <2>3, <4>2
      <4>3. CASE s \notin Spawned /\ s \notin Dead
        BY <2>3, <4>3
      <4> QED
        BY <4>1, <4>2, <4>3
    <3>2. apc' \in [Sides -> Alive \cup {"dead", "reaped"}]
      BY <2>3, <3>1 DEF Alive
    <3> QED
      BY <1>11, <3>1, <3>2 DEF TendArms, Session, Bootstrap, Driving
  <2>5. armsDown' \subseteq Sides
    BY <1>11 DEF TendArms
  <2> QED
    BY <1>11, <2>1, <2>2, <2>4, <2>5 DEF TendArms
<1>13. CASE Refire
  BY <1>1, <1>13 DEF Refire
<1> QED
  BY <1>1, <1>2, <1>3, <1>4, <1>5, <1>6, <1>7, <1>8, <1>9, <1>10, <1>11, <1>12, <1>13, TypeLaunch
     DEF Command, ServeTick, HandleStart

\* Every step keeps the types.
LEMMA TypeStep == TypeOK /\ [Next]_vars => TypeOK'
<1> SUFFICES ASSUME TypeOK, [Next]_vars PROVE TypeOK'
  OBVIOUS
<1>1. CASE UNCHANGED vars
  BY <1>1 DEF vars, bus, arm, consumer, daemon, TypeOK, BusTypeOK, ArmTypeOK, ConsumerTypeOK,
     DaemonTypeOK
<1>2. CASE Next
  BY <1>2, TypeArm, TypeConsumer, TypeDaemon DEF Next
<1> QED
  BY <1>1, <1>2

\* The state of the session is well typed for any number of arms and runs; a
\* session holds a message, and from the attach on a channel, exactly while it
\* lasts, and a run exists exactly while its consumer does.
THEOREM TypeCorrect == Spec => []TypeOK
BY TypeInit, TypeStep, PTL DEF Spec

----------------------------------------------------------------------------
(***************************************************************************)
(* The status streams.  The daemon's gates and its watchdog decide on them *)
(* and not on the arms, so the invariant says what a status can be worth   *)
(* at each stage of the arm process.  The last conjunct is what makes the  *)
(* watchdog's evidence inductive: an arm seen in control that no longer    *)
(* says so has no message that could take it back into a session.          *)
(***************************************************************************)

StatusOf(s) ==
  /\ apc[s] \in Driving => pub[s] = "control"
  /\ apc[s] \in {"spawned", "reaped"} => pub[s] = "none"
  /\ apc[s] = "reaped" => q[s] = <<>> /\ s \in armsDown
  /\ s \in active => \/ pub[s] = "control"
                      \/ apc[s] \in {"dead", "reaped"}
                      \/ (apc[s] = "idle" /\ q[s] = <<>>)

StatusInv == (active # {} => runOn) /\ \A s \in Sides : StatusOf(s)

\* It holds at the start.
LEMMA StatusInit == Init => StatusInv
BY DEF Init, BusInit, ArmInit, DaemonInit, StatusInv, StatusOf, Driving

\* A step of an arm process changes nothing of another arm, of the channels, of
\* the consumer or of the daemon.
LEMMA ArmFrame ==
  ASSUME TypeOK, NEW s \in Sides, Arm(s) \/ Robot(s)
  PROVE  /\ UNCHANGED <<channels, consumer, daemon>>
         /\ \A x \in Sides \ {s} : apc'[x] = apc[x] /\ pub'[x] = pub[x] /\ q'[x] = q[x]
<1>1. (ArmStep(s) \/ ArmEvent(s)) /\ UNCHANGED <<consumer, daemon>>
  BY DEF Arm, Robot
<1> SUFFICES ASSUME ArmStep(s) \/ ArmEvent(s)
             PROVE  /\ UNCHANGED channels
                    /\ \A x \in Sides \ {s} :
                         apc'[x] = apc[x] /\ pub'[x] = pub[x] /\ q'[x] = q[x]
  BY <1>1
<1> USE DEF TypeOK, BusTypeOK, ArmTypeOK, bus, arm, channels, Goto, Publish, Leave, Die
<1>2. CASE CreateStreams(s)
  BY <1>2 DEF CreateStreams
<1>3. CASE Connect(s)
  BY <1>3 DEF Connect
<1>4. CASE IdleTick(s)
  BY <1>4 DEF IdleTick
<1>5. CASE EnterControl(s)
  BY <1>5 DEF EnterControl
<1>6. CASE Enabled(s)
  BY <1>6 DEF Enabled
<1>7. CASE TimedOut(s)
  BY <1>7 DEF TimedOut
<1>8. CASE WaitTick(s)
  BY <1>8 DEF WaitTick
<1>9. CASE AttachChannels(s)
  BY <1>9 DEF AttachChannels
<1>10. CASE AttachFails(s)
  BY <1>10 DEF AttachFails
<1>11. CASE StopDrained(s)
  BY <1>11 DEF StopDrained
<1>18. CASE PollMoveJ(s)
  BY <1>18 DEF PollMoveJ
<1>12. CASE StartMoveJ(s)
  BY <1>12 DEF StartMoveJ
<1>13. CASE ReachedTarget(s)
  BY <1>13 DEF ReachedTarget
<1>14. CASE Halt(s)
  BY <1>14 DEF Halt
<1>15. CASE Deadman(s)
  BY <1>15 DEF Deadman
<1>16. CASE Raise(s)
  BY <1>16 DEF Raise
<1>17. CASE Kill(s)
  BY <1>17 DEF Kill
<1> QED
  BY <1>2, <1>3, <1>4, <1>5, <1>6, <1>7, <1>8, <1>9, <1>10, <1>11, <1>12, <1>13, <1>14, <1>15,
     <1>16, <1>17, <1>18 DEF ArmStep, ArmEvent

\* A step of an arm process keeps the status invariant.
LEMMA StatusArm ==
  ASSUME TypeOK, StatusInv, NEW s \in Sides, Arm(s) \/ Robot(s)
  PROVE  StatusInv'
<1>1. /\ UNCHANGED <<channels, consumer, daemon>>
      /\ \A x \in Sides \ {s} : apc'[x] = apc[x] /\ pub'[x] = pub[x] /\ q'[x] = q[x]
  BY ArmFrame
<1>2. UNCHANGED <<active, armsDown, runOn>>
  BY <1>1 DEF daemon
<1>3. ASSUME NEW x \in Sides \ {s} PROVE StatusOf(x)'
  BY <1>1, <1>2 DEF StatusInv, StatusOf
<1>4. StatusOf(s)'
  <2> USE <1>2 DEF StatusInv, StatusOf, TypeOK, BusTypeOK, ArmTypeOK, Alive, Session, Bootstrap, Driving,
          bus, arm, channels, Goto, Publish, Leave, Die
  <2>1. CASE CreateStreams(s)
    <3>1. apc'[s] \in {"boot", "dead"} /\ (apc'[s] = "boot" => pub[s] = "none")
      BY <2>1 DEF CreateStreams
    <3> QED
      BY <2>1, <3>1 DEF CreateStreams
  <2>2. CASE Connect(s)
    BY <2>2 DEF Connect
  <2>3. CASE IdleTick(s)
    BY <2>3 DEF IdleTick
  <2>4. CASE EnterControl(s)
    BY <2>4 DEF EnterControl
  <2>5. CASE Enabled(s)
    BY <2>5 DEF Enabled
  <2>6. CASE TimedOut(s)
    BY <2>6 DEF TimedOut
  <2>7. CASE WaitTick(s)
    BY <2>7 DEF WaitTick
  <2>8. CASE AttachChannels(s)
    BY <2>8 DEF AttachChannels
  <2>9. CASE AttachFails(s)
    BY <2>9 DEF AttachFails
  <2>10. CASE StopDrained(s)
    BY <2>10 DEF StopDrained
  <2>17. CASE PollMoveJ(s)
    BY <2>17 DEF PollMoveJ
  <2>11. CASE StartMoveJ(s)
    BY <2>11 DEF StartMoveJ
  <2>12. CASE ReachedTarget(s)
    BY <2>12 DEF ReachedTarget
  <2>13. CASE Halt(s)
    BY <2>13 DEF Halt
  <2>14. CASE Deadman(s)
    BY <2>14 DEF Deadman
  <2>15. CASE Raise(s)
    BY <2>15 DEF Raise
  <2>16. CASE Kill(s)
    BY <2>16 DEF Kill
  <2> QED
    BY <2>1, <2>2, <2>3, <2>4, <2>5, <2>6, <2>7, <2>8, <2>9, <2>10, <2>11, <2>12, <2>13, <2>14, <2>15, <2>16, <2>17
       DEF Arm, Robot, ArmStep, ArmEvent
<1> QED
  BY <1>2, <1>3, <1>4 DEF StatusInv

\* A step of the daemon keeps the status invariant.
LEMMA StatusDaemon ==
  ASSUME TypeOK, StatusInv, Command \/ ServeTick
  PROVE  StatusInv'
<1> USE DEF StatusInv, StatusOf, TypeOK, BusTypeOK, ArmTypeOK, DaemonTypeOK, bus, arm, consumer, daemon,
        channels
<1>1. CASE Launch
  <2>1. PICK drive \in SUBSET Sides, watch \in SUBSET Sides :
           /\ drive \cap armsDown = {}
           /\ q' = [s \in Sides |-> IF s \in drive THEN Append(q[s], runSeq + 1) ELSE q[s]]
           /\ Spawn(drive, watch)
    BY <1>1, LaunchEffect
  <2>2. \A s \in Sides : s \in armsDown => q'[s] = q[s]
    BY <2>1
  <2> QED
    BY <1>1, <2>2 DEF Launch
<1>2. ASSUME UNCHANGED <<bus, arm, active, runOn, armsDown>> PROVE StatusInv'
  BY <1>2
<1>3. ASSUME NEW s \in Sides, HandleReconnectArm(s) PROVE StatusInv'
  BY <1>3 DEF HandleReconnectArm, Goto, Publish, Driving
<1>4. CASE ReapConsumer
  BY <1>4 DEF ReapConsumer
<1>5. CASE WatchArmDropout
  <2>1. UNCHANGED <<bus, arm, runOn, armsDown>> /\ runOn
    BY <1>5 DEF WatchArmDropout
  <2>2. \A s \in Sides : s \in active' => s \in active \/ pub[s] = "control"
    BY <1>5 DEF WatchArmDropout, Engaged, Busy
  <2> QED
    BY <2>1, <2>2
<1>6. CASE TendArms
  <2> DEFINE Dead == {s \in Sides : apc[s] = "dead"}
             Gone == Dead \cup {s \in Sides : apc[s] = "reaped"}
  <2>1. ReapDead(Dead) /\ UNCHANGED <<active, runOn>> /\ Gone \subseteq armsDown'
    BY <1>6 DEF TendArms
  <2>2. PICK Spawned \in SUBSET Gone :
          /\ runOn => Spawned = {}
          /\ apc' = [s \in Sides |-> CASE s \in Spawned -> "spawned"
                                       [] s \in Dead \ Spawned -> "reaped"
                                       [] OTHER -> apc[s]]
    BY <1>6 DEF TendArms
  <2>3. ASSUME NEW s \in Sides PROVE StatusOf(s)'
    <3>1. CASE s \in Spawned
      BY <2>1, <2>2, <3>1 DEF ReapDead, Driving
    <3>2. CASE s \in Dead \ Spawned
      BY <2>1, <2>2, <3>2 DEF ReapDead, Driving
    <3>3. CASE s \notin Spawned /\ s \notin Dead
      BY <2>1, <2>2, <3>3 DEF ReapDead
    <3> QED
      BY <3>1, <3>2, <3>3
  <2> QED
    BY <2>1, <2>3
<1> QED
  BY <1>1, <1>2, <1>3, <1>4, <1>5, <1>6
     DEF Command, ServeTick, HandleStart, Gate, Refire, Refuse, HandleSwitch, HandleStop, Queue,
         NothingPending, AwaitArms, AbandonPending, FirePending, EndTick

\* Every step keeps it.
LEMMA StatusStep == TypeOK /\ StatusInv /\ [Next]_vars => StatusInv'
<1> SUFFICES ASSUME TypeOK, StatusInv, [Next]_vars PROVE StatusInv'
  OBVIOUS
<1>1. CASE UNCHANGED vars \/ Consumer
  <2>1. UNCHANGED <<apc, active, runOn, armsDown>>
    BY <1>1 DEF vars, Consumer, arm, daemon
  <2>2. UNCHANGED <<q, pub>>
    BY <1>1 DEF vars, Consumer, bus, ConsumerStep, ConsumerEvent, AttachTelemetry, AttachAborted,
         AttachTimeout, OpenChannels, Serve, PostSetpoint, EndLoop, StopArms, Close, Crash
  <2> QED
    BY <2>1, <2>2 DEF StatusInv, StatusOf
<1> QED
  BY <1>1, StatusArm, StatusDaemon DEF Next

\* The status invariant holds throughout.
LEMMA StatusAlways == Spec => [](TypeOK /\ StatusInv)
BY TypeInit, TypeStep, StatusInit, StatusStep, PTL DEF Spec

\* A moving arm is always visible to the daemon's gates: its status stream says
\* control_active.
THEOREM DrivingVisibleTheorem == Spec => []DrivingArmIsVisible
<1>1. TypeOK /\ StatusInv => DrivingArmIsVisible
  BY DEF StatusInv, StatusOf, DrivingArmIsVisible
<1> QED
  BY <1>1, StatusAlways, PTL

\* A respawned arm node finds its stream names free, however the one before it
\* died.
THEOREM RespawnTheorem == Spec => []RespawnNeverCollides
<1>1. TypeOK /\ StatusInv => RespawnNeverCollides
  BY DEF StatusInv, StatusOf, RespawnNeverCollides
<1> QED
  BY <1>1, StatusAlways, PTL

\* No session message waits for an arm the daemon has reaped.
THEOREM ReapedMailTheorem == Spec => []ReapedArmHasNoMail
<1>1. TypeOK /\ StatusInv => ReapedArmHasNoMail
  BY DEF StatusInv, StatusOf, ReapedArmHasNoMail
<1> QED
  BY <1>1, StatusAlways, PTL

\* The watchdog stops a run only for an arm that has left its control session.
THEOREM DropoutTheorem == Spec => []DropoutIsReal
<1>1. TypeOK /\ StatusInv => DropoutIsReal
  BY DEF StatusInv, StatusOf, DropoutIsReal, TypeOK, DaemonTypeOK, Session, Bootstrap, Driving
<1> QED
  BY <1>1, StatusAlways, PTL

\* A start passes only the gate that has just found no arm in control; an arm
\* node is replaced only by reconnect_arm, which looks at the same streams, or
\* after it is dead.
LEMMA NoStartStep ==
  ASSUME TypeOK, StatusInv, [Next]_vars
  PROVE  /\ dpc' = "launch" /\ dpc # "launch" => \A s \in Sides : apc[s] \notin Driving
         /\ \A s \in Sides : apc[s] \in Driving => apc'[s] # "spawned"
<1> USE DEF StatusInv, StatusOf
<1>1. ASSUME NEW p, Gate(p), dpc' = "launch"
      PROVE  \A s \in Sides : apc[s] \notin Driving /\ apc'[s] = apc[s]
  BY <1>1 DEF Gate, Busy, arm
<1>2. ASSUME UNCHANGED apc, dpc' # "launch" \/ dpc = "launch"
      PROVE  /\ dpc' = "launch" => dpc = "launch"
             /\ \A s \in Sides : apc[s] \in Driving => apc'[s] # "spawned"
  BY <1>2 DEF Driving
<1>3. ASSUME NEW s \in Sides, Arm(s) \/ Robot(s)
      PROVE  dpc' = dpc /\ \A x \in Sides : apc[x] \in Driving => apc'[x] # "spawned"
  <2>1. dpc' = dpc /\ \A x \in Sides \ {s} : apc'[x] = apc[x]
    BY <1>3, ArmFrame DEF daemon
  <2>2. apc[s] \in Driving => apc'[s] # "spawned"
    BY <1>3 DEF Arm, Robot, ArmStep, ArmEvent, CreateStreams, Connect, IdleTick, EnterControl, Enabled,
       TimedOut, WaitTick, AttachChannels, AttachFails, StopDrained, StartMoveJ, PollMoveJ, ReachedTarget, Halt,
       Deadman, Raise, Kill, Leave, Die, Goto, Driving, TypeOK, ArmTypeOK, arm
  <2> QED
    BY <2>1, <2>2 DEF Driving
<1>4. ASSUME NEW s \in Sides, HandleReconnectArm(s)
      PROVE  dpc' = dpc /\ \A x \in Sides : apc[x] \in Driving => apc'[x] # "spawned"
  BY <1>4 DEF HandleReconnectArm, Goto, Busy, daemon, Driving, TypeOK, ArmTypeOK
<1>5. CASE TendArms
  <2>1. dpc' = "drain"
    BY <1>5 DEF TendArms
  <2>2. ASSUME NEW s \in Sides, apc[s] \in Driving PROVE apc'[s] = apc[s]
    BY <1>5, <2>2 DEF TendArms, Driving
  <2> QED
    BY <2>1, <2>2 DEF Driving
<1>6. CASE Consumer
  <2>1. UNCHANGED <<apc, dpc>>
    BY <1>6 DEF Consumer, arm, daemon
  <2> QED
    BY <2>1, <1>2
<1>7. CASE UNCHANGED vars
  BY <1>2, <1>7 DEF vars, arm, daemon
<1>8. CASE Command \/ ServeTick
  <2>1. \/ \E p : Gate(p) /\ dpc' = "launch"
        \/ \E s \in Sides : HandleReconnectArm(s)
        \/ TendArms
        \/ UNCHANGED apc /\ (dpc' # "launch" \/ dpc = "launch")
    BY <1>8 DEF Command, ServeTick, HandleStart, Gate, Refire, Refuse, Launch, HandleSwitch, HandleStop,
       Queue, ReapConsumer, NothingPending, AwaitArms, AbandonPending, FirePending, WatchArmDropout,
       EndTick, arm
  <2> QED
    BY <1>1, <1>2, <1>4, <1>5, <2>1 DEF Driving
<1> QED
  BY <1>3, <1>6, <1>7, <1>8 DEF Next

\* No start passes its gates, and no arm node is replaced, over a moving arm, for
\* any number of arms and runs and however the status streams lag.
THEOREM NoStartTheorem == Spec => NoStartOverADrivingArm
<1>1. /\ TypeOK /\ StatusInv
      /\ [Next]_vars
      => [/\ dpc' = "launch" /\ dpc # "launch" => \A s \in Sides : apc[s] \notin Driving
          /\ \A s \in Sides : apc[s] \in Driving => apc'[s] # "spawned"]_vars
  BY NoStartStep
<1> QED
  BY <1>1, StatusAlways, PTL DEF Spec, NoStartOverADrivingArm

----------------------------------------------------------------------------
(***************************************************************************)
(* The control registry.  ControlRegistryIsCurrent is inductive as it      *)
(* stands: the segment conjunct is what lets a sweep that only unlinks     *)
(* what a manifest names leave nothing behind.                             *)
(***************************************************************************)

\* The registry is empty at the start.
LEMMA RegistryInit == Init => ControlRegistryIsCurrent
BY DEF Init, BusInit, ControlRegistryIsCurrent

\* The consumer opens channels of its own run only.
LEMMA RegistryConsumer ==
  ASSUME TypeOK, ControlRegistryIsCurrent, Consumer
  PROVE  ControlRegistryIsCurrent'
<1> USE DEF ControlRegistryIsCurrent, TypeOK, BusTypeOK, ConsumerTypeOK, DaemonTypeOK, NoRun, Runs,
        bus, consumer, daemon
<1>1. UNCHANGED <<runOn, runSeq, sides>> /\ (con' = "attach" => con = "attach")
  BY DEF Consumer, ConsumerStep, ConsumerEvent, AttachTelemetry, AttachAborted,
     AttachTimeout, OpenChannels, Serve, PostSetpoint, EndLoop, StopArms, Close, Crash
<1>2. ASSUME NEW s \in Sides, OpenChannels(s) PROVE ControlRegistryIsCurrent'
  BY <1>1, <1>2 DEF OpenChannels
<1>3. CASE Close
  BY <1>1, <1>3 DEF Close
<1>4. CASE UNCHANGED <<man, seg>>
  BY <1>1, <1>4
<1> QED
  BY <1>2, <1>3, <1>4 DEF Consumer, ConsumerStep, ConsumerEvent, AttachTelemetry, AttachAborted,
     AttachTimeout, Serve, PostSetpoint, EndLoop, StopArms, Crash

\* Every step keeps the registry current.
LEMMA RegistryStep ==
  TypeOK /\ ControlRegistryIsCurrent /\ [Next]_vars => ControlRegistryIsCurrent'
<1> SUFFICES ASSUME TypeOK, ControlRegistryIsCurrent, [Next]_vars
             PROVE  ControlRegistryIsCurrent'
  OBVIOUS
<1> USE DEF ControlRegistryIsCurrent
<1>1. CASE UNCHANGED <<man, seg, runOn, runSeq, sides, con>>
  BY <1>1
<1>2. ASSUME NEW s \in Sides, Arm(s) \/ Robot(s) PROVE ControlRegistryIsCurrent'
  BY <1>1, <1>2, ArmFrame DEF channels, consumer, daemon
<1>3. CASE Launch
  <2>1. \A s \in Sides : man[s] = NoRun /\ seg[s] = NoRun
    BY <1>3 DEF Launch, TypeOK, DaemonTypeOK
  <2> QED
    BY <1>3, <2>1 DEF Launch, channels
<1>4. CASE ReapConsumer
  <2>1. CASE runOn /\ con = "down"
    BY <1>4, <2>1 DEF ReapConsumer, SweepControl
  <2>2. CASE ~(runOn /\ con = "down")
    BY <1>1, <1>4, <2>2 DEF ReapConsumer
  <2> QED
    BY <2>1, <2>2
<1>5. CASE UNCHANGED vars
  BY <1>1, <1>5 DEF vars, bus, consumer, daemon
<1>6. CASE Command \/ ServeTick
  <2>1. \/ Launch
        \/ ReapConsumer
        \/ UNCHANGED <<man, seg, runOn, runSeq, sides, con>>
    BY <1>6 DEF Command, ServeTick, HandleStart, Gate, Refire, Refuse, HandleSwitch, HandleStop,
       HandleReconnectArm, Queue, NothingPending, AwaitArms, AbandonPending, FirePending,
       WatchArmDropout, TendArms, EndTick, bus, consumer, channels, daemon
  <2> QED
    BY <1>1, <1>3, <1>4, <2>1
<1> QED
  BY <1>2, <1>5, <1>6, RegistryConsumer DEF Next

\* Whatever dies in between, the manifests and the segments of the control
\* registry belong to the run in flight.
THEOREM RegistryTheorem == Spec => []ControlRegistryIsCurrent
BY TypeInit, TypeStep, RegistryInit, RegistryStep, PTL DEF Spec

----------------------------------------------------------------------------
(***************************************************************************)
(* The queued start.  QueuedStartIsWanted needs PendingBehindStop: the     *)
(* watchdog and the arm supervisor cancel a queued start without telling   *)
(* the operator, and they act only on a run not yet told to stop, behind   *)
(* which nothing is queued.                                                *)
(***************************************************************************)

QueueInv == PendingBehindStop /\ QueuedStartIsWanted

\* Nothing is queued at the start.
LEMMA QueueInit == Init => QueueInv
BY DEF Init, DaemonInit, QueueInv, PendingBehindStop, QueuedStartIsWanted, NoStart

\* Every step keeps the queued start in order.
LEMMA QueueStep == TypeOK /\ QueueInv /\ [Next]_vars => QueueInv'
<1> SUFFICES ASSUME TypeOK, QueueInv, [Next]_vars PROVE QueueInv'
  OBVIOUS
<1> USE DEF QueueInv, PendingBehindStop, QueuedStartIsWanted
<1>1. ASSUME UNCHANGED <<pending, runOn, stopping, want>> PROVE QueueInv'
  BY <1>1
<1>2. ASSUME NEW s \in Sides, Arm(s) \/ Robot(s) PROVE QueueInv'
  BY <1>1, <1>2, ArmFrame DEF consumer, daemon
<1>3. CASE Consumer
  <2>1. UNCHANGED <<pending, runOn, stopping, want>>
    BY <1>3 DEF Consumer, consumer, daemon, ConsumerStep, ConsumerEvent, AttachTelemetry,
       AttachAborted, AttachTimeout, OpenChannels, Serve, PostSetpoint, EndLoop, StopArms, Close, Crash
  <2> QED
    BY <1>1, <2>1
<1>4. CASE Launch
  BY <1>4 DEF Launch, NoStart
<1>5. ASSUME NEW p, Gate(p), ~runOn PROVE QueueInv'
  BY <1>1, <1>5 DEF Gate, Queue, consumer
<1>6. ASSUME NEW p, HandleSwitch(p) PROVE QueueInv'
  BY <1>6 DEF HandleSwitch, Queue
<1>7. CASE HandleStop
  BY <1>7 DEF HandleStop, StopRun, NoStart
<1>8. CASE ReapConsumer
  <2>1. CASE runOn /\ con = "down"
    BY <1>8, <2>1 DEF ReapConsumer
  <2>2. CASE ~(runOn /\ con = "down")
    BY <1>1, <1>8, <2>2 DEF ReapConsumer
  <2> QED
    BY <2>1, <2>2
<1>9. CASE AwaitArms
  BY <1>9 DEF AwaitArms, Queue
<1>10. CASE AbandonPending \/ FirePending
  BY <1>10 DEF AbandonPending, FirePending, NoStart
<1>11. CASE WatchArmDropout \/ TendArms
  <2>1. UNCHANGED <<runOn, want>>
    BY <1>11 DEF WatchArmDropout, TendArms
  <2>2. \/ UNCHANGED <<stopping, pending>>
        \/ runOn /\ ~stopping /\ pending' = NoStart
    BY <1>11 DEF WatchArmDropout, TendArms, StopRun
  <2>3. CASE runOn /\ ~stopping /\ pending' = NoStart
    BY <2>1, <2>3 DEF NoStart
  <2> QED
    BY <1>1, <2>1, <2>2, <2>3
<1>12. CASE UNCHANGED vars
  BY <1>1, <1>12 DEF vars, consumer, daemon
<1>13. CASE Command \/ ServeTick
  <2>1. CASE Refuse \/ NothingPending \/ EndTick \/ \E s \in Sides : HandleReconnectArm(s)
    BY <1>1, <2>1 DEF Refuse, NothingPending, EndTick, HandleReconnectArm, consumer, daemon
  <2>2. CASE Refire
    BY <1>5, <2>2 DEF Refire, TypeOK, DaemonTypeOK
  <2> QED
    BY <1>4, <1>5, <1>6, <1>7, <1>8, <1>9, <1>10, <1>11, <1>13, <2>1, <2>2
       DEF Command, ServeTick, HandleStart
<1> QED
  BY <1>2, <1>3, <1>12, <1>13 DEF Next

\* A queued start is always the operator's last word, and it never waits behind
\* a run that was not told to stop.
THEOREM QueueTheorem == Spec => []PendingBehindStop /\ []QueuedStartIsWanted
<1>1. QueueInv => PendingBehindStop /\ QueuedStartIsWanted
  BY DEF QueueInv
<1> QED
  BY <1>1, TypeInit, TypeStep, QueueInit, QueueStep, PTL DEF Spec

=============================================================================
