------------------------- MODULE FactrServersProofs -------------------------
(***************************************************************************)
(* Proofs about the leaders: about the processes that serve them           *)
(* (FactrServers), for any set of leaders and any number of daemons,       *)
(* launches and runs, and about the calibration of their joints            *)
(* (Calibration), for any number of captures, solutions and saves.         *)
(***************************************************************************)
EXTENDS FactrServers, Calibration, FiniteSetTheorems, TLAPS

----------------------------------------------------------------------------
(* The servers.                                                            *)

\* Before its first launch, and again after a stop, the supervisor holds no
\* process, unless a launch raised half way.
Resting == sup \in {"gone", "off", "countdown"}

\* What the supervisor's state says about the processes.
ProcessInv ==
  /\ sup = "gone" => \A u \in Units : srv[u] = "none"
  /\ Resting => srv["api"] # "up"
  /\ Resting /\ ~raised => \A u \in Units : srv[u] # "up"
  /\ sup # "gone" => "api" \notin left
  /\ sup # "gone" /\ ~raised => left = {}
  /\ sup = "stopping" => \A u \in Units : srv[u] = "up" => "int" \in sigs[u]

\* A countdown is only begun without a run, and no collection run gets past its
\* gate before the relay is up.
CountdownInv == sup = "countdown" /\ run = "collection" => Leaders = {}

IInv ==
  TypeOK /\ ProcessInv /\ CountdownInv /\ EscalationIsLast /\ LeadersHoldDuringCollection

\* The invariant holds before the first daemon boots.
LEMMA InvInit == Init => IInv
BY DEF Init, IInv, TypeOK, ProcessInv, Resting, CountdownInv, EscalationIsLast,
       LeadersHoldDuringCollection, Units, Phases

\* Every step keeps the types.
LEMMA TypeStep == TypeOK /\ [Next]_vars => TypeOK'
<1> SUFFICES ASSUME TypeOK, [Next]_vars PROVE TypeOK'
  OBVIOUS
<1> USE DEF TypeOK, Units, Phases, procs, past, session
<1>1. CASE CountdownFires
  BY <1>1 DEF CountdownFires, SpawnAll, SpawnUnits, FreeApiPorts, Live, Serving
<1>2. CASE CountdownRaises
  BY <1>2 DEF CountdownRaises, FreeApiPorts, Live, Serving, Forget, NoSession
<1>3. CASE StopDone
  BY <1>3 DEF StopDone, Forget
<1>4. CASE StopTerminate
  BY <1>4 DEF StopTerminate
<1>5. CASE StopKill
  BY <1>5 DEF StopKill, Forget
<1>6. CASE RespawnRelay
  BY <1>6 DEF RespawnRelay, SpawnUnits
<1>7. ASSUME Teardown, raised' \in BOOLEAN, sup = "running" \/ ~closing PROVE TypeOK'
  <2>1. CASE sup = "running" /\ BeginStop /\ closing' = TRUE /\ UNCHANGED <<srv, left>>
    BY <1>7, <2>1 DEF Teardown, NoSession, BeginStop
  <2>2. CASE sup = "stopping" /\ closing' = TRUE /\ UNCHANGED <<sup, terminated, procs>>
    BY <1>7, <2>2 DEF Teardown, NoSession
  <2>3. CASE /\ sup \in {"off", "countdown"} /\ sup' = "gone"
             /\ left' = left \cup Live /\ Forget /\ UNCHANGED <<closing, terminated>>
    BY <1>7, <2>3 DEF Teardown, NoSession, Forget, Live
  <2> QED
    BY <1>7, <2>1, <2>2, <2>3 DEF Teardown
<1>8. CASE RespawnRaises
  BY <1>7, <1>8 DEF RespawnRaises
<1>9. CASE StartFactr
  BY <1>9 DEF StartFactr, Serving
<1>10. CASE StopFactr
  <2>1. CASE sup = "running" /\ BeginStop /\ UNCHANGED <<srv, left>>
    BY <1>10, <2>1 DEF StopFactr, Serving, BeginStop
  <2>2. CASE /\ sup = "countdown" /\ sup' = "off" /\ Forget /\ left' = left \cup Live
             /\ UNCHANGED terminated
    BY <1>10, <2>2 DEF StopFactr, Serving, Forget, Live
  <2> QED
    BY <1>10, <2>1, <2>2 DEF StopFactr
<1>11. CASE Shutdown
  BY <1>7, <1>11 DEF Shutdown, Serving
<1>12. CASE EnableGravComp
  BY <1>12 DEF EnableGravComp
<1>13. CASE DisableGravComp
  BY <1>13 DEF DisableGravComp, HaltCollection
<1>14. ASSUME NEW p \in Phases, BeginRun(p) PROVE TypeOK'
  BY <1>14 DEF BeginRun, Serving
<1>15. ASSUME NEW p \in Phases, QueueStart(p) PROVE TypeOK'
  BY <1>15 DEF QueueStart, Serving
<1>16. CASE Killed
  BY <1>16 DEF Killed, Forget, NoSession, Live
<1>17. CASE Boot
  BY <1>17 DEF Boot, Sweep, SpawnUnits
<1>18. CASE StopRun
  BY <1>18 DEF StopRun, Serving
<1>19. CASE ReapRun
  BY <1>19 DEF ReapRun, Serving
<1>20. ASSUME NEW u \in Units, Exit(u) PROVE TypeOK'
  BY <1>20 DEF Exit
<1>21. ASSUME NEW l \in Leaders, RampUp(l) PROVE TypeOK'
  BY <1>21 DEF RampUp
<1>22. CASE UNCHANGED vars
  BY <1>22, SMTT(30) DEF vars
<1> QED
  BY <1>1, <1>2, <1>3, <1>4, <1>5, <1>6, <1>8, <1>9, <1>10, <1>11, <1>12, <1>13, <1>14, <1>15,
     <1>16, <1>17, <1>18, <1>19, <1>20, <1>21, <1>22 DEF Next, Tend, Command, World

\* What the supervisor's state says about the processes stays true.
LEMMA ProcessStep == TypeOK /\ ProcessInv /\ [Next]_vars => ProcessInv'
<1> SUFFICES ASSUME TypeOK, ProcessInv, [Next]_vars PROVE ProcessInv'
  OBVIOUS
<1> USE DEF TypeOK, ProcessInv, Resting, Units, procs, past, session
<1>1. CASE CountdownFires
  BY <1>1 DEF CountdownFires, SpawnAll, SpawnUnits, FreeApiPorts, Live, Serving
<1>2. CASE CountdownRaises
  BY <1>2 DEF CountdownRaises, FreeApiPorts, Live, Serving, Forget, NoSession
<1>3. CASE StopDone
  BY <1>3 DEF StopDone, Forget, Live
<1>4. CASE StopTerminate
  BY <1>4 DEF StopTerminate, Live
<1>5. CASE StopKill
  BY <1>5 DEF StopKill, Forget
<1>6. CASE RespawnRelay
  BY <1>6 DEF RespawnRelay, SpawnUnits
<1>7. CASE RespawnRaises
  BY <1>7 DEF RespawnRaises, Teardown, NoSession, BeginStop, Forget, Live
<1>8. CASE StartFactr
  BY <1>8 DEF StartFactr, Serving
<1>9. CASE StopFactr
  BY <1>9 DEF StopFactr, Serving, BeginStop, Forget, Live
<1>10. CASE Shutdown
  BY <1>10 DEF Shutdown, Teardown, Serving, NoSession, BeginStop, Forget, Live
<1>11. CASE EnableGravComp
  BY <1>11 DEF EnableGravComp, Serving
<1>12. CASE DisableGravComp
  BY <1>12 DEF DisableGravComp, Serving, HaltCollection
<1>13. ASSUME NEW p \in Phases, BeginRun(p) PROVE ProcessInv'
  BY <1>13 DEF BeginRun, Serving
<1>14. ASSUME NEW p \in Phases, QueueStart(p) PROVE ProcessInv'
  BY <1>14 DEF QueueStart, Serving
<1>15. CASE Killed
  BY <1>15 DEF Killed, Forget, NoSession
<1>16. CASE Boot
  <2>1. CASE SpawnUnits(Units) /\ sup' = "running" /\ UNCHANGED raised
    BY <1>16, <2>1 DEF Boot, Sweep, SpawnUnits
  <2>2. CASE sup' = "off" /\ raised' = TRUE /\ \E U \in SUBSET Leaders : SpawnUnits(U)
    BY <1>16, <2>2, LeadersAssumption DEF Boot, Sweep, SpawnUnits
  <2> QED
    BY <1>16, <2>1, <2>2 DEF Boot
<1>17. CASE StopRun
  BY <1>17 DEF StopRun, Serving
<1>18. CASE ReapRun
  BY <1>18 DEF ReapRun, Serving
<1>19. ASSUME NEW u \in Units, Exit(u) PROVE ProcessInv'
  BY <1>19 DEF Exit
<1>20. ASSUME NEW l \in Leaders, RampUp(l) PROVE ProcessInv'
  BY <1>20 DEF RampUp
<1>21. CASE UNCHANGED vars
  BY <1>21 DEF vars
<1> QED
  BY <1>1, <1>2, <1>3, <1>4, <1>5, <1>6, <1>7, <1>8, <1>9, <1>10, <1>11, <1>12, <1>13, <1>14,
     <1>15, <1>16, <1>17, <1>18, <1>19, <1>20, <1>21
     DEF Next, Tend, Command, World

\* Only StopTerminate sends SIGTERM, and only after a stop sent SIGINT.
LEMMA EscalationStep == TypeOK /\ ProcessInv /\ EscalationIsLast /\ [Next]_vars => EscalationIsLast'
<1> SUFFICES ASSUME TypeOK, ProcessInv, EscalationIsLast, [Next]_vars PROVE EscalationIsLast'
  OBVIOUS
<1> USE DEF TypeOK, ProcessInv, EscalationIsLast, Units, procs, past, session
<1>1. CASE CountdownFires
  BY <1>1 DEF CountdownFires, SpawnAll, SpawnUnits, FreeApiPorts, Live, Serving
<1>2. CASE CountdownRaises
  BY <1>2 DEF CountdownRaises, FreeApiPorts, Live, Serving, Forget, NoSession
<1>3. CASE StopDone
  BY <1>3 DEF StopDone, Forget, Live
<1>4. CASE StopTerminate
  BY <1>4 DEF StopTerminate, Live
<1>5. CASE StopKill
  BY <1>5 DEF StopKill, Forget
<1>6. CASE RespawnRelay
  BY <1>6 DEF RespawnRelay, SpawnUnits
<1>7. CASE RespawnRaises
  BY <1>7 DEF RespawnRaises, Teardown, NoSession, BeginStop, Forget, Live
<1>8. CASE StartFactr
  BY <1>8 DEF StartFactr, Serving
<1>9. CASE StopFactr
  BY <1>9 DEF StopFactr, Serving, BeginStop, Forget, Live
<1>10. CASE Shutdown
  BY <1>10 DEF Shutdown, Teardown, Serving, NoSession, BeginStop, Forget, Live
<1>11. CASE EnableGravComp
  BY <1>11 DEF EnableGravComp, Serving
<1>12. CASE DisableGravComp
  BY <1>12 DEF DisableGravComp, Serving, HaltCollection
<1>13. ASSUME NEW p \in Phases, BeginRun(p) PROVE EscalationIsLast'
  BY <1>13 DEF BeginRun, Serving
<1>14. ASSUME NEW p \in Phases, QueueStart(p) PROVE EscalationIsLast'
  BY <1>14 DEF QueueStart, Serving
<1>15. CASE Killed
  BY <1>15 DEF Killed, Forget, NoSession
<1>16. CASE Boot
  BY <1>16 DEF Boot, Sweep, SpawnUnits
<1>17. CASE StopRun
  BY <1>17 DEF StopRun, Serving
<1>18. CASE ReapRun
  BY <1>18 DEF ReapRun, Serving
<1>19. ASSUME NEW u \in Units, Exit(u) PROVE EscalationIsLast'
  BY <1>19 DEF Exit
<1>20. ASSUME NEW l \in Leaders, RampUp(l) PROVE EscalationIsLast'
  BY <1>20 DEF RampUp
<1>21. CASE UNCHANGED vars
  BY <1>21 DEF vars
<1> QED
  BY <1>1, <1>2, <1>3, <1>4, <1>5, <1>6, <1>7, <1>8, <1>9, <1>10, <1>11, <1>12, <1>13, <1>14,
     <1>15, <1>16, <1>17, <1>18, <1>19, <1>20, <1>21
     DEF Next, Tend, Command, World

\* During a countdown no relay answers the collection gate.
LEMMA CountdownStep == TypeOK /\ ProcessInv /\ CountdownInv /\ [Next]_vars => CountdownInv'
<1> SUFFICES ASSUME TypeOK, ProcessInv, CountdownInv, [Next]_vars PROVE CountdownInv'
  OBVIOUS
<1> USE DEF TypeOK, ProcessInv, CountdownInv, Resting, Phases, Units, procs, past, session
<1>1. CASE CountdownFires
  BY <1>1 DEF CountdownFires, SpawnAll, SpawnUnits, FreeApiPorts, Live, Serving
<1>2. CASE CountdownRaises
  BY <1>2 DEF CountdownRaises, FreeApiPorts, Live, Serving, Forget, NoSession
<1>3. CASE StopDone
  BY <1>3 DEF StopDone, Forget, Live
<1>4. CASE StopTerminate
  BY <1>4 DEF StopTerminate, Live
<1>5. CASE StopKill
  BY <1>5 DEF StopKill, Forget
<1>6. CASE RespawnRelay
  BY <1>6 DEF RespawnRelay, SpawnUnits
<1>7. CASE RespawnRaises
  BY <1>7 DEF RespawnRaises, Teardown, NoSession, BeginStop, Forget, Live
<1>8. CASE StartFactr
  BY <1>8 DEF StartFactr, Serving
<1>9. CASE StopFactr
  BY <1>9 DEF StopFactr, Serving, BeginStop, Forget, Live
<1>10. CASE Shutdown
  BY <1>10 DEF Shutdown, Teardown, Serving, NoSession, BeginStop, Forget, Live
<1>11. CASE EnableGravComp
  BY <1>11 DEF EnableGravComp, Serving
<1>12. CASE DisableGravComp
  BY <1>12 DEF DisableGravComp, Serving, HaltCollection
<1>13. ASSUME NEW p \in Phases, BeginRun(p) PROVE CountdownInv'
  BY <1>13 DEF BeginRun, Serving, LeadersReady, Reachable
<1>14. ASSUME NEW p \in Phases, QueueStart(p) PROVE CountdownInv'
  BY <1>14 DEF QueueStart, Serving
<1>15. CASE Killed
  BY <1>15 DEF Killed, Forget, NoSession
<1>16. CASE Boot
  BY <1>16 DEF Boot, Sweep, SpawnUnits
<1>17. CASE StopRun
  BY <1>17 DEF StopRun, Serving
<1>18. CASE ReapRun
  BY <1>18 DEF ReapRun, Serving
<1>19. ASSUME NEW u \in Units, Exit(u) PROVE CountdownInv'
  BY <1>19 DEF Exit
<1>20. ASSUME NEW l \in Leaders, RampUp(l) PROVE CountdownInv'
  BY <1>20 DEF RampUp
<1>21. CASE UNCHANGED vars
  BY <1>21 DEF vars
<1> QED
  BY <1>1, <1>2, <1>3, <1>4, <1>5, <1>6, <1>7, <1>8, <1>9, <1>10, <1>11, <1>12, <1>13, <1>14,
     <1>15, <1>16, <1>17, <1>18, <1>19, <1>20, <1>21
     DEF Next, Tend, Command, World

\* No step lets the gain of a live teleop go under a collection run: the gate, the
\* halt and the refusals of a relaunch.
LEMMA HoldStep == TypeOK /\ ProcessInv /\ CountdownInv /\ LeadersHoldDuringCollection /\ [Next]_vars => LeadersHoldDuringCollection'
<1> SUFFICES ASSUME TypeOK, ProcessInv, CountdownInv, LeadersHoldDuringCollection, [Next]_vars PROVE LeadersHoldDuringCollection'
  OBVIOUS
<1> USE DEF TypeOK, CountdownInv, LeadersHoldDuringCollection, Phases, Units, procs, past, session
<1>1. CASE CountdownFires
  BY <1>1 DEF CountdownFires, SpawnAll, SpawnUnits, FreeApiPorts, Live, Serving
<1>2. CASE CountdownRaises
  BY <1>2 DEF CountdownRaises, FreeApiPorts, Live, Serving, Forget, NoSession
<1>3. CASE StopDone
  BY <1>3 DEF StopDone, Forget, Live
<1>4. CASE StopTerminate
  BY <1>4 DEF StopTerminate, Live
<1>5. CASE StopKill
  BY <1>5 DEF StopKill, Forget
<1>6. CASE RespawnRelay
  BY <1>6, LeadersAssumption DEF RespawnRelay, SpawnUnits
<1>7. CASE RespawnRaises
  BY <1>7 DEF RespawnRaises, Teardown, NoSession, BeginStop, Forget, Live
<1>8. CASE StartFactr
  BY <1>8 DEF StartFactr, Serving
<1>9. CASE StopFactr
  BY <1>9 DEF StopFactr, Serving, BeginStop, Forget, Live
<1>10. CASE Shutdown
  BY <1>10 DEF Shutdown, Teardown, Serving, NoSession, BeginStop, Forget, Live
<1>11. CASE EnableGravComp
  BY <1>11 DEF EnableGravComp, Serving
<1>12. CASE DisableGravComp
  BY <1>12 DEF DisableGravComp, Serving, HaltCollection
<1>13. ASSUME NEW p \in Phases, BeginRun(p) PROVE LeadersHoldDuringCollection'
  BY <1>13 DEF BeginRun, Serving, LeadersReady, Reachable
<1>14. ASSUME NEW p \in Phases, QueueStart(p) PROVE LeadersHoldDuringCollection'
  BY <1>14 DEF QueueStart, Serving
<1>15. CASE Killed
  BY <1>15 DEF Killed, Forget, NoSession
<1>16. CASE Boot
  BY <1>16 DEF Boot, Sweep, SpawnUnits
<1>17. CASE StopRun
  BY <1>17 DEF StopRun, Serving
<1>18. CASE ReapRun
  BY <1>18 DEF ReapRun, Serving
<1>19. ASSUME NEW u \in Units, Exit(u) PROVE LeadersHoldDuringCollection'
  BY <1>19 DEF Exit
<1>20. ASSUME NEW l \in Leaders, RampUp(l) PROVE LeadersHoldDuringCollection'
  BY <1>20 DEF RampUp
<1>21. CASE UNCHANGED vars
  BY <1>21 DEF vars
<1> QED
  BY <1>1, <1>2, <1>3, <1>4, <1>5, <1>6, <1>7, <1>8, <1>9, <1>10, <1>11, <1>12, <1>13, <1>14,
     <1>15, <1>16, <1>17, <1>18, <1>19, <1>20, <1>21
     DEF Next, Tend, Command, World

\* The supervisor's bookkeeping, inductively.
THEOREM Inductive == Spec => []IInv
<1>1. Init => IInv
  BY InvInit
<1>2. IInv /\ [Next]_vars => IInv'
  BY TypeStep, ProcessStep, EscalationStep, CountdownStep, HoldStep DEF IInv
<1> QED
  BY <1>1, <1>2, PTL DEF Spec

\* While a collection run feeds on the leaders every teleop still up holds its arm
\* at full gain, for any set of leaders (the collection gate, the halt in
\* _handle_grav_comp, the refusals of _handle_start_factr).
THEOREM LeadersHold == Spec => []LeadersHoldDuringCollection
<1>1. IInv => LeadersHoldDuringCollection
  BY DEF IInv
<1> QED
  BY <1>1, Inductive, PTL

\* SIGTERM never comes before SIGINT, and no unit ever has two live processes
\* unless a launch raised: across commands, deaths of processes and of daemons
\* (the boot sweep before start_now, _tend_stopping's escalation).
THEOREM InOrder == Spec => []ProcessesInOrder
<1>1. IInv => ProcessesInOrder
  BY DEF IInv, ProcessesInOrder, ProcessInv, OneProcessPerUnit, TypeOK
<1> QED
  BY <1>1, Inductive, PTL

----------------------------------------------------------------------------
(* The calibration pane, whatever an operator's strikes are off by.        *)

Joints == [sign : Signs, offset : Quarters, targets : Columns, home : {1}]

\* The poses that were held exactly hold what the leader reads there, and so does
\* the captured home; an entry on its way to the file is of one piece.
CalibInv ==
  /\ leader \in Joints
  /\ DOMAIN samples \subseteq Poses /\ struck \subseteq DOMAIN samples
  /\ \A p \in struck : samples[p] = Reads(leader.targets[p])
  /\ homeRaw \subseteq {Reads(leader.home)}
  /\ \A e \in saving : e.offset = leader.offset /\ e.flip = (leader.sign = -1) => e.home = leader.home

\* A pose's target is a quarter turn at most, and of two different ones one is 0.
LEMMA TargetFacts ==
  ASSUME NEW c \in Columns, NEW p \in Poses, NEW r \in Poses
  PROVE  c[p] \in -1 .. 1 /\ (c[p] # c[r] => c[p] = 0 \/ c[r] = 0)
<1>1. ASSUME NEW bend, NEW roll
      PROVE  /\ Column(bend, roll)["Straight up"] = 0
             /\ Column(bend, roll)["Elbow bend"] = bend
             /\ Column(bend, roll)["Roll"] = roll
  BY DEF Column, Poses
<1>2. CASE c = Column(0, 1)
  <2>1. c["Straight up"] = 0 /\ c["Elbow bend"] = 0 /\ c["Roll"] = 1
    BY <1>1, <1>2
  <2>2. \A x \in Poses : c[x] \in {0, 1}
    BY <2>1, Zenon DEF Poses
  <2> QED
    BY <2>2
<1>3. CASE c = Column(-1, -1)
  <2>1. c["Straight up"] = 0 /\ c["Elbow bend"] = -1 /\ c["Roll"] = -1
    BY <1>1, <1>3
  <2>2. \A x \in Poses : c[x] \in {0, -1}
    BY <2>1, Zenon DEF Poses
  <2> QED
    BY <2>2
<1> QED
  BY <1>2, <1>3 DEF Columns

\* A leader of sign s and offset o reads the target q back, as the follower takes it.
LEMMA ReadsBack ==
  ASSUME NEW s \in Signs, NEW o \in Quarters, NEW q \in -1 .. 1
  PROVE  Wrap(s * (Wrap(s * q - o) + o)) = q
<1>1. CASE s = 1
  BY <1>1 DEF Wrap, Quarters
<1>2. CASE s = -1
  BY <1>2 DEF Wrap, Quarters
<1> QED
  BY <1>1, <1>2 DEF Signs

\* What an exact sample says of the offset: the offset with the leader's sign, and
\* with the other one the offset too, or half a turn from it when the target is not 0.
LEMMA EstimateFacts ==
  ASSUME NEW s \in Signs, NEW o \in Quarters, NEW q \in -1 .. 1
  PROVE  /\ Wrap(s * q - Wrap(s * q - o)) = o
         /\ Wrap((-s) * q - Wrap(s * q - o)) = IF q = 0 THEN o ELSE Wrap(o + 2)
<1>1. CASE s = 1
  BY <1>1 DEF Wrap, Quarters
<1>2. CASE s = -1
  BY <1>2 DEF Wrap, Quarters
<1> QED
  BY <1>1, <1>2 DEF Signs

\* When every target is the same, the other sign reads it back with its own offset.
LEMMA OtherReadsBack ==
  ASSUME NEW s \in Signs, NEW o \in Quarters, NEW q \in -1 .. 1
  PROVE  Wrap((-s) * (Wrap(s * q - o) + (IF q = 0 THEN o ELSE Wrap(o + 2)))) = q
<1>1. CASE s = 1
  BY <1>1 DEF Wrap, Quarters
<1>2. CASE s = -1
  BY <1>2 DEF Wrap, Quarters
<1> QED
  BY <1>1, <1>2 DEF Signs

\* Half a turn apart.
LEMMA HalfTurn ==
  ASSUME NEW o \in Quarters
  PROVE  Wrap(o + 2) # o /\ Wrap(o - Wrap(o + 2)) = -2
BY DEF Wrap, Quarters

\* The initial pane holds nothing.
LEMMA CalibInitInv == CalibInit => CalibInv
BY DEF CalibInit, CalibInv, NoSamples, Joints

\* What Reset to config and a new session leave.
LEMMA FromConfigFacts ==
  CalibInv /\ FromConfig /\ leader' = leader /\ saving' \subseteq saving => CalibInv'
BY DEF CalibInv, FromConfig, NoSamples, Reads

\* Every control of the pane keeps it so.
LEMMA CalibStep == CalibInv /\ [CalibNext]_calibVars => CalibInv'
<1> SUFFICES ASSUME CalibInv, [CalibNext]_calibVars PROVE CalibInv'
  OBVIOUS
<1>1. CASE Solve
  BY <1>1, SMTT(30) DEF Solve, CalibInv, Reads
<1>2. CASE Clear
  BY <1>2 DEF Clear, CalibInv, NoSamples, Reads
<1>3. CASE CaptureJoint
  BY <1>3 DEF CaptureJoint, CalibInv, Reads
<1>4. CASE Flip
  BY <1>4 DEF Flip, CalibInv, Reads
<1>5. CASE CaptureHome
  BY <1>5 DEF CaptureHome, CalibInv, Reads
<1>6. CASE ResetToConfig
  BY <1>6, FromConfigFacts DEF ResetToConfig
<1>7. CASE Save
  <2>1. PICK raw \in homeRaw :
          saving' = {[offset |-> offset, flip |-> flip, home |-> SolveModelHome(raw)]}
    BY <1>7 DEF Save
  <2>2. leader' = leader /\ UNCHANGED paneVars
    BY <1>7 DEF Save
  <2>3. ASSUME offset = leader.offset, flip = (leader.sign = -1)
        PROVE  SolveModelHome(raw) = leader.home
    <3>1. raw = Wrap(leader.sign * 1 - leader.offset) /\ leader.home = 1
      BY DEF CalibInv, Reads, Joints
    <3>2. leader.sign \in Signs /\ leader.offset \in Quarters
      BY DEF CalibInv, Joints
    <3>3. SolveModelHome(raw) = Wrap(leader.sign * (raw + leader.offset))
      BY <2>3, <3>2 DEF SolveModelHome, Convert, Signs
    <3> QED
      BY <3>1, <3>2, <3>3, ReadsBack
  <2> QED
    BY <2>1, <2>2, <2>3 DEF CalibInv, Reads, paneVars
<1>8. CASE Replace
  BY <1>8 DEF Replace, CalibInv, paneVars, Reads
<1>9. CASE Dies
  BY <1>9, FromConfigFacts DEF Dies
<1>10. ASSUME NEW p \in Poses, NEW off \in {0} \cup MisStrikes, Capture(p, off) PROVE CalibInv'
  <2>1. /\ DOMAIN samples' = DOMAIN samples \cup {p}
        /\ samples'[p] = Reads(leader.targets[p] + off)
        /\ \A r \in DOMAIN samples \ {p} : samples'[r] = samples[r]
    BY <1>10 DEF Capture
  <2>2. UNCHANGED <<leader, homeRaw, saving>> /\ struck' = IF off = 0 THEN struck \cup {p} ELSE struck \ {p}
    BY <1>10 DEF Capture
  <2>3. off = 0 => samples'[p] = Reads(leader.targets[p])
    <3>1. leader.targets[p] \in Int
      BY TargetFacts DEF CalibInv, Joints
    <3> QED
      BY <2>1, <3>1
  <2> QED
    BY <2>1, <2>2, <2>3 DEF CalibInv, Reads
<1>11. CASE UNCHANGED calibVars
  BY <1>11 DEF calibVars, paneVars, CalibInv, Reads
<1> QED
  BY <1>1, <1>2, <1>3, <1>4, <1>5, <1>6, <1>7, <1>8, <1>9, <1>10, <1>11 DEF CalibNext

\* The residual of estimates that agree is 0, and they are their own mean.
LEMMA SpreadOfAgreeing ==
  ASSUME NEW est, NEW v, DOMAIN est # {}, \A p \in DOMAIN est : est[p] = v
  PROVE  Spread(est) = 0 /\ Means(est) = {v} /\ ~Flagged(est)
<1>1. Range(est) = {v}
  BY DEF Range
<1>2. Cardinality(Range(est)) = 1
  BY <1>1, FS_Singleton
<1>3. Spread(est) = 0
  BY <1>2 DEF Spread
<1>4. Means(est) = {v}
  BY <1>1, <1>2 DEF Means
<1> QED
  BY <1>3, <1>4 DEF Flagged, WarnSquared

\* The size of a set of two, and of three.
LEMMA TwoElements ==
  ASSUME NEW a, NEW b, a # b
  PROVE  IsFiniteSet({a, b}) /\ Cardinality({a, b}) = 2
<1>1. IsFiniteSet({a}) /\ Cardinality({a}) = 1
  BY FS_Singleton
<1>2. {a, b} = {a} \cup {b} /\ b \notin {a}
  OBVIOUS
<1> QED
  BY <1>1, <1>2, FS_AddElement

LEMMA ThreeElements ==
  ASSUME NEW a, NEW b, NEW c, a # b, a # c, b # c
  PROVE  IsFiniteSet({a, b, c}) /\ Cardinality({a, b, c}) = 3
<1>1. {a, b, c} = {a, b} \cup {c} /\ c \notin {a, b}
  OBVIOUS
<1> QED
  <2>1. IsFiniteSet({a, b}) /\ Cardinality({a, b}) = 2
    BY TwoElements
  <2> QED
    BY <1>1, <2>1, FS_AddElement

\* Two or three estimates of which some are o and the others half a turn away leave
\* a residual.
LEMMA SpreadOfOpposite ==
  ASSUME NEW est, NEW o \in Quarters, Range(est) = {o, Wrap(o + 2)},
         DOMAIN est \subseteq Poses, Cardinality(DOMAIN est) >= 2
  PROVE  Spread(est) \in {8100, 10800}
<1>1. Cardinality(Range(est)) = 2
  BY HalfTurn, TwoElements
<1>2. Cardinality(DOMAIN est) \in {2, 3}
  <2>1. "Straight up" # "Elbow bend" /\ "Straight up" # "Roll" /\ "Elbow bend" # "Roll"
    OBVIOUS
  <2>2. IsFiniteSet(Poses) /\ Cardinality(Poses) = 3
    BY <2>1, ThreeElements DEF Poses
  <2>3. IsFiniteSet(DOMAIN est) /\ Cardinality(DOMAIN est) <= 3
    BY <2>2, FS_Subset
  <2>4. Cardinality(DOMAIN est) \in Nat
    BY <2>3, FS_CardinalityType
  <2> QED
    BY <2>3, <2>4
<1>3. \E a, b \in Range(est) : Wrap(a - b) = -2
  BY HalfTurn
<1> QED
  BY <1>1, <1>2, <1>3 DEF Spread
\* What exact samples say with the leader's sign, and with the other.
LEMMA ExactEstimates ==
  ASSUME CalibInv, DOMAIN samples = struck
  PROVE  /\ \A sign : DOMAIN Estimates(sign) = struck
         /\ \A p \in struck : Estimates(leader.sign)[p] = leader.offset
         /\ \A p \in struck : Estimates(-leader.sign)[p] =
                IF leader.targets[p] = 0 THEN leader.offset ELSE Wrap(leader.offset + 2)
<1>1. leader.sign \in Signs /\ leader.offset \in Quarters /\ leader.targets \in Columns
  BY SMTT(30) DEF CalibInv, Joints
<1>2. \A sign : /\ DOMAIN Estimates(sign) = struck
                /\ \A p \in struck : Estimates(sign)[p] = Wrap(sign * leader.targets[p] - samples[p])
  BY DEF Estimates, Pairs
<1>3. ASSUME NEW p \in struck
      PROVE  leader.targets[p] \in -1 .. 1 /\ samples[p] = Wrap(leader.sign * leader.targets[p] - leader.offset)
  BY <1>1, TargetFacts DEF CalibInv, Reads
<1>4. ASSUME NEW p \in struck
      PROVE  /\ Wrap(leader.sign * leader.targets[p] - samples[p]) = leader.offset
             /\ Wrap((-leader.sign) * leader.targets[p] - samples[p]) =
                  IF leader.targets[p] = 0 THEN leader.offset ELSE Wrap(leader.offset + 2)
  BY <1>1, <1>3, EstimateFacts
<1> QED
  BY <1>2, <1>4

\* Solving from exact samples: the residual is 0, and the convention reads every
\* target back.
LEMMA ExactSolve ==
  ASSUME CalibInv, struck # {}, DOMAIN samples = struck, Solve
  PROVE  /\ ~fit'.suspect
         /\ \A p \in struck : Convert(samples[p], offset', flip') = leader.targets[p]
         /\ (\E p, q \in struck : leader.targets[p] # leader.targets[q])
            => offset' = leader.offset /\ flip' = (leader.sign = -1)
<1> DEFINE s == leader.sign
           o == leader.offset
           T == leader.targets
<1>1. s \in Signs /\ o \in Quarters /\ T \in Columns /\ struck \subseteq Poses
  BY DEF CalibInv, Joints
<1>2. \A p \in struck : T[p] \in -1 .. 1 /\ samples[p] = Wrap(s * T[p] - o)
  BY <1>1, TargetFacts DEF CalibInv, Reads
<1>3. /\ flip' = (BestSign = -1) /\ offset' \in Means(Estimates(BestSign))
      /\ fit'.suspect = Flagged(Estimates(BestSign))
      /\ Cardinality(struck) >= 2
  BY DEF Solve
<1>4. Spread(Estimates(s)) = 0 /\ Means(Estimates(s)) = {o} /\ ~Flagged(Estimates(s))
  <2> DEFINE est == Estimates(s)
  <2>1. DOMAIN est # {} /\ \A p \in DOMAIN est : est[p] = o
    BY ExactEstimates
  <2> HIDE DEF est
  <2>2. Spread(est) = 0 /\ Means(est) = {o} /\ ~Flagged(est)
    BY <2>1, SpreadOfAgreeing
  <2> QED
    BY <2>2 DEF est
<1>5. \A p \in struck : Convert(samples[p], o, s = -1) = T[p]
  <2>1. \A p \in struck : Convert(samples[p], o, s = -1) = Wrap(s * (samples[p] + o))
    BY <1>1 DEF Convert, Signs
  <2> QED
    BY <1>1, <1>2, <2>1, ReadsBack
<1>6. BestSign = s => offset' = o /\ flip' = (s = -1) /\ ~fit'.suspect
  BY <1>3, <1>4
<1>7. BestSign \in {s, -s}
  BY <1>1, <1>4 DEF BestSign, Signs
<1>8. CASE \E p, q \in struck : T[p] # T[q]
  <2>1. PICK p \in struck, q \in struck : T[p] = 0 /\ T[q] # 0
    BY <1>1, <1>8, TargetFacts
  <2>2. Range(Estimates(-s)) = {o, Wrap(o + 2)}
    BY <2>1, ExactEstimates DEF Range
  <2>3. Spread(Estimates(-s)) \in {8100, 10800}
    BY <1>1, <1>3, <2>2, ExactEstimates, SpreadOfOpposite
  <2>4. BestSign = s
    BY <1>1, <1>4, <2>3 DEF BestSign, Signs
  <2> QED
    BY <1>5, <1>6, <2>4
<1>9. CASE \A p, q \in struck : T[p] = T[q]
  <2>1. PICK p \in struck : TRUE
    OBVIOUS
  <2> DEFINE w == IF T[p] = 0 THEN o ELSE Wrap(o + 2)
         est == Estimates(-s)
  <2>2. DOMAIN est # {} /\ \A r \in DOMAIN est : est[r] = w
    BY <1>9, ExactEstimates
  <2>3. Means(est) = {w} /\ ~Flagged(est)
    <3> HIDE DEF est, w
    <3> QED
      BY <2>2, SpreadOfAgreeing
  <2>4. CASE BestSign = -s
    <3>1. offset' = w /\ ~fit'.suspect /\ flip' = (-s = -1)
      BY <1>3, <2>3, <2>4
    <3>2. \A r \in struck : Convert(samples[r], offset', flip') = Wrap((-s) * (samples[r] + w))
      <4>1. CASE s = 1
        <5>1. flip' <=> -1 = -1
          BY <3>1, <4>1, Zenon
        <5> QED
          BY <3>1, <4>1, <5>1 DEF Convert
      <4>2. CASE s = -1
        <5>1. -s = 1 /\ 1 # -1
          <6>1. \A x \in Int : x + 1 = 0 => -x = 1
            OBVIOUS
          <6>2. s \in Int /\ s + 1 = 0
            BY <4>2
          <6> QED
            BY <6>1, <6>2
        <5>2. ~flip'
          BY <3>1, <5>1, Zenon
        <5> QED
          BY <3>1, <5>1, <5>2 DEF Convert
      <4> QED
        BY <1>1, <4>1, <4>2 DEF Signs
    <3>3. \A r \in struck : T[r] = T[p]
      BY <1>9
    <3> QED
      BY <1>1, <1>2, <1>9, <3>1, <3>2, <3>3, OtherReadsBack, SMTT(30)
  <2> QED
    BY <1>5, <1>6, <1>7, <1>9, <2>4
<1> QED
  BY <1>8, <1>9

\* From poses held exactly the solver finds the leader's convention, whatever the
\* leader's sign, offset and targets and whatever the file said; and a saved entry
\* whose convention is the leader's has the model's home, in whatever order the pane's
\* controls are used.
THEOREM CalibrationTheorem == CalibSpec => CalibrationIsExact
<1>1. CalibInv /\ [CalibNext]_calibVars =>
        [struck # {} /\ DOMAIN samples = struck /\ Solve =>
            /\ ~fit'.suspect
            /\ \A p \in struck : Convert(samples[p], offset', flip') = leader.targets[p]
            /\ (\E p, q \in struck : leader.targets[p] # leader.targets[q])
               => offset' = leader.offset /\ flip' = (leader.sign = -1)]_calibVars
  BY ExactSolve
<1>2. CalibInv /\ [CalibNext]_calibVars =>
        [Replace /\ file'.offset = leader.offset /\ file'.flip = (leader.sign = -1)
            => file'.home = leader.home]_calibVars
  BY DEF Replace, CalibInv
<1> QED
  BY <1>1, <1>2, CalibInitInv, CalibStep, PTL
     DEF CalibSpec, CalibrationIsExact, ExactPosesSolve, SavedHomeIsConsistent

=============================================================================
