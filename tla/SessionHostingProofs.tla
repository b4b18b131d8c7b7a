------------------------ MODULE SessionHostingProofs ------------------------
(***************************************************************************)
(* Proofs about SessionHosting, for any number of daemons, rigs and early  *)
(* deaths.                                                                 *)
(***************************************************************************)
EXTENDS SessionHosting, TLAPS

\* The manager holds a process only while it has not given up.
CountInv == (early = MaxEarly => gaveUp) /\ (proc # 0 => ~gaveUp)

\* Past the check in main.
Past == {"sweep", "spawn", "up", "serve", "down"}

\* While no two boots overlap, one daemon at most is past the check in main, and
\* the state file names it from its first write to the end of its teardown.
OwnerInv ==
  overlap \/
    /\ \A p, q \in Pids : daemon[p] \in Booting /\ daemon[q] \in Booting => p = q
    /\ \A p, q \in Pids : daemon[p] \in Past /\ daemon[q] \in Past => p = q
    /\ \A p \in Pids : daemon[p] \in {"serve", "down"} => file.pid = p

IInv == TypeOK /\ CountInv /\ OwnerInv /\ BootReclaims

\* No daemon has been started yet.
LEMMA InvInit == Init => IInv
<1> SUFFICES ASSUME Init PROVE IInv
  OBVIOUS
<1>1. FlagsOK /\ GaveUpOK /\ ~gaveUp
  BY Zenon DEF Init, FlagsOK, GaveUpOK
<1>2. ShapeOK
  <2>1. closing \in {NoClosing} /\ file \in {NoFile}
    BY DEF Init
  <2> QED
    BY <2>1, HostingAssumption DEF Init, ShapeOK, Pids
<1>3. CountInv
  BY <1>1, HostingAssumption DEF Init, CountInv
<1>4. OwnerInv /\ BootReclaims
  BY DEF Init, OwnerInv, BootReclaims, Booting, Past
<1> QED
  BY <1>1, <1>2, <1>3, <1>4 DEF IInv, TypeOK

\* A new daemon takes the next pid.
LEMMA NewDaemonType ==
  ASSUME ShapeOK, NewDaemon
  PROVE  /\ last' = last + 1 /\ last' \in 1 .. MaxPid /\ 0 .. last \subseteq 0 .. last'
         /\ daemon' \in [Pids -> {"new", "boot", "sweep", "spawn", "up", "serve", "down", "dead"}]
         /\ \A p \in Pids : daemon'[p] = "new" <=> p > last'
BY HostingAssumption DEF ShapeOK, NewDaemon, Pids

\* _spawn_locked and _shutdown_locked.
LEMMA StartType ==
  ASSUME ShapeOK, NEW r \in Rigs \cup {NoRig}, Start(r)
  PROVE  /\ proc' \in 0 .. last' /\ last' \in 0 .. MaxPid /\ hosted' \subseteq 1 .. last'
         /\ target' \in Rigs \cup {NoRig}
         /\ daemon' \in [Pids -> {"new", "boot", "sweep", "spawn", "up", "serve", "down", "dead"}]
         /\ \A p \in Pids : daemon'[p] = "new" <=> p > last'
<1>1. NewDaemon /\ proc' = last + 1 /\ target' = r /\ hosted' = hosted \cup {last + 1}
  BY DEF Start
<1>2. last \in Nat /\ hosted \subseteq 1 .. last
  BY HostingAssumption DEF ShapeOK
<1> QED
  BY <1>1, <1>2, NewDaemonType

LEMMA ShutdownType ==
  ASSUME ShapeOK, proc # 0, NEW r \in Rigs \cup {NoRig}, BeginShutdown(r)
  PROVE  /\ closing' \in [pid : Pids, stage : {"wait", "term"}, next : Rigs \cup {NoRig}]
         /\ stop' \in [Pids -> BOOLEAN] /\ proc' = 0 /\ proc \in Pids
<1>1. proc \in Pids
  BY HostingAssumption DEF ShapeOK, Pids
<1> QED
  BY <1>1 DEF ShapeOK, BeginShutdown

\* Every step keeps the flags Boolean.
LEMMA FlagsStep == FlagsOK /\ [Next]_vars => FlagsOK'
<1> SUFFICES ASSUME FlagsOK, [Next]_vars PROVE FlagsOK'
  OBVIOUS
<1> USE DEF FlagsOK, manager, nodes, NewDaemon
<1>1. ASSUME NEW r \in Rigs, Restart(r) PROVE FlagsOK'
  BY <1>1, Zenon DEF Restart, Idle, BeginShutdown, NoClosing
<1>2. ASSUME NEW r \in Rigs, Revive(r) PROVE FlagsOK'
  BY <1>2, Zenon DEF Revive, Idle, Start, Rearm, Harvest
<1>3. CASE Reset
  BY <1>3, Zenon DEF Reset, Idle, BeginShutdown, Rearm
<1>4. CASE ShutdownDone
  BY <1>4, Zenon DEF ShutdownDone, Start, Rearm
<1>5. CASE ShutdownTerm
  BY <1>5, Zenon DEF ShutdownTerm, Alive
<1>6. CASE ShutdownKill
  BY <1>6, Zenon DEF ShutdownKill, Alive
<1>7. CASE DashExit
  BY <1>7, Zenon DEF DashExit, Idle, BeginShutdown
<1>8. CASE DashKilled
  BY <1>8, Zenon DEF DashKilled, Eof
<1>9. CASE ConsoleStart
  BY <1>9, Zenon DEF ConsoleStart
<1>10. ASSUME NEW p \in Pids, BootCheck(p) PROVE FlagsOK'
  BY <1>10, Zenon DEF BootCheck, At
<1>11. ASSUME NEW p \in Pids, BootSweep(p) PROVE FlagsOK'
  BY <1>11, Zenon DEF BootSweep, At, OrphanSweep
<1>12. ASSUME NEW p \in Pids, StartHardware(p) PROVE FlagsOK'
  BY <1>12, Zenon DEF StartHardware, At
<1>13. ASSUME NEW p \in Pids, FirstWrite(p) PROVE FlagsOK'
  BY <1>13, Zenon DEF FirstWrite, At
<1>14. ASSUME NEW p \in Pids, BeginTeardown(p) PROVE FlagsOK'
  BY <1>14, Zenon DEF BeginTeardown, At
<1>15. ASSUME NEW p \in Pids, EndTeardown(p) PROVE FlagsOK'
  BY <1>15, Zenon DEF EndTeardown, At
<1>16. ASSUME NEW p \in Pids, Tick(p) PROVE FlagsOK'
  BY <1>16, Zenon DEF Tick
<1>17. ASSUME NEW p \in Pids, Stall(p) PROVE FlagsOK'
  BY <1>17, Zenon DEF Stall
<1>18. ASSUME NEW p \in Pids, PeriodicSweep(p) PROVE FlagsOK'
  BY <1>18, Zenon DEF PeriodicSweep, OrphanSweep
<1>19. ASSUME NEW p \in Pids, SaveDone(p) PROVE FlagsOK'
  BY <1>19, Zenon DEF SaveDone
<1>20. ASSUME NEW p \in Pids, Die(p) PROVE FlagsOK'
  BY <1>20, Zenon DEF Die, Alive
<1>21. CASE UNCHANGED vars
  BY <1>21, Zenon DEF vars
<1> QED
  BY <1>1, <1>2, <1>3, <1>4, <1>5, <1>6, <1>7, <1>8, <1>9, <1>10, <1>11, <1>12, <1>13, <1>14,
     <1>15, <1>16, <1>17, <1>18, <1>19, <1>20, <1>21
    , Zenon DEF Next, Daemon, Boot, Down

\* Every step keeps the shapes.
LEMMA ShapeStep == ShapeOK /\ CountInv /\ FlagsOK /\ [Next]_vars => ShapeOK'
<1> SUFFICES ASSUME ShapeOK, CountInv, FlagsOK, [Next]_vars PROVE ShapeOK'
  OBVIOUS
<1>1. ASSUME NEW r \in Rigs, Restart(r) PROVE ShapeOK'
  <2>1. proc # 0 /\ BeginShutdown(r) /\ r \in Rigs \cup {NoRig}
    BY <1>1 DEF Restart
  <2>2. UNCHANGED <<dash, target, early, gaveUp, last, hosted, daemon, kids, cons, segs, file, overlap>>
    BY <1>1 DEF Restart, nodes
  <2> QED
    BY <2>1, <2>2, ShutdownType, HostingAssumption DEF ShapeOK
<1>2. ASSUME NEW r \in Rigs, Revive(r) PROVE ShapeOK'
  <2>1. UNCHANGED <<dash, closing, stop, kids, cons, segs, file>>
    BY <1>2 DEF Revive, nodes
  <2>2. /\ proc' \in 0 .. last' /\ last' \in 0 .. MaxPid /\ hosted' \subseteq 1 .. last'
        /\ target' \in Rigs \cup {NoRig}
        /\ daemon' \in [Pids -> {"new", "boot", "sweep", "spawn", "up", "serve", "down", "dead"}]
        /\ \A p \in Pids : daemon'[p] = "new" <=> p > last'
    <3>1. CASE Start(r)
      <4>1. r \in Rigs \cup {NoRig}
        OBVIOUS
      <4> QED
        BY <3>1, <4>1, StartType
    <3>2. CASE proc' = 0 /\ UNCHANGED <<target, last, hosted, daemon, overlap>>
      BY <3>2, HostingAssumption DEF ShapeOK
    <3> QED
      BY <1>2, <3>1, <3>2 DEF Revive
  <2>3. early' \in 0 .. MaxEarly
    <3>1. CASE Rearm \/ UNCHANGED <<early, gaveUp>>
      BY <3>1, HostingAssumption DEF Rearm, ShapeOK
    <3>2. ASSUME NEW soon \in BOOLEAN, Harvest(soon), proc # 0 PROVE <2>3!:
      <4>1. early \in Nat /\ MaxEarly \in Nat \ {0} /\ early < MaxEarly
        BY <3>2, HostingAssumption DEF ShapeOK, CountInv
      <4> QED
        BY <3>2, <4>1 DEF Harvest
    <3> QED
      BY <1>2, <3>1, <3>2 DEF Revive
  <2> QED
    BY <2>1, <2>2, <2>3 DEF ShapeOK
<1>3. CASE Reset
  <2>1. proc # 0 /\ BeginShutdown(NoRig) /\ NoRig \in Rigs \cup {NoRig} /\ Rearm
    BY <1>3 DEF Reset
  <2>2. UNCHANGED <<dash, target, last, hosted, daemon, kids, cons, segs, file, overlap>>
    BY <1>3 DEF Reset, nodes
  <2> QED
    BY <2>1, <2>2, ShutdownType, HostingAssumption DEF ShapeOK, Rearm
<1>4. CASE ShutdownDone
  <2>1. closing' = NoClosing /\ UNCHANGED <<dash, stop, kids, cons, segs, file>>
    BY <1>4 DEF ShutdownDone, nodes
  <2>2. CASE Start(closing.next) /\ Rearm /\ closing # NoClosing
    <3>1. closing.next \in Rigs \cup {NoRig}
      BY <2>2 DEF ShapeOK
    <3> QED
      BY <2>1, <2>2, <3>1, StartType, HostingAssumption DEF ShapeOK, Rearm
  <2>3. CASE UNCHANGED <<proc, target, last, hosted, daemon, overlap, early, gaveUp>>
    BY <2>1, <2>3 DEF ShapeOK
  <2> QED
    BY <1>4, <2>2, <2>3 DEF ShutdownDone
<1>5. CASE ShutdownTerm
  BY <1>5 DEF ShutdownTerm, ShapeOK, Pids, nodes, Alive
<1>6. CASE ShutdownKill
  BY <1>6 DEF ShutdownKill, ShapeOK, Pids, manager, nodes, Alive
<1>7. CASE DashExit
  <2>1. /\ dash' = FALSE
        /\ UNCHANGED <<target, early, gaveUp, last, hosted, daemon, kids, cons, segs, file, overlap>>
    BY <1>7 DEF DashExit, nodes
  <2>2. CASE proc # 0 /\ BeginShutdown(NoRig)
    <3>1. NoRig \in Rigs \cup {NoRig}
      OBVIOUS
    <3> QED
      BY <2>1, <2>2, <3>1, ShutdownType, HostingAssumption DEF ShapeOK
  <2>3. CASE UNCHANGED <<closing, stop, proc>>
    BY <2>1, <2>3 DEF ShapeOK
  <2> QED
    BY <1>7, <2>2, <2>3 DEF DashExit
<1>8. CASE DashKilled
  <2>1. stop' \in [Pids -> BOOLEAN]
    BY <1>8, Zenon DEF DashKilled, Eof
  <2> QED
    BY <1>8, <2>1, HostingAssumption DEF DashKilled, nodes, ShapeOK
<1>9. CASE ConsoleStart
  <2>1. NewDaemon /\ UNCHANGED <<dash, proc, target, early, gaveUp, closing, hosted, stop, kids, cons, segs, file>>
    BY <1>9 DEF ConsoleStart, manager, nodes
  <2>2. last \in Nat /\ hosted \subseteq 1 .. last /\ proc \in 0 .. last
    BY HostingAssumption DEF ShapeOK
  <2> QED
    BY <2>1, <2>2, NewDaemonType DEF ShapeOK
<1>10. ASSUME NEW p \in Pids, BootCheck(p) PROVE ShapeOK'
  BY <1>10 DEF BootCheck, ShapeOK, Pids, At, manager, nodes
<1>11. ASSUME NEW p \in Pids, BootSweep(p) PROVE ShapeOK'
  BY <1>11 DEF BootSweep, ShapeOK, Pids, At, OrphanSweep, manager
<1>12. ASSUME NEW p \in Pids, StartHardware(p) PROVE ShapeOK'
  BY <1>12 DEF StartHardware, ShapeOK, Pids, At, manager
<1>13. ASSUME NEW p \in Pids, FirstWrite(p) PROVE ShapeOK'
  BY <1>13 DEF FirstWrite, ShapeOK, Pids, At, manager, nodes
<1>14. ASSUME NEW p \in Pids, BeginTeardown(p) PROVE ShapeOK'
  BY <1>14 DEF BeginTeardown, ShapeOK, Pids, At, manager
<1>15. ASSUME NEW p \in Pids, EndTeardown(p) PROVE ShapeOK'
  BY <1>15 DEF EndTeardown, ShapeOK, Pids, At, manager
<1>16. ASSUME NEW p \in Pids, Tick(p) PROVE ShapeOK'
  BY <1>16 DEF Tick, ShapeOK, Pids, manager
<1>17. ASSUME NEW p \in Pids, Stall(p) PROVE ShapeOK'
  <2>1. file' \in [pid : Pids, run : BOOLEAN, fresh : BOOLEAN]
    <3>1. file \in [pid : Pids, run : BOOLEAN, fresh : BOOLEAN]
      BY <1>17 DEF Stall, ShapeOK, NoFile, Pids
    <3> QED
      BY <1>17, <3>1 DEF Stall
  <2> QED
    BY <1>17, <2>1 DEF Stall, ShapeOK, manager, nodes
<1>18. ASSUME NEW p \in Pids, PeriodicSweep(p) PROVE ShapeOK'
  BY <1>18 DEF PeriodicSweep, ShapeOK, Pids, OrphanSweep, manager
<1>19. ASSUME NEW p \in Pids, SaveDone(p) PROVE ShapeOK'
  BY <1>19 DEF SaveDone, ShapeOK, Pids, manager
<1>20. ASSUME NEW p \in Pids, Die(p) PROVE ShapeOK'
  BY <1>20 DEF Die, ShapeOK, Pids, Alive, manager, nodes
<1>21. CASE UNCHANGED vars
  BY <1>21 DEF vars, ShapeOK, Pids, manager, nodes
<1> QED
  BY <1>1, <1>2, <1>3, <1>4, <1>5, <1>6, <1>7, <1>8, <1>9, <1>10, <1>11, <1>12, <1>13, <1>14,
     <1>15, <1>16, <1>17, <1>18, <1>19, <1>20, <1>21
     DEF Next, Daemon, Boot, Down

\* An early death is counted when the manager harvests it, and it gives up at
\* MaxEarly of them, holding no process then.
LEMMA CountStep == ShapeOK /\ GaveUpOK /\ CountInv /\ [Next]_vars => GaveUpOK' /\ CountInv'
<1> SUFFICES ASSUME ShapeOK, GaveUpOK, CountInv, [Next]_vars PROVE GaveUpOK' /\ CountInv'
  OBVIOUS
<1>1. early \in 0 .. MaxEarly /\ MaxEarly \in Nat \ {0}
  BY HostingAssumption DEF ShapeOK
<1>2. CASE UNCHANGED <<early, gaveUp>> /\ proc' \in {proc, 0}
  BY <1>2, Zenon DEF GaveUpOK, CountInv
<1>3. CASE Rearm
  <2>1. ~gaveUp' /\ early' = 0
    BY <1>3, Zenon DEF Rearm
  <2> QED
    BY <1>1, <2>1 DEF GaveUpOK, CountInv
<1>4. ASSUME NEW soon \in BOOLEAN, Harvest(soon), proc # 0, proc' = 0 \/ ~gaveUp'
      PROVE  GaveUpOK' /\ CountInv'
  <2>1. early < MaxEarly /\ ~gaveUp
    BY <1>1, <1>4 DEF CountInv
  <2>2. gaveUp' <=> early' >= MaxEarly
    BY <1>4, <2>1, Zenon DEF Harvest
  <2>3. early' \in 1 .. MaxEarly
    BY <1>1, <1>4, <2>1 DEF Harvest
  <2>4. gaveUp' <=> early' = MaxEarly
    BY <1>1, <2>2, <2>3
  <2> QED
    BY <1>4, <2>4, Zenon DEF GaveUpOK, CountInv
<1>5. ASSUME NEW r \in Rigs, Revive(r) PROVE GaveUpOK' /\ CountInv'
  <2>1. CASE Rearm
    BY <1>3, <2>1
  <2>2. CASE proc # 0 /\ \E soon \in BOOLEAN : Harvest(soon) /\ (proc' = 0 \/ ~gaveUp')
    BY <1>4, <2>2
  <2>3. CASE proc = 0 /\ UNCHANGED <<early, gaveUp>> /\ (proc' = 0 \/ ~gaveUp')
    BY <2>3, Zenon DEF GaveUpOK, CountInv
  <2> QED
    BY <1>5, <2>1, <2>2, <2>3 DEF Revive
<1>6. CASE Reset \/ ShutdownDone
  BY <1>2, <1>3, <1>6 DEF Reset, ShutdownDone
<1>7. CASE UNCHANGED manager
  BY <1>2, <1>7 DEF manager
<1>8. ASSUME NEW r \in Rigs, Restart(r) PROVE GaveUpOK' /\ CountInv'
  BY <1>2, <1>8 DEF Restart, BeginShutdown
<1>9. CASE ShutdownTerm \/ DashExit \/ DashKilled
  BY <1>2, <1>9 DEF ShutdownTerm, DashExit, DashKilled, BeginShutdown
<1>10. CASE ShutdownKill \/ ConsoleStart \/ \E p \in Pids : Daemon(p) \/ SaveDone(p) \/ Die(p)
  BY <1>7, <1>10 DEF ShutdownKill, ConsoleStart, Daemon, Boot, Down, BootCheck, BootSweep,
     StartHardware, FirstWrite, BeginTeardown, EndTeardown, Tick, Stall, PeriodicSweep, SaveDone,
     Die
<1>11. CASE UNCHANGED vars
  BY <1>7, <1>11 DEF vars
<1> QED
  BY <1>5, <1>6, <1>8, <1>9, <1>10, <1>11 DEF Next

\* What a daemon's boot leaves to the others: they keep their place, their nodes
\* and the file, so ownership is only a question of where daemons stand.
Owners == OwnerInv /\ BootReclaims

\* A start raises overlap if another daemon is booting; the new one is only
\* booting itself.
LEMMA NewDaemonOwners ==
  ASSUME FlagsOK, ShapeOK, Owners, NewDaemon, UNCHANGED <<nodes, file>>
  PROVE  Owners'
<1>1. CASE overlap \/ \E p \in Pids : daemon[p] \in Booting
  <2>1. overlap'
    BY <1>1, Zenon DEF NewDaemon
  <2> QED
    BY <2>1, Zenon DEF Owners, OwnerInv, BootReclaims
<1>2. CASE ~overlap /\ \A p \in Pids : daemon[p] \notin Booting
  <2>1. /\ daemon' = [daemon EXCEPT ![last + 1] = "boot"] /\ last + 1 \in Pids
        /\ daemon \in [Pids -> {"new", "boot", "sweep", "spawn", "up", "serve", "down", "dead"}]
        /\ daemon[last + 1] = "new"
    BY HostingAssumption DEF NewDaemon, ShapeOK, Pids
  <2> QED
    BY <1>2, <2>1 DEF Owners, OwnerInv, BootReclaims, Booting, Past, nodes
<1> QED
  BY <1>1, <1>2, Zenon

\* A daemon that ends, or a step that leaves every daemon in its place.
LEMMA EndOwners ==
  ASSUME ShapeOK, Owners, UNCHANGED <<nodes, file, overlap>>,
         \/ UNCHANGED daemon
         \/ \E p \in Pids : daemon' = [daemon EXCEPT ![p] = "dead"]
  PROVE  Owners'
BY DEF ShapeOK, Owners, OwnerInv, BootReclaims, Booting, Past, nodes

\* Where daemons stand while no two boots overlap.
LEMMA OwnersStep == FlagsOK /\ ShapeOK /\ Owners /\ [Next]_vars => Owners'
<1> SUFFICES ASSUME FlagsOK, ShapeOK, Owners, [Next]_vars PROVE Owners'
  OBVIOUS
<1> DEFINE Daemons == [Pids -> {"new", "boot", "sweep", "spawn", "up", "serve", "down", "dead"}]
<1>0. daemon \in Daemons
  BY DEF ShapeOK
<1>1. ASSUME NEW r \in Rigs, Restart(r) \/ Revive(r) PROVE Owners'
  BY <1>1, NewDaemonOwners, EndOwners DEF Restart, Revive, Start
<1>2. CASE Reset \/ ShutdownDone \/ DashExit \/ DashKilled \/ ConsoleStart
  BY <1>2, NewDaemonOwners, EndOwners DEF Reset, ShutdownDone, DashExit, DashKilled, ConsoleStart,
     Start
<1>3. CASE ShutdownTerm \/ ShutdownKill
  <2>1. closing # NoClosing /\ UNCHANGED <<nodes, file, overlap>>
    BY <1>3 DEF ShutdownTerm, ShutdownKill
  <2>2. closing.pid \in Pids
    BY <2>1 DEF ShapeOK
  <2>3. daemon' \in {daemon, [daemon EXCEPT ![closing.pid] = "dead"]}
    BY <1>0, <1>3, <2>2 DEF ShutdownTerm, ShutdownKill
  <2> QED
    BY <2>1, <2>2, <2>3, EndOwners
<1>4. ASSUME NEW p \in Pids, BootCheck(p) PROVE Owners'
  <2>1. CASE At(p, "boot", "dead")
    BY <1>4, <2>1, EndOwners DEF BootCheck, At
  <2>2. CASE At(p, "boot", "sweep") /\ ~(file # NoFile /\ Alive(file.pid))
    <3>1. ASSUME ~overlap, NEW q \in Pids, daemon[q] \in {"serve", "down"} PROVE FALSE
      <4>1. file.pid = q
        BY <3>1 DEF Owners, OwnerInv
      <4>2. file # NoFile /\ Alive(file.pid)
        BY <3>1, <4>1 DEF NoFile, Pids, Alive
      <4> QED
        BY <2>2, <4>2
    <3> QED
      BY <1>0, <1>4, <2>2, <3>1
         DEF BootCheck, At, Owners, OwnerInv, BootReclaims, Booting, Past, nodes
  <2> QED
    BY <1>4, <2>1, <2>2 DEF BootCheck
<1>5. ASSUME NEW p \in Pids, BootSweep(p) PROVE Owners'
  <2>1. /\ daemon[p] = "sweep" /\ daemon' = [daemon EXCEPT ![p] = "spawn"]
        /\ OrphanSweep /\ UNCHANGED <<file, overlap>>
    BY <1>5 DEF BootSweep, At
  <2>2. ~overlap => \A x \in Pids \ {p} : ~Alive(x)
    BY <1>0, <2>1 DEF Owners, OwnerInv, Booting, Past, Alive
  <2>3. OwnerInv'
    BY <1>0, <2>1 DEF Owners, OwnerInv, Booting, Past
  <2>4. BootReclaims'
    <3>1. \A x \in Pids : ~Alive(x) => ~kids'[x] /\ cons'[x] = "none" /\ ~segs'[x]
      BY <2>1, Zenon DEF OrphanSweep
    <3>2. overlap \/ \A q \in Pids : daemon'[q] \in {"spawn", "up", "serve", "down"} => q = p
      BY <1>0, <2>1, <2>3 DEF OwnerInv, Past
    <3> QED
      BY <2>1, <2>2, <3>1, <3>2 DEF BootReclaims, Pids
  <2> QED
    BY <2>3, <2>4 DEF Owners
<1>6. ASSUME NEW p \in Pids, StartHardware(p) PROVE Owners'
  <2>1. /\ daemon[p] = "spawn" /\ daemon' = [daemon EXCEPT ![p] = "up"]
        /\ kids' = [kids EXCEPT ![p] = TRUE] /\ segs' = [segs EXCEPT ![p] = TRUE]
        /\ UNCHANGED <<cons, file, overlap>>
    BY <1>6 DEF StartHardware, At
  <2>2. OwnerInv'
    BY <1>0, <2>1 DEF Owners, OwnerInv, Booting, Past
  <2>3. BootReclaims'
    BY <1>0, <2>1 DEF Owners, OwnerInv, BootReclaims, Past, ShapeOK, Pids
  <2> QED
    BY <2>2, <2>3 DEF Owners
<1>7. ASSUME NEW p \in Pids, FirstWrite(p) PROVE Owners'
  BY <1>0, <1>7 DEF FirstWrite, At, Owners, OwnerInv, BootReclaims, Booting, Past, nodes
<1>8. ASSUME NEW p \in Pids, BeginTeardown(p) PROVE Owners'
  <2>1. /\ daemon[p] = "serve" /\ daemon' = [daemon EXCEPT ![p] = "down"]
        /\ \A x \in Pids \ {p} : cons'[x] = cons[x]
        /\ UNCHANGED <<kids, segs, file, overlap>>
    BY <1>8 DEF BeginTeardown, At, ShapeOK
  <2> QED
    BY <1>0, <2>1 DEF Owners, OwnerInv, BootReclaims, Booting, Past, Pids
<1>9. ASSUME NEW p \in Pids, EndTeardown(p) PROVE Owners'
  <2>1. /\ daemon[p] = "down" /\ daemon' = [daemon EXCEPT ![p] = "dead"]
        /\ kids' = [kids EXCEPT ![p] = FALSE] /\ segs' = [segs EXCEPT ![p] = FALSE]
        /\ UNCHANGED <<cons, overlap>>
    BY <1>9 DEF EndTeardown, At
  <2>2. OwnerInv'
    BY <1>0, <2>1 DEF Owners, OwnerInv, Booting, Past
  <2>3. BootReclaims'
    BY <1>0, <2>1 DEF Owners, OwnerInv, BootReclaims, Past, ShapeOK, Pids
  <2> QED
    BY <2>2, <2>3 DEF Owners
<1>10. ASSUME NEW p \in Pids, Tick(p) PROVE Owners'
  <2>1. /\ daemon[p] = "serve" /\ file'.pid = p
        /\ \A x \in Pids \ {p} : cons'[x] = cons[x]
        /\ UNCHANGED <<daemon, kids, segs, overlap>>
    BY <1>10 DEF Tick, ShapeOK
  <2> QED
    BY <1>0, <2>1 DEF Owners, OwnerInv, BootReclaims, Booting, Past, Pids
<1>11. ASSUME NEW p \in Pids, Stall(p) PROVE Owners'
  <2>1. file'.pid = file.pid
    BY <1>11 DEF Stall, ShapeOK, NoFile
  <2> QED
    BY <1>11, <2>1 DEF Stall, Owners, OwnerInv, BootReclaims, nodes
<1>12. ASSUME NEW p \in Pids, PeriodicSweep(p) PROVE Owners'
  BY <1>12 DEF PeriodicSweep, OrphanSweep, Owners, OwnerInv, BootReclaims, Pids
<1>13. ASSUME NEW p \in Pids, SaveDone(p) PROVE Owners'
  BY <1>13 DEF SaveDone, Owners, OwnerInv, BootReclaims, ShapeOK
<1>14. ASSUME NEW p \in Pids, Die(p) PROVE Owners'
  BY <1>14, EndOwners DEF Die
<1>15. CASE UNCHANGED vars
  BY <1>15, EndOwners DEF vars
<1> QED
  BY <1>1, <1>2, <1>3, <1>4, <1>5, <1>6, <1>7, <1>8, <1>9, <1>10, <1>11, <1>12, <1>13, <1>14,
     <1>15 DEF Next, Daemon, Boot, Down

----------------------------------------------------------------------------

\* The bookkeeping of daemons, inductively.
THEOREM Inductive == Spec => []IInv
<1>1. IInv /\ [Next]_vars => IInv'
  BY FlagsStep, ShapeStep, CountStep, OwnersStep DEF IInv, TypeOK, Owners
<1> QED
  BY <1>1, InvInit, PTL DEF Spec

\* Over any number of restarts, crashes and daemons started from a shell, as long
\* as no daemon is started while another one boots: a daemon past its boot sweep
\* finds nothing left of an earlier one, and the state file of a serving daemon is
\* its own (the check in main, the orphan sweep, StateFile).
THEOREM OwnershipTheorem == Spec => []OwnershipIsClear
<1>1. IInv => OwnershipIsClear
  BY DEF IInv, OwnershipIsClear, OwnerInv, FileNamesServer
<1> QED
  BY <1>1, Inductive, PTL

=============================================================================
