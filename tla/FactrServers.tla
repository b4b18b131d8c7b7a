---------------------------- MODULE FactrServers ----------------------------
(***************************************************************************)
(* The FACTR server processes under the session daemon: one torque-on      *)
(* teleop per leader arm and the API relay (interfaces/factr/launch.py),   *)
(* the daemon's commands on them (session.py), and what is left of them    *)
(* when the daemon dies and the next one sweeps (orphans.py).              *)
(*                                                                         *)
(* A handler of the daemon is one step (it is single-threaded); the server *)
(* processes and the leaders' gain ramps move between any two.  Deadlines  *)
(* may pass at any tend.                                                   *)
(***************************************************************************)
EXTENDS FiniteSets

CONSTANT Leaders   \* the managed sides

\* The units are named "api" and "teleop:<side>".
ASSUME LeadersAssumption == "api" \notin Leaders

VARIABLES
  sup,         \* the supervisor's state; "gone": no daemon runs
  closing,     \* the daemon is in its teardown
  srv,         \* srv[u]: the process unit u holds: "none", "up" or "dead"
  sigs,        \* sigs[u]: the signals sent to that process
  terminated,  \* SIGTERM already sent while stopping
  left,        \* the units with a live process that no daemon holds
  raised,      \* history: launching a process raised
  swept,       \* history: the leaders whose teleop an orphan sweep terminated
  gain,        \* gain[l]: the leader's gravity compensation: "off", "ramp", "on"
  run,         \* the phase of the daemon's run, or "none"
  rstop,       \* run.stopping
  queued       \* the phase of the queued start, or "none"

procs == <<srv, sigs, left>>
past == <<raised, swept>>
session == <<run, rstop, queued>>
vars == <<sup, closing, procs, terminated, past, gain, session>>

Units == Leaders \cup {"api"}
Phases == {"collection", "eval", "skill"}

TypeOK ==
  /\ sup \in {"gone", "off", "countdown", "running", "stopping"}
  /\ closing \in BOOLEAN /\ terminated \in BOOLEAN /\ rstop \in BOOLEAN
  /\ srv \in [Units -> {"none", "up", "dead"}]
  /\ sigs \in [Units -> SUBSET {"int", "term"}]
  /\ raised \in BOOLEAN /\ left \subseteq Units /\ swept \subseteq Leaders
  /\ gain \in [Leaders -> {"off", "ramp", "on"}]
  /\ run \in Phases \cup {"none"} /\ queued \in Phases \cup {"none"}
  /\ terminated => sup = "stopping"
  /\ sup = "gone" => run = "none" /\ ~closing
  /\ closing => run = "none" /\ sup = "stopping"

Init ==
  /\ sup = "gone" /\ closing = FALSE /\ terminated = FALSE
  /\ srv = [u \in Units |-> "none"] /\ sigs = [u \in Units |-> {}]
  /\ left = {} /\ swept = {} /\ raised = FALSE
  /\ gain = [l \in Leaders |-> "off"]
  /\ run = "none" /\ rstop = FALSE /\ queued = "none"

Live == {u \in Units : srv[u] = "up"}
Serving == sup # "gone" /\ ~closing
Forget == srv' = [u \in Units |-> "none"] /\ sigs' = [u \in Units |-> {}]
NoSession == run' = "none" /\ rstop' = FALSE /\ queued' = "none"

----------------------------------------------------------------------------
(* Launching *)

\* _spawn_unit for the units U: each holds its new process, and a process it
\* held before is held by nobody.  A teleop boots with its gains at 0.
SpawnUnits(U) ==
  /\ srv' = [u \in Units |-> IF u \in U THEN "up" ELSE srv[u]]
  /\ sigs' = [u \in Units |-> IF u \in U THEN {} ELSE sigs[u]]
  /\ gain' = [l \in Leaders |-> IF l \in U THEN "off" ELSE gain[l]]

\* _free_api_ports: whatever holds the relay's ports is killed.
FreeApiPorts == left \ {"api"}

\* _spawn_all.
SpawnAll == SpawnUnits(Units) /\ left' = FreeApiPorts \cup Live

\* Mutant: the new daemon does not look for orphans.
NoSweep == UNCHANGED <<left, swept>>

\* The boot's orphan sweep: every process tagged with the dead daemon's pid is
\* sent SIGTERM, and SIGKILL after a grace.
Sweep == left' = {} /\ swept' = swept \cup (left \cap Leaders)

\* A daemon boots: it sweeps, then starts the servers; a launch that raises is
\* logged and leaves the state "off".
Boot ==
  /\ sup = "gone" /\ Sweep
  /\ \/ SpawnUnits(Units) /\ sup' = "running" /\ UNCHANGED raised
     \/ /\ sup' = "off" /\ raised' = TRUE
        /\ \E U \in SUBSET Leaders : SpawnUnits(U)
  /\ UNCHANGED <<closing, terminated, session>>

\* start_factr: refused while a run is active or queued, and unless "off".
StartFactr ==
  /\ Serving /\ run = "none" /\ queued = "none" /\ sup = "off"
  /\ sup' = "countdown"
  /\ UNCHANGED <<closing, procs, terminated, past, gain, session>>

\* tend, the countdown over.
CountdownFires ==
  /\ Serving /\ sup = "countdown" /\ sup' = "running"
  /\ SpawnAll
  /\ UNCHANGED <<closing, terminated, past, session>>

\* The same when the launch raises: the exception ends serve; the teardown stops
\* the run, takes the countdown for one that spawned nothing, and the daemon
\* exits.
CountdownRaises ==
  /\ Serving /\ sup = "countdown" /\ sup' = "gone" /\ raised' = TRUE
  /\ \E U \in SUBSET Leaders :
       /\ left' = FreeApiPorts \cup Live \cup U
       /\ gain' = [l \in Leaders |-> IF l \in U THEN "off" ELSE gain[l]]
  /\ Forget /\ NoSession
  /\ UNCHANGED <<closing, terminated, swept>>

----------------------------------------------------------------------------
(* Stopping *)

\* request_stop while running: SIGINT to every live process.
BeginStop ==
  /\ sup' = "stopping" /\ terminated' = FALSE
  /\ sigs' = [u \in Units |-> IF srv[u] = "up" THEN sigs[u] \cup {"int"} ELSE sigs[u]]

\* stop_factr: refused during a collection run.
StopFactr ==
  /\ Serving /\ run # "collection"
  /\ \/ sup = "running" /\ BeginStop /\ UNCHANGED srv
        /\ UNCHANGED left
     \/ sup = "countdown" /\ sup' = "off" /\ Forget /\ left' = left \cup Live
        /\ UNCHANGED terminated
  /\ UNCHANGED <<closing, past, gain, session>>

\* tend while stopping: everything is down.
StopDone ==
  /\ sup = "stopping" /\ Live = {}
  /\ sup' = IF closing THEN "gone" ELSE "off"
  /\ closing' = FALSE /\ terminated' = FALSE /\ Forget
  /\ UNCHANGED <<left, past, gain, session>>

\* The grace is over: SIGTERM, which kills a teleop without de-energizing it.
StopTerminate ==
  /\ sup = "stopping" /\ Live # {} /\ ~terminated
  /\ terminated' = TRUE
  /\ sigs' = [u \in Units |-> IF srv[u] = "up" THEN sigs[u] \cup {"term"} ELSE sigs[u]]
  /\ UNCHANGED <<sup, closing, srv, left, past, gain, session>>

\* Its grace is over too: SIGKILL, and the units are forgotten.
StopKill ==
  /\ sup = "stopping" /\ Live # {} /\ terminated
  /\ sup' = IF closing THEN "gone" ELSE "off"
  /\ closing' = FALSE /\ terminated' = FALSE /\ Forget
  /\ UNCHANGED <<left, past, gain, session>>

\* The daemon's teardown: the run is stopped first, then the servers; shutdown
\* keeps tending until they are down.
Teardown ==
  /\ NoSession
  /\ \/ /\ sup = "running" /\ BeginStop /\ closing' = TRUE /\ UNCHANGED <<srv, left>>
     \/ /\ sup = "stopping" /\ closing' = TRUE /\ UNCHANGED <<sup, terminated, procs>>
     \/ /\ sup \in {"off", "countdown"} /\ sup' = "gone"
        /\ left' = left \cup Live /\ Forget /\ UNCHANGED <<closing, terminated>>
  /\ UNCHANGED <<swept, gain>>

Shutdown == Serving /\ Teardown /\ UNCHANGED raised

----------------------------------------------------------------------------
(* Supervision *)

\* tend while running: a dead relay is respawned, a dead teleop only reported.
RespawnRelay ==
  /\ sup = "running" /\ srv["api"] = "dead" /\ SpawnUnits({"api"})
  /\ UNCHANGED <<sup, closing, left, terminated, past, session>>

\* The same when the launch raises.
RespawnRaises ==
  /\ sup = "running" /\ srv["api"] = "dead" /\ raised' = TRUE
  /\ Teardown

\* A process ends, by itself or by a signal.
Exit(u) ==
  /\ \/ srv[u] = "up" /\ srv' = [srv EXCEPT ![u] = "dead"]
        /\ sigs' = [sigs EXCEPT ![u] = {}] /\ UNCHANGED left
     \/ u \in left /\ left' = left \ {u} /\ UNCHANGED <<srv, sigs>>
  /\ UNCHANGED <<sup, closing, terminated, past, gain, session>>

\* The daemon is killed.
Killed ==
  /\ sup # "gone" /\ sup' = "gone" /\ closing' = FALSE /\ terminated' = FALSE
  /\ left' = left \cup Live /\ Forget /\ NoSession
  /\ UNCHANGED <<past, gain>>

----------------------------------------------------------------------------
(* Gravity compensation and runs *)

\* The leaders a POST through the relay may reach.
Reachable == IF srv["api"] = "up" \/ "api" \in left THEN Leaders ELSE {}

EnableGravComp ==
  /\ Serving
  /\ \E D \in SUBSET Reachable :
       gain' = [l \in Leaders |-> IF l \in D /\ gain[l] = "off" THEN "ramp" ELSE gain[l]]
  /\ UNCHANGED <<sup, closing, procs, terminated, past, session>>

\* Mutant: the run goes on.
NoHalt == UNCHANGED session

\* _handle_stop, if a collection run is feeding on the leaders.
HaltCollection ==
  IF run = "collection" /\ ~rstop
  THEN rstop' = TRUE /\ queued' = "none" /\ UNCHANGED run
  ELSE UNCHANGED session

\* disable_grav_comp: the leaders will sag while they keep streaming.
DisableGravComp ==
  /\ Serving
  /\ \E D \in SUBSET Reachable :
       gain' = [l \in Leaders |-> IF l \in D THEN "off" ELSE gain[l]]
  /\ HaltCollection
  /\ UNCHANGED <<sup, closing, procs, terminated, past>>

\* A leader reaches its full gain.
RampUp(l) ==
  /\ gain[l] = "ramp" /\ srv[l] = "up" /\ sigs[l] = {}
  /\ gain' = [gain EXCEPT ![l] = "on"]
  /\ UNCHANGED <<sup, closing, procs, terminated, past, session>>

\* The collection gate: every relay answers that its leader holds full gravity
\* compensation.
LeadersReady == Reachable = Leaders /\ \A l \in Leaders : gain[l] = "on"

\* A start, or a queued start that fires, passes its gates.
BeginRun(p) ==
  /\ Serving /\ run = "none" /\ (p = "collection" => LeadersReady)
  /\ run' = p /\ rstop' = FALSE /\ queued' = "none"
  /\ UNCHANGED <<sup, closing, procs, terminated, past, gain>>

\* A start that has to wait: behind a run (which is stopped) or behind the arms.
QueueStart(p) ==
  /\ Serving /\ queued' = p /\ rstop' = (rstop \/ run # "none")
  /\ UNCHANGED <<sup, closing, procs, terminated, past, gain, run>>

\* stop, or a queued start that is refused or abandoned.
StopRun ==
  /\ Serving /\ queued' = "none" /\ rstop' = (rstop \/ run # "none")
  /\ UNCHANGED <<sup, closing, procs, terminated, past, gain, run>>

\* The consumer ends and is reaped.
ReapRun ==
  /\ Serving /\ run # "none" /\ run' = "none" /\ rstop' = FALSE
  /\ UNCHANGED <<sup, closing, procs, terminated, past, gain, queued>>

----------------------------------------------------------------------------
\* Mutant: a dead relay is only reported, like a teleop.
TendNoRelay == CountdownFires \/ CountdownRaises \/ StopDone \/ StopTerminate \/ StopKill

Tend == CountdownFires \/ CountdownRaises \/ StopDone \/ StopTerminate \/ StopKill
        \/ RespawnRelay \/ RespawnRaises
Command == StartFactr \/ StopFactr \/ Shutdown \/ EnableGravComp \/ DisableGravComp
           \/ \E p \in Phases : BeginRun(p) \/ QueueStart(p)
World == Killed \/ Boot \/ StopRun \/ ReapRun
         \/ (\E u \in Units : Exit(u)) \/ \E l \in Leaders : RampUp(l)

Next == Tend \/ Command \/ World
\* The daemon tends its servers about once a second.
Spec == Init /\ [][Next]_vars /\ WF_vars(Tend)

----------------------------------------------------------------------------
(* Properties *)

\* While a collection run feeds on the leaders, every teleop still up holds its
\* arm at full gain: no command, and no relaunch, makes a leader sag under a live
\* recording (the collection gate, the halt in _handle_grav_comp, the refusals of
\* _handle_start_factr).
LeadersHoldDuringCollection ==
  run = "collection" /\ ~rstop => \A l \in Leaders : srv[l] = "up" => gain[l] = "on"

\* SIGTERM only goes to a process that was sent SIGINT before and outlived its
\* grace ("Escalation past cfg.stop_grace_s is a last resort"): nothing is
\* spawned behind the back of a stop in progress.
EscalationIsLast == \A u \in Units : "term" \in sigs[u] => "int" \in sigs[u]

\* A leader's servos are driven by one teleop at a time, and the ports held by one
\* relay, also across the death of a daemon (the boot sweep comes before
\* start_now; _spawn_unit replaces its process only after a stop), as long as no
\* launch raises.
OneProcessPerUnit == raised \/ \A u \in Units : srv[u] = "up" => u \notin left

\* The two together, over the deaths of processes and daemons.
ProcessesInOrder == TypeOK /\ EscalationIsLast /\ OneProcessPerUnit

\* A stop ends whatever the processes do (_tend_stopping, shutdown: "teardown
\* must never hang the daemon").
StopEnds == sup = "stopping" ~> sup # "stopping"

\* A dead relay comes back as long as the servers are wanted (_tend_running).
RelayComesBack ==
  (sup = "running" /\ srv["api"] = "dead") ~> (srv["api"] = "up" \/ sup # "running")

\* The supervisor's tick never leaves a stop, or a dead relay, where it found it.
ServersSettle == StopEnds /\ RelayComesBack

----------------------------------------------------------------------------
(* What the repository says and the code does not keep *)

\* "the servos' processes [are reached only] through our explicit SIGINT stop":
\* no sweep sends a teleop SIGTERM.
TeleopsStopBySigint == swept = {}

=============================================================================
