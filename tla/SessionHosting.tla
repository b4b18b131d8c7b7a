--------------------------- MODULE SessionHosting ---------------------------
(***************************************************************************)
(* Who runs the session daemon: the dashboard's SessionManager             *)
(* (dashboard/session.py), which spawns it, restarts it on a rig change    *)
(* and shuts it down; the daemon's own boot, state file and teardown       *)
(* (session.py); and the orphan sweep that reclaims what a dead daemon     *)
(* left behind (orphans.py).                                               *)
(*                                                                         *)
(* Daemons are numbered by pid in the order they start.  The manager's     *)
(* lock makes its calls atomic except for the waits of a shutdown; every   *)
(* wait may time out.                                                      *)
(***************************************************************************)
EXTENDS Integers, FiniteSets

CONSTANTS
  MaxPid,     \* bound: how many daemons are ever started
  MaxEarly,   \* _MAX_EARLY_DEATHS
  Rigs        \* the targets (rig, sim) the operator selects

ASSUME HostingAssumption == MaxPid \in Nat /\ MaxEarly \in Nat \ {0}

VARIABLES
  dash,      \* the dashboard process is alive
  proc,      \* the manager's _proc: a pid, or 0
  target,    \* the manager's (_rig, _sim)
  early,     \* _early_deaths
  gaveUp,    \* _gave_up
  closing,   \* the shutdown in progress: NoClosing or [pid, stage, next]
  last,      \* the newest pid
  hosted,    \* the daemons whose stdin is a dashboard's pipe
  daemon,    \* daemon[p]: where p is between its start and its end
  stop,      \* stop[p]: a shutdown is in p's command queue
  kids,      \* kids[p]: p's hardware nodes are alive and hold their devices
  cons,      \* cons[p]: p's consumer: "none", "live" or "saving"
  segs,      \* segs[p]: p's segments and run dir exist
  file,      \* session.json: NoFile or [pid, run, fresh]
  overlap    \* history: a daemon was started while another one was booting

manager == <<dash, proc, target, early, gaveUp, closing>>
nodes == <<kids, cons, segs>>
vars == <<manager, last, hosted, daemon, stop, nodes, file, overlap>>

Pids == 1 .. MaxPid
NoRig == "none"
NoFile == [pid |-> 0, run |-> FALSE, fresh |-> FALSE]
NoClosing == [pid |-> 0, stage |-> "none", next |-> NoRig]

Init ==
  /\ dash = TRUE /\ proc = 0 /\ target = NoRig /\ early = 0 /\ gaveUp = FALSE
  /\ closing = NoClosing /\ last = 0 /\ hosted = {}
  /\ daemon = [p \in Pids |-> "new"] /\ stop = [p \in Pids |-> FALSE]
  /\ kids = [p \in Pids |-> FALSE] /\ cons = [p \in Pids |-> "none"]
  /\ segs = [p \in Pids |-> FALSE]
  /\ file = NoFile /\ overlap = FALSE

Alive(p) == daemon[p] \notin {"new", "dead"}
Booting == {"boot", "sweep", "spawn", "up"}

FlagsOK == dash \in BOOLEAN /\ gaveUp \in BOOLEAN /\ overlap \in BOOLEAN

ShapeOK ==
  /\ proc \in 0 .. last /\ last \in 0 .. MaxPid /\ target \in Rigs \cup {NoRig}
  /\ early \in 0 .. MaxEarly /\ hosted \subseteq 1 .. last
  /\ closing \in {NoClosing} \cup [pid : Pids, stage : {"wait", "term"}, next : Rigs \cup {NoRig}]
  /\ daemon \in [Pids -> {"new", "boot", "sweep", "spawn", "up", "serve", "down", "dead"}]
  /\ stop \in [Pids -> BOOLEAN] /\ kids \in [Pids -> BOOLEAN] /\ segs \in [Pids -> BOOLEAN]
  /\ cons \in [Pids -> {"none", "live", "saving"}]
  /\ file \in {NoFile} \cup [pid : Pids, run : BOOLEAN, fresh : BOOLEAN]
  /\ \A p \in Pids : daemon[p] = "new" <=> p > last

\* _gave_up is set by the last early death it allows.
GaveUpOK == gaveUp => early = MaxEarly

TypeOK == FlagsOK /\ ShapeOK /\ GaveUpOK

----------------------------------------------------------------------------
(* The manager *)

Idle == dash /\ closing = NoClosing

\* view().run_active: only a fresh state file of the manager's own daemon counts.
RunActive == proc # 0 /\ Alive(proc) /\ file.pid = proc /\ file.fresh /\ file.run

\* A new daemon process.
NewDaemon ==
  /\ last < MaxPid /\ last' = last + 1
  /\ daemon' = [daemon EXCEPT ![last + 1] = "boot"]
  /\ overlap' = (overlap \/ \E p \in Pids : daemon[p] \in Booting)

\* _spawn_locked.
Start(r) == NewDaemon /\ proc' = last + 1 /\ target' = r /\ hosted' = hosted \cup {last + 1}

\* _rearm_locked.
Rearm == early' = 0 /\ gaveUp' = FALSE

\* _shutdown_locked up to its first wait: forget the process, ask it to stop.
BeginShutdown(r) ==
  /\ closing' = [pid |-> proc, stage |-> "wait", next |-> r]
  /\ stop' = [stop EXCEPT ![proc] = TRUE] /\ proc' = 0

\* ensure on a live daemon with another rig: refused while a run is active.
Restart(r) ==
  /\ Idle /\ proc # 0 /\ Alive(proc) /\ r # target /\ ~RunActive
  /\ BeginShutdown(r)
  /\ UNCHANGED <<dash, target, early, gaveUp, last, hosted, daemon, nodes, file, overlap>>

\* Reset services, refused while a run is active.
Reset ==
  /\ Idle /\ proc # 0 /\ Alive(proc) /\ ~RunActive
  /\ BeginShutdown(NoRig) /\ Rearm
  /\ UNCHANGED <<dash, target, last, hosted, daemon, nodes, file, overlap>>

\* _harvest_exit_locked: what counts is the time from the spawn to this call.
Harvest(soon) ==
  /\ early' = IF soon THEN early + 1 ELSE 1
  /\ gaveUp' = (gaveUp \/ early' >= MaxEarly)

\* ensure on a dead daemon: harvest it, then spawn, unless it gave up or it is
\* too soon since the last spawn.
Revive(r) ==
  /\ Idle /\ (proc # 0 => ~Alive(proc))
  /\ \/ r # target /\ Rearm /\ Start(r)
     \/ /\ r = target
        /\ IF proc # 0 THEN \E soon \in BOOLEAN : Harvest(soon) ELSE UNCHANGED <<early, gaveUp>>
        /\ \/ ~gaveUp' /\ Start(r)
           \/ proc' = 0 /\ UNCHANGED <<target, last, hosted, daemon, overlap>>
  /\ UNCHANGED <<dash, closing, stop, nodes, file>>

\* The waited-for daemon is gone: respawn if this was a restart.
ShutdownDone ==
  /\ closing # NoClosing /\ ~Alive(closing.pid) /\ closing' = NoClosing
  /\ IF closing.next # NoRig /\ last < MaxPid
     THEN Start(closing.next) /\ Rearm
     ELSE UNCHANGED <<proc, target, last, hosted, daemon, overlap, early, gaveUp>>
  /\ UNCHANGED <<dash, stop, nodes, file>>

\* It did not exit in time: SIGTERM, which ends a daemon that has not installed
\* its handlers and asks any other again ...
ShutdownTerm ==
  /\ closing # NoClosing /\ closing.stage = "wait" /\ Alive(closing.pid)
  /\ closing' = [closing EXCEPT !.stage = "term"]
  /\ daemon' = [daemon EXCEPT ![closing.pid] = IF @ \in {"boot", "sweep"} THEN "dead" ELSE @]
  /\ UNCHANGED <<dash, proc, target, early, gaveUp, last, hosted, stop, nodes, file, overlap>>

\* ... then SIGKILL: its children live on.
ShutdownKill ==
  /\ closing # NoClosing /\ closing.stage = "term" /\ Alive(closing.pid)
  /\ daemon' = [daemon EXCEPT ![closing.pid] = "dead"]
  /\ UNCHANGED <<manager, last, hosted, stop, nodes, file, overlap>>

\* The dashboard exits through atexit: shutdown with its waits.
DashExit ==
  /\ Idle /\ dash' = FALSE
  /\ IF proc # 0 /\ Alive(proc) THEN BeginShutdown(NoRig) ELSE UNCHANGED <<closing, stop, proc>>
  /\ UNCHANGED <<target, early, gaveUp, last, hosted, daemon, nodes, file, overlap>>

\* Mutant: end of file is not a command.
EofIgnored == UNCHANGED stop

\* The daemon's listener reads end of file on its stdin.
Eof == stop' = [p \in Pids |-> stop[p] \/ p \in {proc, closing.pid}]

\* The dashboard is killed.
DashKilled ==
  /\ dash /\ dash' = FALSE
  /\ Eof /\ proc' = 0 /\ closing' = NoClosing
  /\ UNCHANGED <<target, early, gaveUp, last, hosted, daemon, nodes, file, overlap>>

----------------------------------------------------------------------------
(* A daemon *)

\* Somebody starts a daemon from a shell.
ConsoleStart ==
  /\ NewDaemon
  /\ UNCHANGED <<manager, hosted, stop, nodes, file>>

At(p, from, to) == daemon[p] = from /\ daemon' = [daemon EXCEPT ![p] = to]

\* main: a live daemon already owns the runtime dir, or not.
BootCheck(p) ==
  /\ IF file # NoFile /\ Alive(file.pid) THEN At(p, "boot", "dead") ELSE At(p, "boot", "sweep")
  /\ UNCHANGED <<manager, last, hosted, stop, nodes, file, overlap>>

\* Mutant: only the processes are reclaimed.
SweepProcesses ==
  /\ kids' = [x \in Pids |-> kids[x] /\ Alive(x)]
  /\ cons' = [x \in Pids |-> IF Alive(x) THEN cons[x] ELSE "none"]
  /\ UNCHANGED segs

\* sweep: the processes tagged with a dead pid are killed, and the segments and
\* run dirs whose name embeds a dead pid are unlinked.
OrphanSweep ==
  /\ segs' = [x \in Pids |-> segs[x] /\ Alive(x)]
  /\ kids' = [x \in Pids |-> kids[x] /\ Alive(x)]
  /\ cons' = [x \in Pids |-> IF Alive(x) THEN cons[x] ELSE "none"]

BootSweep(p) ==
  /\ At(p, "sweep", "spawn") /\ OrphanSweep
  /\ UNCHANGED <<manager, last, hosted, stop, file, overlap>>

\* serve: start_hardware ...
StartHardware(p) ==
  /\ At(p, "spawn", "up")
  /\ kids' = [kids EXCEPT ![p] = TRUE] /\ segs' = [segs EXCEPT ![p] = TRUE]
  /\ UNCHANGED <<manager, last, hosted, stop, cons, file, overlap>>

\* ... and, seconds later, the first write of the state file.
FirstWrite(p) ==
  /\ At(p, "up", "serve") /\ file' = [pid |-> p, run |-> FALSE, fresh |-> TRUE]
  /\ UNCHANGED <<manager, last, hosted, stop, nodes, overlap>>

\* A tick of serve, with what the operator and the consumer do in it, ends with
\* the state file.
Tick(p) ==
  /\ daemon[p] = "serve" /\ ~stop[p]
  /\ \/ cons[p] = "none" /\ cons' = [cons EXCEPT ![p] = "live"]
     \/ cons[p] = "live" /\ cons' = [cons EXCEPT ![p] = "saving"]
     \/ cons[p] # "none" /\ cons' = [cons EXCEPT ![p] = "none"]
     \/ UNCHANGED cons
  /\ file' = [pid |-> p, run |-> cons'[p] # "none", fresh |-> TRUE]
  /\ UNCHANGED <<manager, last, hosted, daemon, stop, kids, segs, overlap>>

\* A handler blocks the tick until the heartbeat is old: HTTP timeouts, the
\* escalation of a camera, the sweep's own grace.
Stall(p) ==
  /\ daemon[p] = "serve" /\ file.pid = p /\ file' = [file EXCEPT !.fresh = FALSE]
  /\ UNCHANGED <<manager, last, hosted, daemon, stop, nodes, overlap>>

\* The sweep serve makes every minute.
PeriodicSweep(p) ==
  /\ daemon[p] = "serve" /\ OrphanSweep
  /\ UNCHANGED <<manager, last, hosted, daemon, stop, file, overlap>>

\* The shutdown command: the run is told to stop.
BeginTeardown(p) ==
  /\ stop[p] /\ At(p, "serve", "down")
  /\ cons' = [cons EXCEPT ![p] = IF @ = "live" THEN "saving" ELSE @]
  /\ UNCHANGED <<manager, last, hosted, stop, kids, segs, file, overlap>>

\* A consumer finishes its episode; within _teardown it is killed at the latest
\* when save_grace_s is over.
SaveDone(p) ==
  /\ cons[p] = "saving" /\ daemon[p] \in {"down", "dead"}
  /\ cons' = [cons EXCEPT ![p] = "none"]
  /\ UNCHANGED <<manager, last, hosted, daemon, stop, kids, segs, file, overlap>>

\* The run is over: the hardware nodes end, the state file goes.
EndTeardown(p) ==
  /\ At(p, "down", "dead") /\ cons[p] = "none"
  /\ kids' = [kids EXCEPT ![p] = FALSE] /\ segs' = [segs EXCEPT ![p] = FALSE] /\ file' = NoFile
  /\ UNCHANGED <<manager, last, hosted, stop, cons, overlap>>

\* The daemon dies on its own, at boot or later.
Die(p) ==
  /\ Alive(p) /\ daemon' = [daemon EXCEPT ![p] = "dead"]
  /\ UNCHANGED <<manager, last, hosted, stop, nodes, file, overlap>>

----------------------------------------------------------------------------
Boot(p) == BootCheck(p) \/ BootSweep(p) \/ StartHardware(p) \/ FirstWrite(p)
Down(p) == BeginTeardown(p) \/ EndTeardown(p)
Daemon(p) == Boot(p) \/ Down(p) \/ Tick(p) \/ Stall(p) \/ PeriodicSweep(p)

Next ==
  \/ \E r \in Rigs : Restart(r) \/ Revive(r)
  \/ Reset \/ ShutdownDone \/ ShutdownTerm \/ ShutdownKill
  \/ DashExit \/ DashKilled \/ ConsoleStart
  \/ \E p \in Pids : Daemon(p) \/ SaveDone(p) \/ Die(p)

\* Every daemon boots, answers its command queue and ends its teardown, whose
\* waits are bounded; a consumer that was told to stop ends.
Spec ==
  /\ Init /\ [][Next]_vars
  /\ \A p \in Pids : WF_vars(Boot(p)) /\ WF_vars(Down(p)) /\ WF_vars(SaveDone(p))

----------------------------------------------------------------------------
(* Properties *)

\* A daemon that got past its boot sweep finds nothing left of an earlier one: no
\* process with a device handle, no consumer, no segment, no run dir ("boot is
\* exactly when the devices must be reclaimable", main).
BootReclaims ==
  overlap \/ \A p, q \in Pids :
    p < q /\ daemon[q] \in {"spawn", "up", "serve", "down"}
      => ~kids[p] /\ cons[p] = "none" /\ ~segs[p]

\* The state file of a serving daemon is its own: nobody else removed or
\* overwrote it (StateFile, the check in main), so the dashboard does not take a
\* serving daemon for one that is starting.
FileNamesServer == overlap \/ \A p \in Pids : daemon[p] = "serve" => file.pid = p

\* What a daemon owns, devices and state file, is its own, over restarts, crashes
\* and daemons started from a shell (main, StateFile, the orphan sweep).
OwnershipIsClear == TypeOK /\ BootReclaims /\ FileNamesServer

\* When the dashboard is gone, however it went, every daemon it started ends
\* ("The daemon treats stdin EOF as shutdown").
DaemonFollowsDashboard == ~dash ~> \A p \in hosted : ~Alive(p)

----------------------------------------------------------------------------
(* What the repository says and the code does not keep *)

\* "One session per runtime dir: ... two sessions would fight over the arms."
OneSessionPerRuntimeDir == \A p, q \in Pids : kids[p] /\ kids[q] => p = q

=============================================================================
