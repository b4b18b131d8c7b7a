---------------------------- MODULE OperatorPage ----------------------------
(***************************************************************************)
(* The Experiment controls of the dashboard: launching, switching and      *)
(* stopping runs through the RunRegistry that all browser tabs share, and  *)
(* the one-shot alerts about finished runs.  The session daemon is reduced *)
(* to what its status reports (its own modules say how it gets there).     *)
(***************************************************************************)
EXTENDS Naturals, Sequences, FiniteSets, Functions

CONSTANTS
    Operators, \* browser tabs
    MaxBoots,  \* bound: daemons started
    MaxRuns    \* bound: runs of one daemon

VARIABLES
    boot,      \* daemons started so far
    state,     \* the state the daemon reports
    phase,     \* the phase of its run, "none" when idle
    seq,       \* its run_seq
    outcome,   \* last_outcome: {} or {[boot, seq, kind]}
    next,      \* the pending switch: {} or {phase}
    queue,     \* commands sent and not yet handled
    seen,      \* RunRegistry._seen_seq
    history,   \* RunRegistry._history
    stash,     \* each tab's run_alert and factr_control_alert
    surfaced,  \* history: the alerts shown, over all tabs
    resetting  \* history: runs that were active when a reset's shutdown was handled

daemonVars == <<boot, state, phase, seq, outcome, next, queue, resetting>>
pageVars == <<seen, history, stash, surfaced>>
operatorVars == <<daemonVars, pageVars>>

Phases == {"collection", "eval", "skill"}
\* SessionView.run_active
RunActive == state \in Phases \cup {"saving"}
NoAlert == [run |-> {}, control |-> {}]

OperatorInit ==
    /\ boot = 1 /\ state = "starting" /\ phase = "none" /\ seq = 0
    /\ outcome = {} /\ next = {} /\ queue = <<>>
    /\ seen = 0 /\ history = <<>> /\ stash = [t \in Operators |-> NoAlert]
    /\ surfaced = <<>> /\ resetting = {}

----------------------------------------------------------------------------
(* The daemon.                                                             *)

DaemonReady ==
    /\ state = "starting" /\ state' = "viewing"
    /\ UNCHANGED <<boot, phase, seq, outcome, next, queue, resetting, pageVars>>

\* _handle_start from idle: the run starts and the pending start is dropped, or a
\* gate of the daemon refuses it.
Starts(p) ==
    \/ seq < MaxRuns /\ state' = p /\ phase' = p /\ seq' = seq + 1 /\ next' = {}
    \/ UNCHANGED <<state, phase, seq, next>>

\* _handle_start is refused during a run; _handle_switch stops the run and queues
\* the start; _handle_stop cancels a queued one; shutdown ends run and daemon.
DaemonHandles ==
    /\ queue # <<>> /\ state \notin {"down", "starting"} /\ queue' = Tail(queue)
    /\ LET c == Head(queue) IN
       \/ /\ c.op \in {"start", "switch"} /\ ~RunActive /\ Starts(c.phase) /\ UNCHANGED resetting
       \/ /\ c.op = "start" /\ RunActive /\ UNCHANGED <<state, phase, seq, next, resetting>>
       \/ /\ c.op = "switch" /\ RunActive
          /\ state' = "saving" /\ next' = {c.phase} /\ UNCHANGED <<phase, seq, resetting>>
       \/ /\ c.op = "stop"
          /\ state' = (IF RunActive THEN "saving" ELSE state) /\ next' = {}
          /\ UNCHANGED <<phase, seq, resetting>>
       \/ /\ c.op = "shutdown"
          /\ state' = "down" /\ phase' = "none" /\ next' = {} /\ UNCHANGED seq
          /\ resetting' = IF RunActive THEN resetting \cup {<<boot, seq>>} ELSE resetting
    /\ UNCHANGED <<boot, outcome, pageVars>>

\* _reap_consumer: the run ended by itself or after a stop.
RunEnds ==
    /\ RunActive
    /\ \E kind \in {"info", "error"}:
           outcome' = {[boot |-> boot, seq |-> seq, kind |-> kind, phase |-> phase]}
    /\ state' = "viewing" /\ phase' = "none"
    /\ UNCHANGED <<boot, seq, next, queue, resetting, pageVars>>

\* _tend_pending: the queued start fires, is refused, or is abandoned.
QueuedStart ==
    /\ ~RunActive /\ next # {}
    /\ \/ \E p \in next: Starts(p) /\ next' = {}
       \/ next' = {} /\ UNCHANGED <<state, phase, seq>>
    /\ UNCHANGED <<boot, outcome, queue, resetting, pageVars>>

DaemonDies ==
    /\ state # "down" /\ state' = "down" /\ phase' = "none" /\ next' = {} /\ queue' = <<>>
    /\ UNCHANGED <<boot, seq, outcome, resetting, pageVars>>

----------------------------------------------------------------------------
(* Drawing the page.                                                       *)

\* main: ensure_session spawns a daemon when there is none.
EnsureSession ==
    /\ state = "down" /\ boot < MaxBoots
    /\ boot' = boot + 1 /\ state' = "starting" /\ seq' = 0 /\ outcome' = {} /\ queue' = <<>>
    /\ UNCHANGED <<phase, next, resetting, pageVars>>

\* Mutant: the newest sequence number is not remembered.
AlertAgain(o) == seen' = seen

Remembers(o) == seen' = o.seq

\* take_alert: an outcome newer than the newest one surfaced
TakeAlert(o) ==
    /\ o.seq > seen /\ Remembers(o)
    /\ history' = Append(history, o)

\* _run_status_panel, every two seconds: one tab takes the alert, and stores it as
\* a control alert or for the page to pop up.
PollStatus(t) ==
    /\ state # "down"
    /\ \E o \in outcome:
           /\ TakeAlert(o)
           /\ stash' = IF o.kind = "error" /\ o.phase = "collection"
                       THEN [stash EXCEPT ![t].control = {o}]
                       ELSE [stash EXCEPT ![t].run = {o}]
           /\ surfaced' = Append(surfaced, <<o.boot, o.seq>>)
    /\ UNCHANGED daemonVars

\* _show_run_alert pops it; a control alert stays until it is dismissed.
ShowAlert(t) ==
    /\ stash[t].run # {} /\ stash' = [stash EXCEPT ![t].run = {}]
    /\ UNCHANGED <<daemonVars, seen, history, surfaced>>
Dismiss(t) ==
    /\ stash[t].control # {} /\ stash' = [stash EXCEPT ![t].control = {}]
    /\ UNCHANGED <<daemonVars, seen, history, surfaced>>

----------------------------------------------------------------------------
(* The buttons.                                                            *)

\* SessionManager.send; one command in flight is a bound of the model, two with
\* the shutdown of a reset.
Sends(c) ==
    /\ queue' = Append(queue, c)
    /\ UNCHANGED <<boot, state, phase, seq, outcome, next, resetting>>

CheckLaunchable(switching) == state \notin {"down", "starting"} /\ (RunActive => switching)

\* RunRegistry.launch
RegistryLaunch(p, switching) ==
    /\ CheckLaunchable(switching)
    /\ Sends([op |-> IF switching THEN "switch" ELSE "start", phase |-> p])

\* The two launch buttons: a start from viewing, a switch while a run is active.
Launch(p) ==
    /\ queue = <<>> /\ (state = "viewing" \/ RunActive)
    /\ RegistryLaunch(p, RunActive)
    /\ UNCHANGED pageVars

RegistryLaunchSkill == CheckLaunchable(FALSE) /\ Sends([op |-> "start", phase |-> "skill"])

\* Repeat
LaunchSkill ==
    /\ queue = <<>> /\ state = "viewing"
    /\ RegistryLaunchSkill
    /\ UNCHANGED pageVars

StopActive ==
    /\ queue = <<>> /\ RunActive /\ state # "saving"
    /\ Sends([op |-> "stop", phase |-> "none"])
    /\ UNCHANGED pageVars

\* Reset services: refused while a run is active; the history is cleared.
ResetServices ==
    /\ ~RunActive /\ state # "down"
    /\ \A i \in DOMAIN queue: queue[i].op # "shutdown"
    /\ Sends([op |-> "shutdown", phase |-> "none"])
    /\ history' = <<>>
    /\ UNCHANGED <<seen, stash, surfaced>>

OperatorNext ==
    \/ DaemonReady \/ DaemonHandles \/ RunEnds \/ QueuedStart \/ DaemonDies
    \/ EnsureSession \/ LaunchSkill \/ StopActive \/ ResetServices
    \/ \E p \in {"collection", "eval"}: Launch(p)
    \/ \E t \in Operators: PollStatus(t) \/ ShowAlert(t) \/ Dismiss(t)

OperatorSpec == OperatorInit /\ [][OperatorNext]_operatorVars

----------------------------------------------------------------------------
\* No outcome is surfaced twice, on whichever tabs it is polled, also when the
\* daemon restarted or the services were reset in between; the history lists the
\* outcomes in the order of their runs; and an outcome of the first daemon the
\* registry talks to is surfaced, or the next poll of any tab surfaces it.
AlertsOnce ==
    /\ \A i, j \in DOMAIN surfaced: i < j => surfaced[i] # surfaced[j]
    /\ \A i, j \in DOMAIN history: i < j => history[i].seq < history[j].seq
    /\ boot = 1 => \A o \in outcome: <<1, o.seq>> \in Range(surfaced) \/ o.seq > seen

\* Stated by take_alert's comment ("each is surfaced exactly once"): the same of
\* every daemon.  A restarted daemon counts its runs from 1 again while the registry
\* keeps its newest number, so its first outcomes are never surfaced.
EveryOutcomeSurfaces ==
    \A o \in outcome: <<o.boot, o.seq>> \in Range(surfaced) \/ o.seq > seen

\* Stated by _reset_services' comment: a reset does not kill a run in flight.
ResetSparesRuns == resetting = {}
=============================================================================
