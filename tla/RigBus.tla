------------------------------- MODULE RigBus -------------------------------
(***************************************************************************)
(* What the processes of a session share: the queue of EnterControl        *)
(* messages of each arm, the status stream each arm publishes, and the     *)
(* control registry with the setpoint and command channels of each side.   *)
(*                                                                         *)
(* A run is its number.  A stream is abstracted to what its readers decide *)
(* on: the status stream to the control_active flag of its newest sample,  *)
(* a setpoint channel to whether it holds a sample, a command channel to   *)
(* whether STOP was posted on it.  A manifest names a segment by a name    *)
(* that is the same in every run of the session (shm_name_for), so the run *)
(* that created the segment is kept with the manifest and the name.        *)
(***************************************************************************)
EXTENDS Integers, Sequences

CONSTANTS Sides,         \* the control-enabled arms of the rig
          MaxRuns        \* bound on the runs started in one session

ASSUME RunsAssumption == MaxRuns \in Nat

Runs == 1 .. MaxRuns
NoRun == 0

VARIABLES
  q,       \* session_qs: EnterControl messages, by the run that sent them
  pub,     \* newest status sample: "none" (no manifest), "empty", "idle", "control"
  man,     \* control manifests: the run whose channels a side's entry names
  seg,     \* control segments: the run that created what the name now holds
  sp,      \* for each run, the sides whose setpoint channel holds a sample
  stp      \* for each run, the sides whose command channel holds STOP

bus == <<q, pub, man, seg, sp, stp>>
channels == <<man, seg, sp, stp>>

BusInit ==
  /\ q = [s \in Sides |-> <<>>]
  /\ pub = [s \in Sides |-> "none"]
  /\ man = [s \in Sides |-> NoRun]
  /\ seg = [s \in Sides |-> NoRun]
  /\ sp = [n \in Runs |-> {}]
  /\ stp = [n \in Runs |-> {}]

BusTypeOK ==
  /\ q \in [Sides -> Seq(Runs)]
  /\ pub \in [Sides -> {"none", "empty", "idle", "control"}]
  /\ man \in [Sides -> Runs \cup {NoRun}]
  /\ seg \in [Sides -> Runs \cup {NoRun}]
  /\ sp \in [Runs -> SUBSET Sides]
  /\ stp \in [Runs -> SUBSET Sides]

=============================================================================
