-------------------------- MODULE StreamSegments --------------------------
(***************************************************************************)
(* The streams of a session as anybody who attaches to them sees them: the *)
(* stream of one hardware node (a camera, an arm or the FACTR node), and   *)
(* the streams the consumer of the current run publishes for the viewers   *)
(* (its horizons, and the packets exchanged with the policy server).       *)
(*                                                                         *)
(* A stream is a name and a shared-memory segment.  A new process of the   *)
(* same session creates its segment under the SAME name, so the segments   *)
(* of one name are numbered here: seg[s] is the one the name means now, 0  *)
(* when there is none, and a reader that mapped an earlier one keeps       *)
(* reading it after it was unlinked.  Samples are counted, not stored.     *)
(***************************************************************************)
EXTENDS Naturals, FiniteSets

CONSTANTS
    MaxSegments,   \* bound: segments a name gets over the behaviour
    MaxSamples,    \* bound: samples written into one segment
    MaxPackets,    \* bound: events written into one comm segment
    MaxSessions,   \* bound: sessions, one after the other
    MaxSilence,    \* the ages of a stream's newest sample that are told apart:
                   \* 0 (< 5 s), 1 (< 20 s), 2
    Phases         \* the runs to consider, of collection, eval_q, eval_eef, skill

Hw == "hw"                                   \* the hardware node's stream
RunStreams == {"q_horizon", "eef_horizon", "comm"}
Streams == {Hw} \cup RunStreams
Segments == 0..MaxSegments
NoRun == [phase |-> "none", at |-> "none"]

VARIABLES
    seg,       \* the segment each name stands for, 0 when it is not registered
    made,      \* segments each name has had
    count,     \* samples in each segment of each name
    born,      \* the session each segment was created in
    silence,   \* the age of the newest sample of each name's segment
    sess,      \* the session's number
    run        \* the run: its phase, and whether it attaches, is live or stops

segmentVars == <<seg, made, count, born, silence>>
streamVars == <<segmentVars, sess, run>>

StreamsInit ==
    /\ seg = [s \in Streams |-> 0]
    /\ made = [s \in Streams |-> 0]
    /\ count = [s \in Streams |-> [g \in Segments |-> 0]]
    /\ born = [s \in Streams |-> [g \in Segments |-> 0]]
    /\ silence = [s \in Streams |-> 0]
    /\ sess = 1
    /\ run = NoRun

\* StreamWriter.create: a fresh segment for each of the names, registered.
Create(names) ==
    /\ \A s \in names: made[s] < MaxSegments
    /\ made' = [s \in Streams |-> IF s \in names THEN made[s] + 1 ELSE made[s]]
    /\ seg' = [s \in Streams |-> IF s \in names THEN made[s] + 1 ELSE seg[s]]
    /\ born' = [s \in Streams |-> IF s \in names THEN [born[s] EXCEPT ![made[s] + 1] = sess]
                                                 ELSE born[s]]
    /\ silence' = [s \in Streams |-> IF s \in names THEN 0 ELSE silence[s]]
    /\ UNCHANGED count

\* StreamWriter.unlink and StreamRegistry.remove, or the daemon's sweep.
Unlink(names) ==
    /\ seg' = [s \in Streams |-> IF s \in names THEN 0 ELSE seg[s]]
    /\ UNCHANGED <<made, count, born, silence>>

Bound(s) == IF s = "comm" THEN MaxPackets ELSE MaxSamples

\* StreamWriter.write into the current segment.  A sample past the bound is not
\* counted, but it is recent.
Write(s) ==
    /\ count[s][seg[s]] < Bound(s) \/ silence[s] > 0
    /\ count' = IF count[s][seg[s]] < Bound(s) THEN [count EXCEPT ![s][seg[s]] = @ + 1] ELSE count
    /\ silence' = [silence EXCEPT ![s] = 0]
    /\ UNCHANGED <<seg, made, born>>

\* Time passes and nothing is written.
GrowOlder(s) ==
    /\ silence[s] < MaxSilence
    /\ silence' = [silence EXCEPT ![s] = @ + 1]
    /\ UNCHANGED <<seg, made, count, born>>

HasSamples(s) == seg[s] # 0 /\ count[s][seg[s]] > 0

\* The streams the consumer of each phase publishes for the viewers.
Published(phase) ==
    CASE phase = "eval_q" -> {"q_horizon", "comm"}
      [] phase = "eval_eef" -> {"eef_horizon", "comm"}
      [] phase = "skill" -> {"q_horizon"}
      [] OTHER -> {}
=============================================================================
