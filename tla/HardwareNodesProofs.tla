------------------------ MODULE HardwareNodesProofs ------------------------
(***************************************************************************)
(* HardwareNodes implements Producers, for any bounds, phases and nodes:   *)
(* every step of the supervised node is a step of the producers, or none.  *)
(* And the leaders' node in detail (LeaderFeed): what its stream and its   *)
(* torque feedback promise, for any timeouts, ages and number of samples.  *)
(***************************************************************************)
EXTENDS HardwareNodes, LeaderFeed, TLAPS

Registered == proc \in {"open", "up"}

\* The functions over the stream names keep their shape.
ShapeOK ==
    /\ seg \in [Streams -> Nat] /\ made \in [Streams -> Nat]
    /\ DOMAIN born = Streams /\ born = [s \in Streams |-> born[s]]
    /\ DOMAIN silence = Streams /\ silence = [s \in Streams |-> silence[s]]
    /\ proc \in {"off", "boot", "open", "up"}

\* A booting process finds its name free, a registered one holds it; nobody
\* publishes for a run whose streams no viewer reads.
NamesInv ==
    /\ proc = "boot" => seg[Hw] = 0
    /\ Registered => seg[Hw] # 0
    /\ \A s \in RunStreams: seg[s] = 0

RunOK == run = NoRun \/ run \in [phase: Phases, at: {"attach", "live", "stopping"}]

IInv == ShapeOK /\ NamesInv /\ RunOK

\* A session begins with nothing registered.
LEMMA InvInit == Init => IInv
BY DEF Init, StreamsInit, IInv, ShapeOK, NamesInv, RunOK, Registered, Streams, RunStreams, Hw

\* Creating and unlinking segments keeps the shape and touches only the names
\* given.
LEMMA SegmentsStep ==
  ASSUME ShapeOK, NEW names \in SUBSET Streams, Create(names) \/ Unlink(names)
  PROVE  /\ seg' \in [Streams -> Nat] /\ made' \in [Streams -> Nat]
         /\ DOMAIN born' = Streams /\ born' = [s \in Streams |-> born'[s]]
         /\ DOMAIN silence' = Streams /\ silence' = [s \in Streams |-> silence'[s]]
         /\ \A s \in Streams \ names: seg'[s] = seg[s]
         /\ Create(names) => \A s \in names: seg'[s] # 0
         /\ Unlink(names) => \A s \in names: seg'[s] = 0
BY DEF ShapeOK, Create, Unlink

\* Writing and growing older change no name.
LEMMA AgeStep ==
  ASSUME ShapeOK, NEW s \in Streams, Write(s) \/ GrowOlder(s)
  PROVE  /\ UNCHANGED <<seg, made, born>>
         /\ DOMAIN silence' = Streams /\ silence' = [x \in Streams |-> silence'[x]]
<1>1. CASE Write(s)
  BY <1>1, SMTT(30) DEF ShapeOK, Write
<1>2. CASE GrowOlder(s)
  BY <1>2 DEF ShapeOK, GrowOlder
<1> QED
  BY <1>1, <1>2

\* Every step of the node, the daemon and the runs keeps the invariant.
LEMMA InvStep == IInv /\ [Next]_vars => IInv'
<1> SUFFICES ASSUME IInv, [Next]_vars PROVE IInv'
  OBVIOUS
<1> USE DEF IInv, ShapeOK, NamesInv, RunOK, Registered, Streams
<1>0. {Hw} \in SUBSET Streams /\ Hw \in Streams /\ Streams \in SUBSET Streams /\ Hw \notin RunStreams
  BY DEF Streams, RunStreams, Hw
<1>1. CASE DeclareStreams
  BY <1>1, <1>0, SegmentsStep DEF DeclareStreams
<1>2. CASE OpenSource
  BY <1>2 DEF OpenSource, streamVars, segmentVars
<1>3. CASE ProcessEnds
  BY <1>3, <1>0, SegmentsStep DEF ProcessEnds
<1>4. CASE ProcessKilled
  BY <1>4 DEF ProcessKilled, streamVars, segmentVars
<1>5. CASE PollDelivers
  BY <1>5, <1>0, AgeStep DEF PollDelivers, nodeVars
<1>6. CASE PollNothing
  BY <1>6, <1>0, AgeStep DEF PollNothing, nodeVars
<1>7. CASE Unplug
  BY <1>7 DEF Unplug, streamVars, segmentVars
<1>8. CASE Plug
  BY <1>8 DEF Plug, streamVars, segmentVars
<1>9. ASSUME NEW due \in BOOLEAN, Tend(due) PROVE IInv'
  <2>1. run' = run \/ (run # NoRun /\ run' = [run EXCEPT !.at = "stopping"])
    BY <1>9 DEF Tend, TendCamera, TendArm, TendFactr
  <2>2. RunOK'
    BY <2>1
  <2>3. CASE KeepNode
    BY <2>2, <2>3 DEF KeepNode, segmentVars
  <2>4. CASE Respawn
    BY <1>0, <2>2, <2>4, SegmentsStep DEF Respawn
  <2>5. CASE SweepDead /\ proc = "off"
    BY <1>0, <2>2, <2>5, SegmentsStep DEF SweepDead
  <2> QED
    BY <1>9, <2>3, <2>4, <2>5 DEF Tend, TendCamera, TendArm, TendFactr
<1>10. CASE ReplaceNode
  BY <1>10, <1>0, SegmentsStep DEF ReplaceNode, Respawn
<1>11. ASSUME NEW phase \in Phases, HandleStart(phase) PROVE IInv'
  BY <1>11 DEF HandleStart, segmentVars, nodeVars
<1>12. CASE BrainAttaches
  BY <1>12 DEF BrainAttaches, segmentVars, nodeVars, NoRun
<1>13. CASE ConsumerReaped
  BY <1>13 DEF ConsumerReaped, segmentVars, nodeVars
<1>14. CASE SessionReplaced
  BY <1>14, <1>0, SegmentsStep DEF SessionReplaced, NoRun
<1>15. CASE UNCHANGED vars
  BY <1>15 DEF vars, streamVars, segmentVars, nodeVars
<1> QED
  BY <1>1, <1>2, <1>3, <1>4, <1>5, <1>6, <1>7, <1>8, <1>9, <1>10, <1>11, <1>12, <1>13, <1>14,
     <1>15
     DEF Next

----------------------------------------------------------------------------
(* The refinement. *)

\* What the producers' readers see of a step.
Shown == [Abstract!ProducersNext]_(Abstract!producerVars)

\* A sweep of the node's name: NodeSwept when it was registered, else nothing.
LEMMA SweepShown ==
  ASSUME IInv, Unlink({Hw}), run' = run, sess' = sess, proc' \in {"off", "boot"}
  PROVE  Shown
<1>1. CASE seg[Hw] # 0
  BY <1>1 DEF Shown, Abstract!ProducersNext, Abstract!NodeStep, Abstract!NodeSwept,
     Abstract!Unlink, Unlink, Abstract!Hw, Hw, Abstract!Streams, Streams, Abstract!RunStreams,
     RunStreams
<1>2. CASE seg[Hw] = 0
  <2>1. seg' = seg
    BY <1>2 DEF Unlink, IInv, ShapeOK
  <2>2. (proc \in {"open", "up"}) = FALSE /\ (proc' \in {"open", "up"}) = FALSE
    BY <1>2 DEF IInv, NamesInv, Registered
  <2> QED
    BY <2>1, <2>2 DEF Shown, Abstract!producerVars, Abstract!streamVars, Abstract!segmentVars,
       Unlink
<1> QED
  BY <1>1, <1>2

\* Each step of HardwareNodes is a step of Producers or changes nothing there.
LEMMA StepShown == IInv /\ [Next]_vars => Shown
<1> SUFFICES ASSUME IInv, [Next]_vars PROVE Shown
  OBVIOUS
<1>0. IInv'
  BY InvStep
<1> USE DEF Shown, Abstract!ProducersNext, Abstract!NodeStep, Abstract!RunStep,
        Abstract!Hw, Hw, Abstract!Streams, Streams, Abstract!RunStreams, RunStreams,
        Abstract!NoRun, NoRun
<1>1. CASE DeclareStreams
  BY <1>1 DEF DeclareStreams, Abstract!NodeDeclares, Create, Abstract!Create, IInv, NamesInv
<1>2. CASE OpenSource
  BY <1>2 DEF OpenSource, streamVars, segmentVars, Abstract!producerVars, Abstract!streamVars,
     Abstract!segmentVars
<1>3. CASE ProcessEnds
  BY <1>3 DEF ProcessEnds, Abstract!NodeExits, Unlink, Abstract!Unlink
<1>4. CASE ProcessKilled
  BY <1>4 DEF ProcessKilled, Abstract!NodeKilled, streamVars, segmentVars, Abstract!streamVars,
     Abstract!segmentVars
<1>5. CASE PollDelivers
  BY <1>5 DEF PollDelivers, Delivering, nodeVars, Abstract!NodeWrites, Write, Abstract!Write,
     Bound, Abstract!Bound
<1>6. CASE PollNothing
  BY <1>6 DEF PollNothing, nodeVars, Abstract!NodeSilent, GrowOlder, Abstract!GrowOlder
<1>7. CASE Unplug \/ Plug
  BY <1>7 DEF Unplug, Plug, streamVars, segmentVars, Abstract!producerVars,
     Abstract!streamVars, Abstract!segmentVars
<1>8. ASSUME NEW due \in BOOLEAN, Tend(due) PROVE Shown
  <2>1. sess' = sess
    BY <1>8 DEF Tend
  <2>2. CASE KeepNode /\ run' = run
    BY <2>1, <2>2 DEF KeepNode, segmentVars, Abstract!producerVars, Abstract!streamVars,
       Abstract!segmentVars
  <2>3. CASE Respawn /\ run' = run
    BY <2>1, <2>3, SweepShown DEF Respawn
  <2>4. CASE SweepDead /\ proc = "off" /\ run' = run
    BY <2>1, <2>4, SweepShown DEF SweepDead
  <2>5. CASE SweepDead /\ proc = "off" /\ run # NoRun /\ run' = [run EXCEPT !.at = "stopping"]
    <3>1. CASE seg[Hw] # 0
      BY <2>1, <2>5, <3>1 DEF SweepDead, Unlink, Abstract!NodeSwept, Abstract!Unlink,
         Abstract!Stopped
    <3>2. CASE seg[Hw] = 0
      <4>1. UNCHANGED <<seg, made, count, born, silence, proc>>
        BY <2>5, <3>2 DEF SweepDead, Unlink, IInv, ShapeOK
      <4>2. CASE run.at = "stopping"
        <5>1. run' = run
          BY <2>5, <4>2 DEF IInv, RunOK
        <5> QED
          BY <2>1, <4>1, <5>1 DEF Abstract!producerVars, Abstract!streamVars,
             Abstract!segmentVars
      <4>3. CASE run.at # "stopping"
        <5>1. run.at \in {"attach", "live"} /\ run' = Abstract!Stopped(run)
          BY <2>5, <4>3 DEF IInv, RunOK, Abstract!Stopped
        <5> QED
          BY <2>1, <4>1, <5>1 DEF Abstract!RunStopped, Abstract!segmentVars
      <4> QED
        BY <4>2, <4>3
    <3> QED
      BY <3>1, <3>2
  <2> QED
    BY <1>8, <2>2, <2>3, <2>4, <2>5 DEF Tend, TendCamera, TendArm, TendFactr, MayReplaceArm
<1>9. CASE ReplaceNode
  BY <1>9, SweepShown DEF ReplaceNode, Respawn
<1>10. ASSUME NEW phase \in Phases, HandleStart(phase) PROVE Shown
  BY <1>10 DEF HandleStart, Abstract!StartRun, segmentVars, nodeVars, Abstract!segmentVars
<1>11. CASE BrainAttaches
  <2>1. Abstract!Create(Abstract!Published(run.phase) \cap {})
    BY <1>11 DEF BrainAttaches, segmentVars, Abstract!Create, IInv, ShapeOK
  <2> QED
    BY <1>11, <2>1 DEF BrainAttaches, Abstract!RunAttaches, nodeVars
<1>12. CASE ConsumerReaped
  <2>1. Abstract!Unlink(Abstract!RunStreams)
    BY <1>12 DEF ConsumerReaped, segmentVars, Abstract!Unlink, IInv, ShapeOK, NamesInv
  <2> QED
    BY <1>12, <2>1 DEF ConsumerReaped, Abstract!RunEnds, nodeVars
<1>13. CASE SessionReplaced
  BY <1>13 DEF SessionReplaced, Abstract!NewSession, Unlink, Abstract!Unlink
<1>14. CASE UNCHANGED vars
  BY <1>14 DEF vars, streamVars, segmentVars, nodeVars, Abstract!producerVars,
     Abstract!streamVars, Abstract!segmentVars
<1> QED
  BY <1>1, <1>2, <1>3, <1>4, <1>5, <1>6, <1>7, <1>8, <1>9, <1>10, <1>11, <1>12, <1>13, <1>14
     DEF Next

\* Supervision shows the readers nothing that Producers does not, for any bounds
\* and any kind of node: a name is unregistered before it is registered again, and
\* no sample is written by a dead process (StreamProducerNode.run, _tend_cameras,
\* _tend_arms, _tend_factr, _sweep_node_streams).
THEOREM NodesImplementProducers == Spec => ImplementsProducers
<1>1. Init => Abstract!ProducersInit
  BY DEF Init, StreamsInit, Abstract!ProducersInit, Abstract!StreamsInit, Abstract!Streams,
     Streams, Abstract!RunStreams, RunStreams, Abstract!Hw, Hw, Abstract!Segments, Segments,
     Abstract!NoRun, NoRun
<1>2. IInv /\ [Next]_vars => IInv'
  BY InvStep
<1>3. IInv /\ [Next]_vars => [Abstract!ProducersNext]_(Abstract!producerVars)
  BY StepShown DEF Shown
<1> QED
  BY <1>1, <1>2, <1>3, InvInit, PTL DEF Spec, ImplementsProducers, Abstract!ProducersSpec

----------------------------------------------------------------------------
(* The node that feeds the leaders' readings, for any timeout and ages.    *)

NodeStates == [pc : {"read", "forward", "send", "sleep"}, side : Sides, waited : Nat]
StampedReadings == [stamp : Nat, real : Nat]
Torques == [seq : 0 .. MaxTorques, age : Nat]
Followers == [entry : Nat, seq : 0 .. MaxTorques, age : Nat]
Feedbacks == [side : Sides \cup {0}, reader : Nat, last : 0 .. MaxTorques, torque : Torques]
Preflights == [at : {"off", "waiting", "passed", "failed"}, clock : Nat, outage : BOOLEAN]

FeedType ==
  /\ server \in [Sides -> {"down", "mute", "live"}] /\ linked \in [Sides -> BOOLEAN]
  /\ cached \in [Sides -> Nat] /\ held \in [Sides -> Nat \cup {None}]
  /\ node \in NodeStates /\ node.waited <= Timeout /\ stream \in [Sides -> StampedReadings]
  /\ arm \in Followers /\ feed \in Feedbacks /\ sent \in [1 .. MaxTorques -> Nat]
  /\ preflight \in Preflights

\* How old the readings of a poll are, by where the poll is: each wait that may lie
\* between a reading and its stamp adds a timeout at most.
AgeInv ==
  /\ node.pc = "sleep" \/ (node.pc = "read" /\ node.side = 1) => held[1] = None
  /\ node.pc \in {"sleep", "read"} \/ node.side = 1 => held[2] = None
  /\ node.side = 1 /\ node.pc = "forward" => held[1] <= Timeout
  /\ node.side = 1 /\ node.pc = "send" => held[1] <= Timeout + node.waited
  /\ node.side = 2 /\ node.pc = "read" => held[1] <= 2 * Timeout + node.waited
  /\ node.side = 2 /\ node.pc = "forward" => held[1] <= 3 * Timeout /\ held[2] <= Timeout
  /\ node.side = 2 /\ node.pc = "send" =>
       held[1] <= 3 * Timeout + node.waited /\ held[2] <= Timeout + node.waited
  /\ node.pc = "sleep" => node.side = 1
  /\ \A s \in Sides : Fresh(s) => stream[s].real <= 4 * Timeout + stream[s].stamp

\* The torque in hand is newer than the last one sent, and the follower's counter is
\* not behind it; a reader once attached is kept.
TorqueInv ==
  /\ node.pc # "send" => feed.torque = NoTorque
  /\ node.pc = "send" =>
       /\ feed.side = node.side /\ feed.reader # 0
       /\ feed.last < feed.torque.seq /\ feed.torque.seq <= arm.seq
       /\ feed.torque.age <= MaxAge + node.waited
  /\ arm.seq # 0 => arm.entry # 0
  /\ IF feed.reader = 0 THEN feed.last = 0 ELSE feed.last <= arm.seq
  /\ \A k \in 1 .. MaxTorques : sent[k] <= IF k <= feed.last THEN 1 ELSE 0

\* A preflight without an outage: every leader feeds, after a tick every cache is
\* young, and the poll that begins with the second tick stamps both leaders.
Undisturbed == preflight.at = "waiting" /\ ~preflight.outage
PreflightInv ==
  /\ preflight.at # "off" => feed.side = 0
  /\ preflight.at = "failed" => preflight.outage
  /\ Undisturbed =>
       /\ \A s \in Sides : Feeds(s)
       /\ preflight.clock <= 2
       /\ preflight.clock # 0 => \A s \in Sides : cached[s] = 0
       /\ preflight.clock = 2 =>
            /\ node.side = 2 \/ node.pc = "forward" => held[1] # None
            /\ node.side = 2 /\ node.pc = "forward" => held[2] # None
            /\ node.pc = "sleep" => AllFresh

FeedInv == FeedType /\ AgeInv /\ TorqueInv /\ PreflightInv

\* The node has read nothing yet.
LEMMA FeedInitInv == FeedInit => FeedInv
<1> SUFFICES ASSUME FeedInit PROVE FeedInv
  OBVIOUS
<1> USE DEF Sides, None, NoTorque, OldReading, OldStream, ReadingBound
<1>1. linked \in [Sides -> BOOLEAN] /\ preflight \in Preflights
  BY Zenon DEF FeedInit, Preflights
<1>2. FeedType
  BY <1>1, FeedAssumption
     DEF FeedInit, FeedType, NodeStates, StampedReadings, Torques, Followers, Feedbacks
<1>3. AgeInv
  BY FeedAssumption DEF FeedInit, AgeInv, Fresh
<1>4. TorqueInv
  BY FeedAssumption DEF FeedInit, TorqueInv
<1>5. PreflightInv
  BY DEF FeedInit, PreflightInv, Undisturbed
<1> QED
  BY <1>2, <1>3, <1>4, <1>5 DEF FeedInv

\* A disturbance is remembered while the preflight waits.
LEMMA OutageFacts ==
  ASSUME preflight \in Preflights,
         preflight' = [preflight EXCEPT !.outage = @ \/ preflight.at = "waiting"]
  PROVE  /\ preflight' \in Preflights
         /\ preflight'.at = preflight.at /\ preflight'.clock = preflight.clock
         /\ preflight.at = "waiting" \/ preflight.outage => preflight'.outage
<1>1. preflight'.at = preflight.at /\ preflight'.clock = preflight.clock
  BY DEF Preflights
<1>2. preflight'.outage = (preflight.outage \/ preflight.at = "waiting")
  BY DEF Preflights
<1>3. preflight' \in Preflights
  BY Zenon DEF Preflights
<1> QED
  BY <1>1, <1>2, <1>3

\* Going on to the next leader, or to the write and the pause after it.
LEMMA NextLeaderFacts ==
  ASSUME FeedType, NextLeader(held)
  PROVE  /\ node' \in NodeStates /\ node'.waited = 0 /\ node'.pc \in {"read", "sleep"}
         /\ held' \in [Sides -> Nat \cup {None}] /\ stream' \in [Sides -> StampedReadings]
         /\ node.side = 1 => node'.pc = "read" /\ node'.side = 2 /\ held' = held /\ stream' = stream
         /\ node.side = 2 => /\ node'.pc = "sleep" /\ node'.side = 1
                             /\ \A s \in Sides : held'[s] = None
                             /\ \A s \in Sides : IF held[s] = None THEN stream'[s] = stream[s]
                                                 ELSE stream'[s].stamp = 0 /\ stream'[s].real = held[s]
<1>1. node.side \in {1, 2}
  BY DEF FeedType, NodeStates, Sides
<1>2. CASE node.side = 1
  BY <1>2 DEF NextLeader, FeedType, NodeStates, Sides
<1>3. CASE node.side = 2
  <2>1. /\ node' = [pc |-> "sleep", side |-> 1, waited |-> 0]
        /\ stream' = [s \in Sides |-> IF held[s] = None THEN stream[s]
                                      ELSE [stamp |-> 0, real |-> held[s]]]
        /\ held' = [s \in Sides |-> None]
    BY <1>3 DEF NextLeader, Publish
  <2>2. stream' \in [Sides -> StampedReadings]
    BY <2>1 DEF FeedType, StampedReadings
  <2> QED
    BY <1>3, <2>1, <2>2 DEF FeedType, NodeStates, Sides
<1> QED
  BY <1>1, <1>2, <1>3

\* What the node keeps when it goes on from a leader: the ages, the torque it may
\* have sent, and what an undisturbed preflight counts on.
LEMMA NextLeaderStep ==
  ASSUME FeedInv, NextLeader(held), UNCHANGED <<server, linked, cached, arm, preflight>>,
         node.pc = "read" => ~Available(node.side) /\ node.waited = Timeout,
         node.pc # "sleep",
         feed' \in Feedbacks, feed'.torque = NoTorque, feed'.side = feed.side,
         feed'.last <= arm.seq, feed'.reader = 0 => feed'.last = 0,
         sent' \in [1 .. MaxTorques -> Nat],
         \A k \in 1 .. MaxTorques : sent'[k] <= IF k <= feed'.last THEN 1 ELSE 0
  PROVE  FeedInv'
<1> USE DEF Sides, None
<1>0. FeedType /\ AgeInv /\ TorqueInv /\ PreflightInv /\ Timeout \in Nat \ {0} /\ MaxAge \in Nat \ {0}
  BY FeedAssumption DEF FeedInv
<1>1. FeedType'
  BY <1>0, NextLeaderFacts DEF FeedType
<1>2. AgeInv'
  <2>1. held[1] \in Int /\ held[2] \in Int /\ node \in NodeStates /\ node.waited <= Timeout
    BY <1>0 DEF FeedType
  <2>2. CASE node.side = 1
    <3>1. held'[1] <= 2 * Timeout /\ held'[2] = None
      BY <1>0, <2>1, <2>2, NextLeaderFacts DEF AgeInv, NodeStates
    <3> QED
      BY <1>0, <2>2, <3>1, NextLeaderFacts DEF AgeInv, Fresh
  <2>3. CASE node.side = 2
    <3>1. held[1] <= 4 * Timeout /\ held[2] <= 4 * Timeout
      BY <1>0, <2>1, <2>3, SMTT(30) DEF AgeInv, NodeStates
    <3>2. ASSUME NEW s \in Sides, Fresh(s)' PROVE stream'[s].real <= 4 * Timeout + stream'[s].stamp
      <4>1. CASE held[s] = None
        BY <1>0, <2>3, <3>2, <4>1, NextLeaderFacts DEF AgeInv, Fresh
      <4>2. CASE held[s] # None
        BY <1>0, <2>3, <3>1, <4>2, NextLeaderFacts
      <4> QED
        BY <4>1, <4>2
    <3> QED
      BY <1>0, <2>3, <3>2, NextLeaderFacts DEF AgeInv
  <2> QED
    BY <2>1, <2>2, <2>3 DEF NodeStates
<1>3. TorqueInv'
  BY <1>0, NextLeaderFacts DEF TorqueInv
<1>4. PreflightInv'
  <2>1. CASE Undisturbed /\ preflight.clock = 2
    <3>1. node.pc = "forward"
      BY <1>0, <2>1 DEF PreflightInv, TorqueInv, Available, FeedType, NodeStates, Undisturbed
    <3>2. CASE node.side = 1
      BY <1>0, <2>1, <3>1, <3>2, NextLeaderFacts DEF PreflightInv, Undisturbed, Feeds
    <3>3. CASE node.side = 2
      <4>1. AllFresh'
        BY <1>0, <2>1, <3>1, <3>3, NextLeaderFacts DEF PreflightInv, AllFresh, Fresh
      <4> QED
        BY <1>0, <2>1, <3>1, <3>3, <4>1, NextLeaderFacts DEF PreflightInv, Undisturbed, Feeds
    <3> QED
      BY <1>0, <3>2, <3>3 DEF FeedType, NodeStates
  <2>2. CASE ~(Undisturbed /\ preflight.clock = 2)
    BY <1>0, <2>2 DEF PreflightInv, Undisturbed, Feeds
  <2> QED
    BY <2>1, <2>2
<1> QED
  BY <1>1, <1>2, <1>3, <1>4 DEF FeedInv

\* Time passes only while the node sleeps or waits, and then every age grows by a
\* tick at most.
LEMMA TickStep == FeedInv /\ Tick => FeedInv'
<1> SUFFICES ASSUME FeedInv, Tick PROVE FeedInv'
  OBVIOUS
<1> USE DEF Sides, None
<1>0. FeedType /\ AgeInv /\ TorqueInv /\ PreflightInv /\ Timeout \in Nat \ {0} /\ MaxAge \in Nat \ {0}
  BY FeedAssumption DEF FeedInv
<1>1. /\ node' \in NodeStates /\ node'.side = node.side /\ node'.waited <= Timeout
      /\ \/ node.pc = "sleep" /\ node'.pc = "read"
         \/ node.pc \in {"read", "send"} /\ node'.pc = node.pc /\ node'.waited = node.waited + 1 /\ Blocked
  BY <1>0 DEF Tick, NodeWaits, Blocked, FeedType, NodeStates
<1>2. /\ held' \in [Sides -> Nat \cup {None}]
      /\ \A s \in Sides : /\ held[s] = None => held'[s] = None
                          /\ held[s] # None => held'[s] # None /\ held'[s] <= held[s] + 1
  BY <1>0 DEF Tick, Older, FeedType, ReadingBound
<1>3. /\ stream' \in [Sides -> StampedReadings]
      /\ \A s \in Sides : Fresh(s)' => /\ Fresh(s) /\ stream'[s].stamp = stream[s].stamp + 1
                                       /\ stream'[s].real <= stream[s].real + 1
  <2>1. \A s \in Sides :
          stream'[s] = IF stream[s].stamp >= MaxAge THEN OldStream
                       ELSE [stamp |-> stream[s].stamp + 1,
                             real |-> Older(stream[s].real, ReadingBound)]
    BY DEF Tick
  <2>2. OldStream \in StampedReadings /\ OldStream.stamp = MaxAge + 1 /\ ReadingBound \in Nat
    BY <1>0 DEF OldStream, StampedReadings, ReadingBound
  <2>3. \A s \in Sides : stream[s].stamp \in Nat /\ stream[s].real \in Nat
    BY <1>0 DEF FeedType, StampedReadings
  <2>4. \A r \in Nat : Older(r, ReadingBound) \in Nat /\ Older(r, ReadingBound) <= r + 1
    BY <2>2 DEF Older
  <2>5. ASSUME NEW s \in Sides
        PROVE  /\ stream'[s] \in StampedReadings
               /\ Fresh(s)' => /\ Fresh(s) /\ stream'[s].stamp = stream[s].stamp + 1
                               /\ stream'[s].real <= stream[s].real + 1
    <3> HIDE DEF OldStream
    <3>1. CASE stream[s].stamp >= MaxAge
      BY <1>0, <2>1, <2>2, <3>1 DEF Fresh
    <3>2. CASE ~(stream[s].stamp >= MaxAge)
      BY <1>0, <2>1, <2>3, <2>4, <3>2 DEF Fresh, StampedReadings
    <3> QED
      BY <3>1, <3>2
  <2>6. stream' = [s \in Sides |-> stream'[s]]
    BY DEF Tick
  <2> QED
    BY <2>5, <2>6
<1>4. cached' \in [Sides -> Nat] /\ \A s \in Sides : Feeds(s) => cached'[s] = 0
  BY <1>0 DEF Tick, Older, FeedType
<1>5. arm' \in Followers /\ arm'.seq = arm.seq /\ arm'.entry = arm.entry
  BY <1>0 DEF Tick, Older, FeedType, Followers
<1>6. /\ feed' \in Feedbacks /\ feed'.side = feed.side /\ feed'.reader = feed.reader /\ feed'.last = feed.last
      /\ feed.torque = NoTorque => feed'.torque = NoTorque
      /\ feed'.torque.seq = feed.torque.seq /\ feed'.torque.age <= feed.torque.age + 1
  <2>1. CASE feed.torque = NoTorque
    <3>1. feed' = feed
      BY <2>1 DEF Tick
    <3> QED
      BY <1>0, <2>1, <3>1 DEF FeedType, Feedbacks, Torques
  <2>2. CASE feed.torque # NoTorque
    <3> DEFINE age == Older(feed.torque.age, MaxAge + Timeout)
    <3>1. feed \in Feedbacks /\ feed.torque \in Torques /\ feed.torque.age \in Nat
      BY <1>0 DEF FeedType, Feedbacks, Torques
    <3>2. age \in Nat /\ age <= feed.torque.age + 1
      BY <3>1 DEF Older
    <3>3. feed' = [feed EXCEPT !.torque.age = age]
      BY <2>2 DEF Tick
    <3> HIDE DEF age
    <3> QED
      BY <2>2, <3>1, <3>2, <3>3 DEF Feedbacks, Torques
  <2> QED
    BY <2>1, <2>2
<1>7. /\ preflight' \in Preflights
      /\ preflight'.at \in {"off", "waiting"} /\ ~(preflight'.at = "failed")
      /\ preflight'.at = "waiting" => /\ preflight.at = "waiting" /\ preflight'.outage = preflight.outage
                                      /\ preflight'.clock = preflight.clock + 1
  <2>1. CASE preflight.at = "waiting"
    BY <1>0, <2>1 DEF Tick, FeedType, Preflights
  <2>2. CASE preflight.at # "waiting"
    <3>1. preflight' = [at |-> "off", clock |-> 0, outage |-> FALSE]
      BY <2>2 DEF Tick
    <3>2. preflight' \in Preflights
      BY <3>1 DEF Preflights
    <3> QED
      BY <3>1, <3>2
  <2> QED
    BY <2>1, <2>2
<1>8. UNCHANGED <<server, linked, sent>>
  BY DEF Tick
<1>9. FeedType'
  BY <1>0, <1>1, <1>2, <1>3, <1>4, <1>5, <1>6, <1>7, <1>8 DEF FeedType
<1>10. AgeInv'
  <2>1. held[1] \in Int /\ held[2] \in Int /\ held'[1] \in Int /\ held'[2] \in Int /\ node.waited \in Nat
    BY <1>0, <1>2 DEF FeedType, NodeStates
  <2>2. \A s \in Sides : Fresh(s)' => stream'[s].real <= 4 * Timeout + stream'[s].stamp
    <3>1. \A s \in Sides : /\ stream[s].real \in Nat /\ stream[s].stamp \in Nat
                            /\ stream'[s].real \in Nat /\ stream'[s].stamp \in Nat
      BY <1>0, <1>3 DEF FeedType, StampedReadings
    <3> QED
      BY <1>0, <1>3, <3>1 DEF AgeInv
  <2> QED
    BY <1>0, <1>1, <1>2, <2>1, <2>2 DEF AgeInv
<1>11. TorqueInv'
  <2>1. feed.torque.age \in Nat /\ feed'.torque.age \in Nat /\ node.waited \in Nat
    BY <1>0, <1>6 DEF FeedType, Feedbacks, Torques, NodeStates
  <2> QED
    BY <1>0, <1>1, <1>5, <1>6, <1>8, <2>1 DEF TorqueInv
<1>12. PreflightInv'
  <2>1. SUFFICES ASSUME Undisturbed' PROVE
               /\ \A s \in Sides : Feeds(s)'
               /\ preflight'.clock <= 2
               /\ \A s \in Sides : cached'[s] = 0
               /\ preflight'.clock = 2 => node'.pc = "read" /\ node'.side = 1
    BY <1>0, <1>6, <1>7 DEF PreflightInv, Undisturbed
  <2>2. Undisturbed /\ preflight'.clock = preflight.clock + 1 /\ preflight.clock \in Nat
    BY <1>0, <1>7, <2>1 DEF Undisturbed, FeedType, Preflights
  <2>3. \A s \in Sides : Feeds(s) /\ Feeds(s)' /\ cached'[s] = 0
    BY <1>0, <1>4, <1>8, <2>2 DEF PreflightInv, Feeds
  <2>4. preflight.clock # 0 => node.pc = "sleep" /\ node.side = 1
    <3>1. SUFFICES ASSUME preflight.clock # 0 PROVE node.pc = "sleep"
      BY <1>0 DEF AgeInv
    <3>2. cached[node.side] = 0 /\ node.side # feed.side
      BY <1>0, <2>2, <3>1 DEF PreflightInv, Undisturbed, FeedType, NodeStates
    <3> QED
      BY <1>0, <1>1, <3>2 DEF Blocked, Available, TorqueInv
  <2>5. preflight.clock # 2
    <3>1. ~AllFresh
      BY <2>2 DEF Tick, PreflightWaits, Undisturbed
    <3> QED
      BY <1>0, <2>2, <2>4, <3>1 DEF PreflightInv
  <2> QED
    BY <1>0, <1>1, <2>2, <2>3, <2>4, <2>5 DEF PreflightInv
<1> QED
  BY <1>9, <1>10, <1>11, <1>12 DEF FeedInv

\* Every step of the servers, the receivers, the node, the follower, the preflight
\* and the clock keeps the invariant.
LEMMA FeedStep == FeedInv /\ [FeedNext]_feedVars => FeedInv'
<1> SUFFICES ASSUME FeedInv, [FeedNext]_feedVars PROVE FeedInv'
  OBVIOUS
<1> USE DEF Sides, None
<1>0. FeedType /\ AgeInv /\ TorqueInv /\ PreflightInv /\ Timeout \in Nat \ {0} /\ MaxAge \in Nat \ {0}
  BY FeedAssumption DEF FeedInv
<1>1. ASSUME NEW s \in Sides, ServerChanges(s) \/ Disconnect(s) PROVE FeedInv'
  <2>1. /\ UNCHANGED <<cached, node, held, stream, arm, feed, sent>>
        /\ preflight' = [preflight EXCEPT !.outage = @ \/ preflight.at = "waiting"]
    BY <1>1 DEF ServerChanges, Disconnect
  <2>2. server' \in [Sides -> {"down", "mute", "live"}]
    BY <1>0, <1>1 DEF ServerChanges, Disconnect, FeedType
  <2>3. linked' \in [Sides -> BOOLEAN]
    BY <1>0, <1>1 DEF ServerChanges, Disconnect, FeedType
  <2>4. /\ preflight' \in Preflights /\ preflight'.at = preflight.at
        /\ preflight.at = "waiting" \/ preflight.outage => preflight'.outage
    BY <1>0, <2>1, OutageFacts DEF FeedType
  <2>5. FeedType'
    BY <1>0, <2>1, <2>2, <2>3, <2>4 DEF FeedType
  <2>6. AgeInv'
    BY <1>0, <2>1 DEF AgeInv, Fresh
  <2>7. TorqueInv'
    BY <1>0, <2>1 DEF TorqueInv
  <2>8. PreflightInv'
    BY <1>0, <2>1, <2>4 DEF PreflightInv, Undisturbed
  <2> QED
    BY <2>5, <2>6, <2>7, <2>8 DEF FeedInv
<1>2. ASSUME NEW s \in Sides, Connect(s) PROVE FeedInv'
  <2>1. /\ UNCHANGED <<server, cached, node, held, stream, arm, feed, sent, preflight>>
        /\ linked' \in [Sides -> BOOLEAN] /\ \A r \in Sides : linked[r] => linked'[r]
    BY <1>0, <1>2 DEF Connect, FeedType
  <2>2. FeedType'
    BY <1>0, <2>1 DEF FeedType
  <2>3. AgeInv' /\ TorqueInv'
    BY <1>0, <2>1, SMTT(30) DEF AgeInv, Fresh, TorqueInv
  <2>4. PreflightInv'
    BY <1>0, <2>1 DEF PreflightInv, Undisturbed, Feeds, AllFresh, Fresh
  <2> QED
    BY <2>2, <2>3, <2>4 DEF FeedInv
<1>3. CASE ReadLeader
  <2>1. /\ UNCHANGED <<server, linked, cached, stream, arm, feed, sent, preflight>>
        /\ node.pc = "read" /\ cached[node.side] <= Timeout /\ cached[node.side] \in Nat /\ node.side \in Sides
        /\ node' \in NodeStates /\ node'.pc = "forward" /\ node'.side = node.side /\ node'.waited = 0
        /\ held' = [held EXCEPT ![node.side] = cached[node.side]]
    BY <1>0, <1>3 DEF ReadLeader, Available, FeedType, NodeStates
  <2>2. FeedType'
    BY <1>0, <2>1 DEF FeedType
  <2>3. AgeInv'
    <3>1. held[1] \in Int /\ held[2] \in Int /\ node.waited \in Nat /\ node.waited <= Timeout
      BY <1>0 DEF FeedType, NodeStates
    <3>2. held'[node.side] = cached[node.side] /\ \A s \in Sides \ {node.side} : held'[s] = held[s]
      BY <1>0, <2>1 DEF FeedType
    <3> QED
      BY <1>0, <2>1, <3>1, <3>2 DEF AgeInv, Fresh
  <2>4. TorqueInv'
    BY <1>0, <2>1 DEF TorqueInv
  <2>5. PreflightInv'
    <3>1. held'[node.side] # None /\ \A s \in Sides \ {node.side} : held'[s] = held[s]
      BY <1>0, <2>1 DEF FeedType
    <3> QED
      BY <1>0, <2>1, <3>1 DEF PreflightInv, Undisturbed, Feeds
  <2> QED
    BY <2>2, <2>3, <2>4, <2>5 DEF FeedInv
<1>4. CASE LeaderUnavailable
  <2>1. feed' = feed /\ feed.torque = NoTorque /\ feed.last <= arm.seq /\ sent' = sent
    BY <1>0, <1>4 DEF LeaderUnavailable, TorqueInv, FeedType, Feedbacks, Followers
  <2> QED
    BY <1>0, <1>4, <2>1, NextLeaderStep DEF LeaderUnavailable, FeedType, TorqueInv
<1>5. CASE NothingToForward
  <2>1. feed.torque = NoTorque /\ feed.last <= arm.seq /\ Reader \in Nat
    BY <1>0, <1>5 DEF NothingToForward, TorqueInv, FeedType, Feedbacks, Followers, Reader
  <2>2. /\ feed' \in Feedbacks /\ feed'.torque = NoTorque /\ feed'.side = feed.side /\ feed'.last = feed.last
        /\ feed'.reader = 0 => feed.reader = 0
    <3> HIDE DEF Reader
    <3>1. Reader = 0 => feed.reader = 0
      BY <2>1 DEF Reader
    <3> QED
      BY <1>0, <1>5, <2>1, <3>1 DEF NothingToForward, FeedType, Feedbacks
  <2> QED
    BY <1>0, <1>5, <2>1, <2>2, NextLeaderStep DEF NothingToForward, FeedType, TorqueInv
<1>6. CASE SendTorque
  <2> DEFINE t == feed.torque
  <2>1. /\ node.pc = "send" /\ t.seq \in 1 .. MaxTorques /\ t.seq <= arm.seq /\ feed.last < t.seq
        /\ feed.reader # 0 /\ feed.last \in Nat
    BY <1>0, <1>6, FeedAssumption DEF SendTorque, TorqueInv, FeedType, Feedbacks, Torques, Followers
  <2>2. /\ feed' \in Feedbacks /\ feed'.torque = NoTorque /\ feed'.side = feed.side
        /\ feed'.last = t.seq /\ feed'.reader = feed.reader
    <3>1. NoTorque \in Torques
      BY FeedAssumption DEF NoTorque, Torques
    <3>2. feed' = [feed EXCEPT !.last = t.seq, !.torque = NoTorque]
      BY <1>6 DEF SendTorque
    <3>3. feed \in Feedbacks /\ t.seq \in 0 .. MaxTorques
      BY <1>0, <2>1 DEF FeedType
    <3> HIDE DEF NoTorque, t
    <3> QED
      BY <3>1, <3>2, <3>3 DEF Feedbacks
  <2>3. sent \in [1 .. MaxTorques -> Nat] /\ sent' = [sent EXCEPT ![t.seq] = IF @ = 2 THEN @ ELSE @ + 1]
    BY <1>0, <1>6, SMTT(30) DEF SendTorque, FeedType
  <2>4. sent[t.seq] = 0 /\ \A k \in 1 .. MaxTorques : sent[k] <= IF k <= feed.last THEN 1 ELSE 0
    <3>1. \A k \in 1 .. MaxTorques : sent[k] <= IF k <= feed.last THEN 1 ELSE 0
      BY <1>0 DEF TorqueInv
    <3>2. sent[t.seq] <= 0 /\ sent[t.seq] \in Nat
      BY <2>1, <2>3, <3>1
    <3> QED
      BY <3>1, <3>2
  <2>5. /\ sent' \in [1 .. MaxTorques -> Nat]
        /\ \A k \in 1 .. MaxTorques : sent'[k] <= IF k <= t.seq THEN 1 ELSE 0
    <3> HIDE DEF t
    <3>1. sent' \in [1 .. MaxTorques -> Nat]
      BY <2>1, <2>3
    <3>2. ASSUME NEW k \in 1 .. MaxTorques PROVE sent'[k] <= IF k <= t.seq THEN 1 ELSE 0
      <4>1. CASE k = t.seq
        BY <2>1, <2>3, <2>4, <4>1
      <4>2. CASE k # t.seq
        BY <2>1, <2>3, <2>4, <4>2
      <4> QED
        BY <4>1, <4>2
    <3> QED
      BY <3>1, <3>2
  <2> QED
    BY <1>0, <1>6, <2>1, <2>2, <2>5, NextLeaderStep DEF SendTorque
<1>7. CASE SendFails
  <2>1. /\ node.pc = "send" /\ feed.last <= arm.seq /\ sent' = sent
        /\ feed.reader # 0
    BY <1>0, <1>7 DEF SendFails, TorqueInv
  <2>2. /\ feed' \in Feedbacks /\ feed'.torque = NoTorque /\ feed'.side = feed.side
        /\ feed'.last = feed.last /\ feed'.reader = feed.reader
    <3>1. NoTorque \in Torques
      BY FeedAssumption DEF NoTorque, Torques
    <3>2. feed' = [feed EXCEPT !.torque = NoTorque]
      BY <1>7 DEF SendFails
    <3> HIDE DEF NoTorque
    <3> QED
      BY <1>0, <3>1, <3>2 DEF FeedType, Feedbacks
  <2> QED
    BY <1>0, <1>7, <2>1, <2>2, NextLeaderStep DEF SendFails, FeedType, TorqueInv
<1>8. CASE TakeTorque
  <2>1. /\ UNCHANGED <<server, linked, cached, held, stream, arm, sent, preflight>>
        /\ node.pc = "forward" /\ feed.side = node.side
        /\ node' \in NodeStates /\ node'.pc = "send" /\ node'.side = node.side /\ node'.waited = 0
    BY <1>0, <1>8 DEF TakeTorque, FeedType, NodeStates
  <2>2. arm.seq \in 1 .. MaxTorques /\ arm.age \in Nat /\ arm.age <= MaxAge /\ arm.seq # feed.last
    BY <1>0, <1>8 DEF TakeTorque, Sendable, FeedType, Followers
  <2>3. Reader \in Nat \ {0}
    BY <1>0, <2>2 DEF Reader, TorqueInv, FeedType, Feedbacks, Followers
  <2>4. /\ feed' \in Feedbacks /\ feed'.side = feed.side /\ feed'.last = feed.last /\ feed'.reader # 0
        /\ feed'.torque.seq = arm.seq /\ feed'.torque.age = arm.age
    <3> DEFINE t == [seq |-> arm.seq, age |-> arm.age]
    <3>1. t \in Torques /\ t.seq = arm.seq /\ t.age = arm.age
      BY <2>2 DEF Torques
    <3>2. feed' = [feed EXCEPT !.reader = Reader, !.torque = t]
      BY <1>8 DEF TakeTorque
    <3> HIDE DEF t
    <3> QED
      BY <1>0, <2>3, <3>1, <3>2 DEF FeedType, Feedbacks
  <2>5. FeedType'
    BY <1>0, <2>1, <2>4 DEF FeedType
  <2>6. AgeInv'
    BY <1>0, <2>1 DEF AgeInv, Fresh, FeedType, NodeStates
  <2>7. TorqueInv'
    <3>1. feed.last < arm.seq
      <4>1. feed.last \in Nat
        BY <1>0 DEF FeedType, Feedbacks
      <4>2. feed.last = 0 \/ feed.last <= arm.seq
        BY <1>0 DEF TorqueInv
      <4> QED
        BY <2>2, <4>1, <4>2
    <3>2. /\ node'.pc = "send" /\ feed'.side = node'.side /\ feed'.reader # 0
          /\ feed'.last < feed'.torque.seq /\ feed'.torque.seq <= arm'.seq
          /\ feed'.torque.age <= MaxAge + node'.waited
      BY <1>0, <2>1, <2>2, <2>4, <3>1
    <3>3. arm'.seq # 0 => arm'.entry # 0
      BY <1>0, <2>1 DEF TorqueInv
    <3>4. feed'.last <= arm'.seq
      BY <1>0, <2>1, <2>2, <2>4, <3>1 DEF FeedType, Feedbacks
    <3>5. \A k \in 1 .. MaxTorques : sent'[k] <= IF k <= feed'.last THEN 1 ELSE 0
      BY <1>0, <2>1, <2>4 DEF TorqueInv
    <3> QED
      BY <3>2, <3>3, <3>4, <3>5, <2>4 DEF TorqueInv
  <2>8. PreflightInv'
    <3>1. feed.side # 0
      BY <1>0, <2>1 DEF FeedType, NodeStates
    <3> QED
      BY <1>0, <2>1, <3>1 DEF PreflightInv, Undisturbed
  <2> QED
    BY <2>5, <2>6, <2>7, <2>8 DEF FeedInv
<1>9. CASE FollowerWrites \/ FollowerStarts
  <2>1. UNCHANGED <<server, linked, cached, node, held, stream, feed, sent, preflight>>
    BY <1>9 DEF FollowerWrites, FollowerStarts
  <2>2. /\ arm' \in Followers /\ arm'.entry # 0
        /\ arm.seq <= arm'.seq \/ (feed.reader = 0 /\ arm'.seq = 0)
    <3>1. arm \in Followers /\ arm.seq \in Nat /\ arm.entry \in Nat
      BY <1>0 DEF FeedType, Followers
    <3>2. CASE FollowerWrites
      <4>1. /\ arm' = [arm EXCEPT !.seq = arm.seq + 1, !.age = 0] /\ arm.entry # 0
            /\ arm.seq + 1 \in 0 .. MaxTorques
        BY <3>1, <3>2, FeedAssumption DEF FollowerWrites
      <4>2. arm'.seq = arm.seq + 1 /\ arm'.entry = arm.entry
        BY <3>1, <4>1 DEF Followers
      <4>3. arm' \in Followers
        BY <3>1, <4>1 DEF Followers
      <4> QED
        BY <3>1, <4>1, <4>2, <4>3
    <3>3. CASE FollowerStarts /\ feed.reader # 0
      BY <3>1, <3>3 DEF FollowerStarts, Followers
    <3>4. CASE FollowerStarts /\ feed.reader = 0
      BY <3>1, <3>4, FeedAssumption DEF FollowerStarts, Followers
    <3> QED
      BY <1>9, <3>2, <3>3, <3>4
  <2>3. FeedType'
    BY <1>0, <2>1, <2>2 DEF FeedType
  <2>4. AgeInv'
    BY <1>0, <2>1 DEF AgeInv, Fresh
  <2>5. TorqueInv'
    <3>1. arm.seq \in Nat /\ arm'.seq \in Nat /\ feed.last \in Nat /\ feed.torque.seq \in Nat
      BY <1>0, <2>2, SMTT(30) DEF FeedType, Followers, Feedbacks, Torques
    <3> QED
      BY <1>0, <2>1, <2>2, <3>1 DEF TorqueInv
  <2>6. PreflightInv'
    BY <1>0, <2>1 DEF PreflightInv, Undisturbed, Feeds, AllFresh, Fresh
  <2> QED
    BY <2>3, <2>4, <2>5, <2>6 DEF FeedInv
<1>10. CASE StartPreflight \/ LeadersFresh \/ LeadersMissing
  <2>1. UNCHANGED <<server, linked, cached, node, held, stream, arm, feed, sent>>
    BY <1>10, SMTT(30) DEF StartPreflight, LeadersFresh, LeadersMissing
  <2>2. AgeInv' /\ TorqueInv'
    BY <1>0, <2>1 DEF AgeInv, Fresh, TorqueInv
  <2>3. CASE StartPreflight
    <3> DEFINE silent == \E s \in Sides : ~Feeds(s)
    <3>1. preflight' = [at |-> "waiting", clock |-> 0, outage |-> silent] /\ silent \in BOOLEAN /\ feed.side = 0
      BY <2>3 DEF StartPreflight
    <3>2. /\ preflight' \in Preflights /\ preflight'.at = "waiting" /\ preflight'.clock = 0
          /\ preflight'.outage = silent
      <4> HIDE DEF silent
      <4> QED
        BY <3>1 DEF Preflights
    <3>3. ~preflight'.outage => \A s \in Sides : Feeds(s)
      BY <3>2
    <3>4. PreflightInv'
      BY <2>1, <3>1, <3>2, <3>3 DEF PreflightInv, Undisturbed, Feeds
    <3> QED
      BY <1>0, <2>1, <2>2, <3>2, <3>4 DEF FeedInv, FeedType
  <2>4. CASE LeadersFresh
    <3>1. preflight' \in Preflights /\ preflight'.at = "passed" /\ preflight.at = "waiting"
      BY <1>0, <2>4 DEF LeadersFresh, FeedType, Preflights
    <3>2. PreflightInv'
      BY <1>0, <2>1, <3>1 DEF PreflightInv, Undisturbed
    <3> QED
      BY <1>0, <2>1, <2>2, <3>1, <3>2 DEF FeedInv, FeedType
  <2>5. CASE LeadersMissing
    <3>1. /\ preflight' \in Preflights /\ preflight'.at = "failed" /\ preflight.at = "waiting"
          /\ preflight'.outage = preflight.outage
      BY <1>0, <2>5 DEF LeadersMissing, FeedType, Preflights
    <3>2. preflight.outage
      <4>1. preflight.clock \in Nat /\ ~(preflight.clock <= 2)
        BY <1>0, <2>5, FeedAssumption DEF LeadersMissing, FeedType, Preflights
      <4> QED
        BY <1>0, <3>1, <4>1 DEF PreflightInv, Undisturbed
    <3>3. PreflightInv'
      BY <1>0, <2>1, <3>1, <3>2 DEF PreflightInv, Undisturbed
    <3> QED
      BY <1>0, <2>1, <2>2, <3>1, <3>3 DEF FeedInv, FeedType
  <2> QED
    BY <1>10, <2>3, <2>4, <2>5
<1>11. CASE UNCHANGED feedVars
  <2>1. FeedType'
    BY <1>0, <1>11 DEF feedVars, FeedType
  <2>2. AgeInv'
    BY <1>0, <1>11, SMTT(30) DEF feedVars, AgeInv, Fresh
  <2>3. TorqueInv'
    BY <1>0, <1>11 DEF feedVars, TorqueInv
  <2>4. PreflightInv'
    BY <1>0, <1>11 DEF feedVars, PreflightInv, Undisturbed, Feeds, AllFresh, Fresh
  <2> QED
    BY <2>1, <2>2, <2>3, <2>4 DEF FeedInv
<1> QED
  BY <1>1, <1>2, <1>3, <1>4, <1>5, <1>6, <1>7, <1>8, <1>9, <1>10, <1>11, TickStep
     DEF FeedNext, NodeStep

\* The node's invariant holds in every behaviour.
THEOREM FeedInductive == FeedSpec => []FeedInv
BY FeedInitInv, FeedStep, PTL DEF FeedSpec

\* A leader that a run takes for fresh was read at most four timeouts and max_age_s
\* ago, and a preflight fails only when some leader was away while it waited, for
\* every request_timeout_s, max_age_s and timeout of the preflight.
THEOREM FreshnessTheorem == FeedSpec => []FreshnessIsSound
<1>1. FeedInv => LeaderAgeBound
  <2> SUFFICES ASSUME FeedInv, NEW s \in Sides, Fresh(s) PROVE stream[s].real <= ReadingBound
    BY DEF LeaderAgeBound
  <2>1. /\ stream[s].real <= 4 * Timeout + stream[s].stamp /\ stream[s].stamp <= MaxAge
        /\ stream[s].real \in Nat /\ stream[s].stamp \in Nat
    BY DEF FeedInv, AgeInv, Fresh, FeedType, StampedReadings
  <2> QED
    BY <2>1, FeedAssumption DEF ReadingBound
<1>2. FeedInv => PreflightFailsForCause
  BY DEF FeedInv, PreflightInv, PreflightFailsForCause
<1> QED
  BY <1>1, <1>2, FeedInductive, PTL DEF FreshnessIsSound

\* No torque sample reaches a leader twice, and none that has waited for a socket
\* longer than a timeout (_forward_force_feedback), for any number of samples and a
\* follower that is replaced.
THEOREM TorqueTheorem == FeedSpec => []TorqueSentOnce
<1>1. FeedInv => TorqueSentOnce
  <2> SUFFICES ASSUME FeedInv PROVE TorqueSentOnce
    OBVIOUS
  <2>1. \A k \in 1 .. MaxTorques : sent[k] <= 1
    BY DEF FeedInv, TorqueInv, FeedType
  <2>2. feed.torque.age <= MaxAge + Timeout
    BY FeedAssumption DEF FeedInv, TorqueInv, FeedType, NodeStates, Feedbacks, Torques, NoTorque
  <2> QED
    BY <2>1, <2>2 DEF TorqueSentOnce
<1> QED
  BY <1>1, FeedInductive, PTL

=============================================================================
