----------------------------- MODULE LeaderFeed -----------------------------
(***************************************************************************)
(* The FACTR node: one receiver thread per leader keeps the newest reading  *)
(* of a WebSocket; poll goes through the leaders one after the other, waits *)
(* for a reading that is young enough, forwards the follower's external     *)
(* torque, and the loop stamps and writes what it collected only when every *)
(* leader has had its turn.  Readers judge a leader by the stamp.           *)
(*                                                                         *)
(* Time passes in ticks of a fraction of request_timeout_s.  A live leader  *)
(* sends several frames in a tick, and whatever the node can do without     *)
(* waiting it does before the next tick; its pause between two polls ends   *)
(* with the tick.                                                           *)
(***************************************************************************)
EXTENDS Integers

CONSTANTS Timeout,         \* request_timeout_s, in ticks
          MaxAge,          \* factr.max_age_s, in ticks
          MaxTorques,      \* samples a follower writes to one segment
          PreflightTicks   \* the run's timeout for wait_leaders_fresh

\* The preflight lasts for at least two polls (attach_timeout_s is 10 s, a request's
\* timeout half a second).
ASSUME FeedAssumption ==
    /\ Timeout \in Nat \ {0} /\ MaxAge \in Nat \ {0}
    /\ MaxTorques \in Nat /\ PreflightTicks \in Nat \ {0, 1}

Sides == 1..2              \* in the order of cfg.servers
MaxFollowers == 2          \* the follower's node is replaced once

VARIABLES server,   \* server[s]: "down" (refuses), "mute" (no usable frame) or "live"
          linked,   \* linked[s]: does _ws hold a connection?
          cached,   \* cached[s]: age of _latest_joint_pos
          node,     \* [pc, side, waited]: where the node's loop is
          held,     \* held[s]: age of the reading in the sample of this poll, or None
          stream,   \* stream[s]: newest sample of factr/<side>: age of its stamp and of its reading
          arm,      \* [entry, seq, age]: the follower's current segment, and the newest
                    \* sample of the segment that is read (until then, of the current one)
          feed,     \* [side, reader, last, torque]: the feedback of the side that has a follower (0: none)
          sent,     \* how often each torque sample was sent
          preflight \* [at, clock, outage] of wait_leaders_fresh

feedVars == <<server, linked, cached, node, held, stream, arm, feed, sent, preflight>>

None == -1
\* A reading waits in the cache, then behind its own torque, the other leader's
\* reading and the other leader's torque, before it is stamped.
ReadingBound == 4 * Timeout + MaxAge
Older(age, cap) == IF age > cap THEN age ELSE age + 1
OldReading == Timeout + 1
OldStream == [stamp |-> MaxAge + 1, real |-> ReadingBound + 1]
NoTorque == [seq |-> 0, age |-> 0]

FeedInit ==
    /\ server \in [Sides -> {"down", "live"}]
    /\ linked = [s \in Sides |-> FALSE]
    /\ cached = [s \in Sides |-> OldReading]
    /\ node = [pc |-> "read", side |-> 1, waited |-> 0]
    /\ held = [s \in Sides |-> None]
    /\ stream = [s \in Sides |-> OldStream]
    /\ arm = [entry |-> 0, seq |-> 0, age |-> 0]
    /\ \E s \in Sides \cup {0}: feed = [side |-> s, reader |-> 0, last |-> 0, torque |-> NoTorque]
    /\ sent = [k \in 1..MaxTorques |-> 0]
    /\ preflight = [at |-> "off", clock |-> 0, outage |-> FALSE]

\* --------------------------------------------------------------- the leaders

Feeds(s) == server[s] = "live" /\ linked[s]

ServerChanges(s) ==
    /\ \E v \in {"down", "mute", "live"} \ {server[s]}: server' = [server EXCEPT ![s] = v]
    /\ preflight' = [preflight EXCEPT !.outage = @ \/ preflight.at = "waiting"]
    /\ UNCHANGED <<linked, cached, node, held, stream, arm, feed, sent>>

\* _receive_loop: connect, publish the socket, and hand on the frames until one
\* is refused or the connection ends; then start again.
Connect(s) ==
    /\ ~linked[s] /\ server[s] # "down"
    /\ linked' = [linked EXCEPT ![s] = TRUE]
    /\ UNCHANGED <<server, cached, node, held, stream, arm, feed, sent, preflight>>

\* _handle_stream_frame raises for a frame of another side, an unknown type or a
\* wrong shape, and the finally clause drops the socket.
Disconnect(s) ==
    /\ linked[s] /\ server[s] # "live"
    /\ linked' = [linked EXCEPT ![s] = FALSE]
    /\ preflight' = [preflight EXCEPT !.outage = @ \/ preflight.at = "waiting"]
    /\ UNCHANGED <<server, cached, node, held, stream, arm, feed, sent>>

\* ------------------------------------------------------------------ the node

\* get_joint_positions: is the cached reading young enough to be returned?
Available(s) == cached[s] <= Timeout

\* send_force_feedback waits for a socket, get_joint_positions for a reading.
Blocked ==
    /\ node.waited < Timeout
    /\ \/ node.pc = "read" /\ ~Available(node.side)
       \/ node.pc = "send" /\ ~linked[node.side]

\* Mutant: the sample of the previous poll is not dropped.
PublishAgain(sample) ==
    /\ stream' = [s \in Sides |-> IF sample[s] = None THEN stream[s]
                                  ELSE [stamp |-> 0, real |-> sample[s]]]
    /\ held' = sample

\* StreamProducerNode.run: one stamp for everything that poll collected.
Publish(sample) ==
    /\ stream' = [s \in Sides |-> IF sample[s] = None THEN stream[s]
                                  ELSE [stamp |-> 0, real |-> sample[s]]]
    /\ held' = [s \in Sides |-> None]

\* poll goes on to the next leader; after the last one the loop writes and sleeps.
NextLeader(sample) ==
    IF node.side = 1
    THEN /\ node' = [pc |-> "read", side |-> 2, waited |-> 0]
         /\ held' = sample
         /\ UNCHANGED stream
    ELSE /\ node' = [pc |-> "sleep", side |-> 1, waited |-> 0]
         /\ Publish(sample)

ReadLeader ==
    /\ node.pc = "read" /\ Available(node.side)
    /\ held' = [held EXCEPT ![node.side] = cached[node.side]]
    /\ node' = [node EXCEPT !.pc = "forward", !.waited = 0]
    /\ UNCHANGED <<server, linked, cached, stream, arm, feed, sent, preflight>>

\* Mutant: an unreachable leader costs the whole poll.
DropPoll ==
    /\ node.pc = "read" /\ ~Available(node.side) /\ node.waited = Timeout
    /\ NextLeader([s \in Sides |-> None])
    /\ UNCHANGED <<server, linked, cached, arm, feed, sent, preflight>>

\* No reading before the deadline: FactrError, and poll leaves the side out.
LeaderUnavailable ==
    /\ node.pc = "read" /\ ~Available(node.side) /\ node.waited = Timeout
    /\ NextLeader(held)
    /\ UNCHANGED <<server, linked, cached, arm, feed, sent, preflight>>

\* --------------------------------------------------------- the torque feedback

\* The reader is attached when the follower's entry first shows, and kept.
Reader == IF feed.reader # 0 THEN feed.reader ELSE arm.entry

\* _forward_force_feedback: a sample that is young and was not sent yet.
Sendable == arm.seq # 0 /\ arm.age <= MaxAge /\ arm.seq # feed.last

NothingToForward ==
    /\ node.pc = "forward"
    /\ ~(feed.side = node.side /\ Sendable)
    /\ feed' = IF feed.side = node.side THEN [feed EXCEPT !.reader = Reader] ELSE feed
    /\ NextLeader(held)
    /\ UNCHANGED <<server, linked, cached, arm, sent, preflight>>

TakeTorque ==
    /\ node.pc = "forward" /\ feed.side = node.side /\ Sendable
    /\ feed' = [feed EXCEPT !.reader = Reader,
                            !.torque = [seq |-> arm.seq, age |-> arm.age]]
    /\ node' = [node EXCEPT !.pc = "send", !.waited = 0]
    /\ UNCHANGED <<server, linked, cached, held, stream, arm, sent, preflight>>

\* Mutant: what was sent is not recorded.
SendUnrecorded ==
    LET t == feed.torque
    IN  /\ node.pc = "send" /\ linked[node.side]
        /\ sent' = [sent EXCEPT ![t.seq] = IF @ = 2 THEN @ ELSE @ + 1]
        /\ feed' = [feed EXCEPT !.torque = NoTorque]
        /\ NextLeader(held)
        /\ UNCHANGED <<server, linked, cached, arm, preflight>>

\* Only a send that did not raise records the sample as sent.
SendTorque ==
    LET t == feed.torque
    IN  /\ node.pc = "send" /\ linked[node.side]
        /\ sent' = [sent EXCEPT ![t.seq] = IF @ = 2 THEN @ ELSE @ + 1]
        /\ feed' = [feed EXCEPT !.last = t.seq, !.torque = NoTorque]
        /\ NextLeader(held)
        /\ UNCHANGED <<server, linked, cached, arm, preflight>>

SendFails ==
    /\ node.pc = "send"
    /\ \/ ~linked[node.side] /\ node.waited = Timeout
       \/ linked[node.side] /\ server[node.side] = "down"
    /\ feed' = [feed EXCEPT !.torque = NoTorque]
    /\ NextLeader(held)
    /\ UNCHANGED <<server, linked, cached, arm, sent, preflight>>

\* The follower's own node, and its replacement by the daemon.  What the new
\* process writes is not seen through a reader of the old segment.
FollowerWrites ==
    /\ arm.entry # 0 /\ Reader = arm.entry /\ arm.seq < MaxTorques
    /\ arm' = [arm EXCEPT !.seq = @ + 1, !.age = 0]
    /\ UNCHANGED <<server, linked, cached, node, held, stream, feed, sent, preflight>>

FollowerStarts ==
    /\ feed.side # 0 /\ arm.entry < MaxFollowers
    /\ arm' = IF feed.reader # 0 THEN [arm EXCEPT !.entry = @ + 1]
              ELSE [entry |-> arm.entry + 1, seq |-> 0, age |-> 0]
    /\ UNCHANGED <<server, linked, cached, node, held, stream, feed, sent, preflight>>

\* ------------------------------------------------------------- the run's side

\* fresh_leader_positions omits a leader whose newest stamp is too old.
Fresh(s) == stream[s].stamp <= MaxAge
AllFresh == \A s \in Sides: Fresh(s)

\* Bound: runs are started in the instances without a follower.
StartPreflight ==
    /\ feed.side = 0
    /\ preflight.at = "off"
    /\ preflight' = [at |-> "waiting", clock |-> 0, outage |-> \E s \in Sides: ~Feeds(s)]
    /\ UNCHANGED <<server, linked, cached, node, held, stream, arm, feed, sent>>

LeadersFresh ==
    /\ preflight.at = "waiting" /\ AllFresh
    /\ preflight' = [preflight EXCEPT !.at = "passed"]
    /\ UNCHANGED <<server, linked, cached, node, held, stream, arm, feed, sent>>

LeadersMissing ==
    /\ preflight.at = "waiting" /\ ~AllFresh /\ preflight.clock > PreflightTicks
    /\ preflight' = [preflight EXCEPT !.at = "failed"]
    /\ UNCHANGED <<server, linked, cached, node, held, stream, arm, feed, sent>>

\* ------------------------------------------------------------------------ time

NodeWaits == node.pc = "sleep" \/ Blocked
PreflightWaits ==
    preflight.at = "waiting" => ~AllFresh /\ preflight.clock <= PreflightTicks

Tick ==
    /\ NodeWaits /\ PreflightWaits
    /\ cached' = [s \in Sides |-> IF Feeds(s) THEN 0 ELSE Older(cached[s], Timeout)]
    /\ node' = IF node.pc = "sleep" THEN [node EXCEPT !.pc = "read"]
               ELSE [node EXCEPT !.waited = @ + 1]
    /\ held' = [s \in Sides |-> IF held[s] = None THEN None ELSE Older(held[s], ReadingBound)]
    /\ stream' = [s \in Sides |-> IF stream[s].stamp >= MaxAge THEN OldStream
                                  ELSE [stamp |-> stream[s].stamp + 1,
                                        real |-> Older(stream[s].real, ReadingBound)]]
    /\ arm' = IF arm.seq = 0 THEN arm ELSE [arm EXCEPT !.age = Older(@, MaxAge)]
    /\ feed' = IF feed.torque = NoTorque THEN feed
               ELSE [feed EXCEPT !.torque.age = Older(@, MaxAge + Timeout)]
    /\ preflight' = IF preflight.at = "waiting" THEN [preflight EXCEPT !.clock = @ + 1]
                    ELSE [at |-> "off", clock |-> 0, outage |-> FALSE]
    /\ UNCHANGED <<server, linked, sent>>

NodeStep ==
    \/ ReadLeader \/ LeaderUnavailable
    \/ NothingToForward \/ TakeTorque \/ SendTorque \/ SendFails

FeedNext ==
    \/ \E s \in Sides: ServerChanges(s) \/ Connect(s) \/ Disconnect(s)
    \/ NodeStep
    \/ FollowerWrites \/ FollowerStarts
    \/ StartPreflight \/ LeadersFresh \/ LeadersMissing
    \/ Tick

\* The node's process and its receiver threads are scheduled, and time passes
\* when the node waits.
FeedFairness ==
    /\ WF_feedVars(NodeStep \/ Tick)
    /\ \A s \in Sides: WF_feedVars(Connect(s)) /\ WF_feedVars(Disconnect(s))
    /\ WF_feedVars(LeadersFresh \/ LeadersMissing)

FeedSpec == FeedInit /\ [][FeedNext]_feedVars /\ FeedFairness

\* ------------------------------------------------------------------ properties

\* fresh_leader_positions judges by the stamp, which is made after the last
\* leader's turn: the reading itself may be older, but never by more than the
\* age the cache allows and the three waits that may follow it.
LeaderAgeBound == \A s \in Sides: Fresh(s) => stream[s].real <= ReadingBound

\* "Samples are latest-wins and sent once each": no torque reaches the leader
\* twice, and none that has waited for a socket longer than one timeout.
TorqueSentOnce ==
    /\ \A k \in 1..MaxTorques: sent[k] <= 1
    /\ feed.torque.age <= MaxAge + Timeout

\* wait_leaders_fresh refuses a run only when some leader was unreachable,
\* silent or garbled at some time since the run was asked for.
PreflightFailsForCause == preflight.at = "failed" => preflight.outage

\* The readers' freshness test errs on neither side by more than the node's waits
\* (fresh_leader_positions, wait_leaders_fresh).
FreshnessIsSound == LeaderAgeBound /\ PreflightFailsForCause

\* A leader that stays up is fresh again and again, whatever the other one
\* does; once both stay up, both stay fresh.
LeadersRecover ==
    /\ \A s \in Sides: <>[](server[s] = "live") => []<>Fresh(s)
    /\ <>[](\A s \in Sides: server[s] = "live") => <>[]AllFresh

\* Refuted: a leader that stays up stays fresh while the other one is down.
PerSideTolerant ==
    \A s \in Sides: <>[](server[s] = "live") => <>[]Fresh(s)
=============================================================================
