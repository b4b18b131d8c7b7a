----------------------------- MODULE Consumers -----------------------------
(***************************************************************************)
(* Runs of the three consumers, one after another in one session: the life *)
(* of the process (RunConsumer) around the loop of its kind, and what is   *)
(* left from run to run: the dataset on disk, and the streams a consumer   *)
(* owns in the session's telemetry registry (horizons, policy comm), whose *)
(* names are the same in every run.                                        *)
(***************************************************************************)
EXTENDS CollectionLoop, EvalLoop, SkillLoop

VARIABLES
  kind,      \* the node of the current run
  ready,     \* the leader preflight of a collection is passed
  own,       \* consumer-owned streams whose segment exists
  mine,      \* those the current process created
  killed     \* history: a consumer was killed in this session

run == <<kind, ready, own, mine, killed>>
vars == <<bus, consumer, collection, disk, rollout, replay, run>>
loops == <<collection, disk, rollout, replay>>

Kinds == {"collection", "eval", "skill"}

Init ==
  /\ BusInit /\ ConsumerInit /\ CollectionInit /\ EvalInit /\ SkillInit
  /\ kind = "none" /\ ready = FALSE /\ own = {} /\ mine = {} /\ killed = FALSE

\* The streams of a node besides its channels: a horizon for every arm it
\* predicts (all of them in a dry run, none under force control), and the comm.
Streams ==
  CASE kind = "eval" -> ((IF sides = {} THEN Arms ELSE sides) \ Force) \cup {"policy_comm"}
    [] kind = "skill" -> sides
    [] OTHER -> {}

\* The process ends: what is in shared memory and on disk stays.
Gone ==
  /\ CollectionGone /\ EvalGone /\ SkillGone
  /\ ready' = FALSE /\ mine' = {} /\ UNCHANGED <<kind, disk>>

----------------------------------------------------------------------------
(* The life of a consumer *)

\* The daemon spawns the node of a run (_handle_start).
Start(k, drive) ==
  /\ con = "none" /\ runSeq < MaxRuns
  /\ Spawn(drive, drive)
  /\ kind' = k /\ ready' = (k # "collection")
  /\ UNCHANGED <<bus, loops, own, mine, killed>>

\* The sides each node may drive; an evaluation may be a dry run.
Drives(k) ==
  CASE k = "collection" -> {Sides}
    [] k = "eval" -> {{}, Sides}
    [] k = "skill" -> (SUBSET Joint) \ {{}}

Attach ==
  /\ AttachTelemetry \/ AttachAborted \/ AttachTimeout
  /\ UNCHANGED <<loops, run>>

\* wait_leaders_fresh: every leader is fresh, or a stop ends the wait.
LeadersFresh ==
  /\ con = "open" /\ ~ready
  /\ ready' = TRUE
  /\ UNCHANGED <<bus, consumer, loops, kind, own, mine, killed>>

\* FactrError: no channel was opened yet.
LeadersMissing ==
  /\ con = "open" /\ ~ready /\ ~stopping
  /\ Crash /\ Gone /\ UNCHANGED <<own, killed>>

Open ==
  /\ ready /\ ((\E s \in Sides : OpenChannels(s)) \/ Serve)
  /\ cpc' = IF con' = "serve" /\ kind = "collection" THEN "recorder" ELSE cpc
  /\ UNCHANGED <<paced, schema, warm, last, posted, frame, buf, frames, take, done, keys,
                 batch, pressed, disk, rollout, replay, run>>

\* StreamWriter.create, one stream after another, before the try.
CreateStream(n) ==
  /\ con = "serve" /\ n \in Streams \ mine
  /\ IF n \in own
     THEN Crash /\ Gone /\ UNCHANGED own
     ELSE /\ own' = own \cup {n} /\ mine' = mine \cup {n}
          /\ UNCHANGED <<bus, consumer, loops, kind, ready>>
  /\ UNCHANGED killed

\* The node enters its try: EvalNode builds the policy, SkillNode its loop.
EnterTry ==
  /\ con = "serve" /\ kind \in {"eval", "skill"} /\ mine = Streams
  /\ epc = "out" /\ kpc = "out"
  /\ epc' = IF kind = "eval" THEN "connect" ELSE "out"
  /\ kpc' = IF kind = "skill" THEN "converge" ELSE "out"
  /\ UNCHANGED <<bus, consumer, collection, disk, http, dry, policy, req, errs, held, chunk,
                 act, steps, clock, pos, run>>

\* The streams of this process are unlinked and their manifests removed.
ReleaseStreams == own' = own \ mine

\* The finally of the node: its streams, then STOP.
Release ==
  /\ con = "saving" /\ mine # {}
  /\ ReleaseStreams /\ mine' = {}
  /\ UNCHANGED <<bus, consumer, loops, kind, ready, killed>>

HandBack ==
  /\ mine = {} /\ (kind = "collection" => cpc = "closed")
  /\ StopArms
  /\ UNCHANGED <<loops, run>>

Exit == Close /\ Gone /\ UNCHANGED <<own, killed>>

\* SIGKILL, from the daemon's escalation or from outside.
KillConsumer == Crash /\ Gone /\ killed' = TRUE /\ UNCHANGED own

\* _reap_consumer: the control registry is swept, the telemetry registry is not;
\* what the channels held is of no further use.
Reap ==
  /\ con = "down"
  /\ man' = [s \in Sides |-> NoRun]
  /\ seg' = [s \in Sides |-> IF man[s] # NoRun THEN NoRun ELSE seg[s]]
  /\ con' = "none" /\ sides' = {} /\ watched' = {} /\ stopping' = FALSE /\ kind' = "none"
  /\ sp' = [n \in Runs |-> {}] /\ stp' = [n \in Runs |-> {}]
  /\ UNCHANGED <<q, pub, runSeq, loops, ready, own, mine, killed>>

----------------------------------------------------------------------------
(* The world around it *)

\* The stop command, a switch, or the operator's Ctrl-C.
StopRequested ==
  /\ con \notin {"none", "down"} /\ ~stopping
  /\ stopping' = TRUE
  /\ UNCHANGED <<con, runSeq, sides, watched, bus, loops, run>>

\* The arms publish their streams.
HardwareUp ==
  /\ \E s \in Sides : pub[s] = "none"
  /\ pub' = [s \in Sides |-> "idle"]
  /\ UNCHANGED <<q, channels, consumer, loops, run>>

\* The last stream of the observation gets its first sample.
WarmUp ==
  /\ con = "serve" /\ ((cpc = "top" /\ ~warm) \/ (epc = "top" /\ dry))
  /\ warm' = (cpc = "top") /\ dry' = (epc # "top")
  /\ UNCHANGED <<cpc, paced, schema, last, posted, frame, buf, frames, take, done, keys,
                 batch, pressed, disk, epc, http, policy, req, errs, held, chunk, act, steps,
                 replay, consumer, bus, run>>

----------------------------------------------------------------------------

Collect == CollectionStep /\ UNCHANGED <<rollout, replay, run>>
RollOut == EvalStep /\ UNCHANGED <<collection, disk, replay, run>>
Repeat == SkillStep /\ UNCHANGED <<collection, disk, rollout, run>>

\* What the process does by itself.
Process ==
  \/ Attach \/ LeadersFresh \/ Open \/ (\E n \in Streams : CreateStream(n)) \/ EnterTry
  \/ Collect \/ RollOut \/ Repeat
  \/ Release \/ HandBack \/ Exit

Environment ==
  \/ \E k \in Kinds : \E drive \in Drives(k) : Start(k, drive)
  \/ StopRequested \/ HardwareUp \/ WarmUp \/ LeadersMissing \/ KillConsumer \/ Reap
  \/ CollectionEvent /\ UNCHANGED <<rollout, replay, run>>
  \/ EvalEvent /\ UNCHANGED <<collection, disk, replay, run>>
  \/ SkillEvent /\ UNCHANGED <<collection, disk, rollout, run>>

Next == Process \/ Environment
Spec == Init /\ [][Next]_vars

\* The process runs, LeRobot's calls return, and the daemon reaps.
FairSpec == Spec /\ WF_vars(Process) /\ WF_vars(Reap)

----------------------------------------------------------------------------
(* Properties *)

\* Every part of a consumer keeps its type.
TypeOK ==
  /\ BusTypeOK /\ ConsumerTypeOK /\ CollectionTypeOK /\ EvalTypeOK /\ SkillTypeOK
  /\ kind \in Kinds \cup {"none"} /\ ready \in BOOLEAN /\ killed \in BOOLEAN
  /\ own \subseteq Arms \cup {"policy_comm"} /\ mine \subseteq own

\* What save_episode writes is one whole take: the frames the loop counted since
\* the last key that ended or discarded one, and never an empty episode,
\* whatever keys arrived in one batch (CollectionLoop.run, _save).
EpisodesAreWhole ==
  cpc \in {"save", "write"} => frames > 0 /\ buf = [n |-> frames, takes |-> {take}]

\* Recorded episodes are never deleted by a later run, nor mixed with another
\* rig's, whatever runs were killed, refused or configured in between ("recorded
\* episodes are never deleted on the recorder's own initiative"); a dataset
\* whose info.json was torn by a kill or a failed write is the exception.
EpisodesAreKept ==
  [][/\ disk'.n < disk.n => disk.info = "torn"
     /\ disk'.of \subseteq {disk'.feat}]_vars

\* A recorded action is what the arm was sent in that tick, and an arm whose
\* leader never gave a sample is sent nothing ("recorded (zeros, above) but
\* NEVER commanded", CollectionLoop.tick).
RecordedIsCommanded ==
  cpc # "out" =>
    \A s \in sides \cap Joint :
      /\ buf.n > 0 => frame[s] = posted[s]
      /\ s \in sp[runSeq] <=> posted[s] # Zero

\* A saved episode is one take of what the arms were sent (CollectionLoop).
EpisodesAreTrue == TypeOK /\ EpisodesAreWhole /\ RecordedIsCommanded

\* A rollout executes the rows of the newest request's answer, in order from
\* the first and no further than replan_steps; an answer that came too late is
\* never taken for the answer to a later request (WebsocketTransport.infer,
\* EvalLoop.tick).
ActionsFollowTheirRequest ==
  [][act' \notin {act, NoAction} =>
       /\ act'[1] = req
       /\ act'[2] = (IF act[1] = req THEN act[2] + 1 ELSE 1)
       /\ Replan > 0 => act'[2] <= Replan]_vars

\* A replay never goes back to an earlier frame and ends by itself only with the
\* last frame posted, however late its passes are (SkillLoop.run).
ReplayRunsForward ==
  [][/\ pos' # NoFrame => pos' >= pos
     /\ kpc = "over" => pos = NumFrames - 1]_vars

\* A stop ends the run, wherever it finds it: attaching, connecting, waiting for
\* an answer, between two keys, or saving; and a run that ends in any other way
\* than by SIGKILL leaves no stream of its own behind (EvalNode.run, SkillNode.run).
StopEndsRun ==
  /\ stopping ~> con = "none"
  /\ [](con = "none" /\ ~killed => own = {})

----------------------------------------------------------------------------
(* What the repository says of the runs and the code does not keep *)

\* "Telemetry streams (``streams/``) are untouched -- their producers are alive
\* and own them" (cleanup_sub): after the sweep of a dead consumer no stream of
\* it is left.
SweptStreamsHaveProducers == con = "none" => own = {}

=============================================================================
