----------------------------- MODULE RunControl -----------------------------
(***************************************************************************)
(* The session as a whole: the daemon, the arm processes and the consumer  *)
(* of the current run, interleaved, with processes that may be killed and  *)
(* calls that may fail at any point.                                       *)
(***************************************************************************)
EXTENDS SessionDaemon

Init == BusInit /\ ArmInit /\ ConsumerInit /\ DaemonInit

Arm(s) == ArmStep(s) /\ UNCHANGED <<consumer, daemon>>
Robot(s) == ArmEvent(s) /\ UNCHANGED <<consumer, daemon>>
Consumer == (ConsumerStep \/ ConsumerEvent) /\ UNCHANGED <<arm, daemon>>

Next ==
  \/ \E s \in Sides : Arm(s) \/ Robot(s)
  \/ Consumer
  \/ Command
  \/ ServeTick

Spec == Init /\ [][Next]_vars

\* Nobody posts the setpoints the arm tracks.
Unfed(s) == att[s] # runSeq \/ con # "serve"

\* Every process keeps running: the arm's waits end, a starved deadman fires,
\* the consumer obeys its stop event, and the daemon's tick gets past the
\* operator's commands to the consumer, the watchdog, the hardware and the
\* deadline of a queued start again and again.
SoftwareFairness ==
  /\ \A s \in Sides : /\ WF_vars(Arm(s))
                      /\ WF_vars(Unfed(s) /\ Deadman(s) /\ UNCHANGED <<consumer, daemon>>)
  /\ WF_vars(ConsumerStep /\ UNCHANGED <<arm, daemon>>)
  /\ WF_vars(ServeTick)
  /\ SF_vars(ReapConsumer) /\ SF_vars(WatchArmDropout)
  /\ SF_vars(TendArms) /\ SF_vars(AbandonPending)

\* A MoveJ that is not aborted arrives.
RobotFairness ==
  \A s \in Sides : WF_vars(ReachedTarget(s) /\ UNCHANGED <<consumer, daemon>>)

FairSpec == Spec /\ SoftwareFairness /\ RobotFairness

----------------------------------------------------------------------------
(* Safety *)

\* Every part of the session keeps its type.
TypeOK == BusTypeOK /\ ArmTypeOK /\ ConsumerTypeOK /\ DaemonTypeOK

\* The control registry never outlives its run: a manifest, and a segment under
\* a channel's name, belong to the run in flight, whatever died in between
\* ("sweep them so the next run's arms can never attach a dead channel",
\* _reap_consumer).  So the next run's create never meets a leftover segment.
ControlRegistryIsCurrent ==
  \A s \in Sides :
    /\ man[s] # NoRun => runOn /\ man[s] = runSeq /\ s \in sides /\ con # "attach"
    /\ seg[s] # NoRun => seg[s] = man[s]

\* What the daemon's gates look at shows every moving arm: the status stream
\* says control_active from the first poll of MoveJ to the end of the session.
DrivingArmIsVisible == \A s \in Sides : apc[s] \in Driving => pub[s] = "control"

\* No start passes the gates of _handle_start, and no arm node is replaced, over
\* an arm that is moving, although the gates read status streams that lag behind
\* the arms.
NoStartOverADrivingArm ==
  [][/\ dpc' = "launch" /\ dpc # "launch" => \A s \in Sides : apc[s] \notin Driving
     /\ \A s \in Sides : apc[s] \in Driving => apc'[s] # "spawned"]_vars

\* A start waits behind a live run only if that run was told to stop: nothing
\* the operator queued can wait for ever behind a healthy run.
PendingBehindStop == pending # NoStart /\ runOn => stopping

\* The queued start is the operator's last word: stop, a newer switch and a
\* start that went through all replace it (_handle_stop, _set_pending,
\* _clear_pending), so no forgotten start fires later.
QueuedStartIsWanted == pending.phase = want

\* A respawned node finds its stream names free, however its predecessor died
\* ("StreamWriter.create on the same names would then fail every respawn",
\* _sweep_node_streams).
RespawnNeverCollides == \A s \in Sides : apc[s] = "spawned" => pub[s] = "none"

\* An arm the daemon knows to be dead has no session message waiting, so its
\* automatic respawn comes back IDLE (_drain_session_q).
ReapedArmHasNoMail == \A s \in Sides : apc[s] = "reaped" => q[s] = <<>> /\ s \in armsDown

\* The watchdog's evidence is real: an arm it has seen in control in this run
\* and now sees out of it has left its control session, whatever an earlier
\* session had left in the status stream (_watch_arm_dropout).
DropoutIsReal ==
  \A s \in active : pub[s] # "control" => apc[s] \notin Session

----------------------------------------------------------------------------
(* Liveness *)

\* Once its run is over an arm leaves its control session, whether the consumer
\* posted STOP, posted it before the arm listened, or was killed.
ArmsReleased ==
  \A s \in Sides : (~runOn /\ apc[s] \in Session) ~> (runOn \/ apc[s] \notin Session)

\* A queued start is fired, refused, abandoned or cancelled; it never hangs, even
\* though firing it may queue it again.
PendingResolved == pending # NoStart ~> (pending = NoStart /\ dpc \notin {"fire", "launch"})

\* A run that is over lets go of its arms, and of the start waiting for them
\* (stop_arms, the timeouts of _control_session, _tend_pending).
RunsWindDown == ArmsReleased /\ PendingResolved

\* When the watchdog is armed, an arm that fell out of control or died stops
\* the run ("Auto-stop the run when a commanded arm falls out of control").
ArmedDropoutStopsRun ==
  \A s \in Sides :
    (runOn /\ armed /\ s \in sides /\ apc[s] \notin Session)
      ~> (~runOn \/ stopping \/ apc[s] \in Session)

----------------------------------------------------------------------------
(* What the repository says of the session and the code does not keep *)

\* "EVERY exit ... so the caller always gets the arm back IDLE": where nothing is
\* killed and no RDK call raises, a session ends in IDLE (or by reconnect_arm).
SessionEndsIdle ==
  [][\A s \in Sides : apc[s] \in Session => apc'[s] \in Session \cup {"idle", "spawned"}]_vars

=============================================================================
