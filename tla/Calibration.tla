----------------------------- MODULE Calibration -----------------------------
(***************************************************************************)
(* Measuring a leader's joint convention in the dashboard's calibration    *)
(* pane and saving it.  The solver and the home treat each joint on its    *)
(* own, so one joint is followed, any of them.  Angles are quarter turns,  *)
(* the grid of the reference poses; the leader is exact when the operator  *)
(* holds a pose right, and off by whole quarter turns when not.            *)
(***************************************************************************)
EXTENDS Integers, FiniteSets, Functions

CONSTANTS
    MisStrikes, \* quarter turns a held pose may be off by
    MaxSaves    \* bound: saves begun; the pane is left after the last

VARIABLES
    leader,  \* the joint as built: sign, offset, its targets in the poses, and its
             \* value at FACTR's model home
    file,    \* its entry in conf/factr/*.yaml
    offset, flip, samples, fit, homeRaw,  \* st.session_state of the pane
    saving,  \* apply_to_leader between its read and its os.replace: the new entry
    saves,
    struck   \* history: the poses of `samples' that were held exactly

paneVars == <<offset, flip, samples, fit, homeRaw, struck>>
calibVars == <<leader, file, paneVars, saving, saves>>

Signs == {-1, 1}
Quarters == -2..1
\* _wrap_deg
Wrap(a) == ((a + 2) % 4) - 2

\* REFERENCE_POSES, the columns of a joint: J2, J4 and J6 are like J0, each with a
\* roll pose of its own; J3 and J5 are like J1 with the target's sign turned, which
\* the leader's sign covers.
Poses == {"Straight up", "Elbow bend", "Roll"}
Column(bend, roll) ==
    [p \in Poses |-> CASE p = "Straight up" -> 0 [] p = "Elbow bend" -> bend [] p = "Roll" -> roll]
Columns == {Column(0, 1), Column(-1, -1)}

NoSamples == [p \in {} |-> 0]
NoFit == [solved |-> FALSE, suspect |-> FALSE]
\* convert_factr_to_rizon
Convert(raw, off, flipped) == Wrap((IF flipped THEN -1 ELSE 1) * (raw + off))
\* What the leader reads when the follower's joint should be at q.
Reads(q) == Wrap(leader.sign * q - leader.offset)

\* A script runs one interaction at a time.
Open == saving = {} /\ saves < MaxSaves

CalibInit ==
    /\ leader \in [sign: Signs, offset: Quarters, targets: Columns, home: {1}]
    /\ file \in [offset: {0}, flip: BOOLEAN, home: {0}]
    /\ offset = file.offset /\ flip = file.flip
    /\ samples = NoSamples /\ struck = {} /\ fit = NoFit /\ homeRaw = {}
    /\ saving = {} /\ saves = 0

----------------------------------------------------------------------------
(* solve_from_samples                                                      *)

\* solve_pose_samples pairs each sample with the target of its pose.
Pairs == [p \in DOMAIN samples |-> [read |-> samples[p], ref |-> leader.targets[p]]]
Estimates(sign) == [p \in DOMAIN Pairs |-> Wrap(sign * Pairs[p].ref - Pairs[p].read)]

\* RESIDUAL_WARN_DEG
WarnSquared == 25

\* Mean square deviation from the circular mean, in square degrees, of two or three
\* estimates that are quarter turns apart.  Two opposite ones have no mean; any
\* direction leaves at least what is given here.
Spread(est) ==
    LET n == Cardinality(DOMAIN est)
        values == Cardinality(Range(est))
        opposite == \E a, b \in Range(est): Wrap(a - b) = -2
    IN  CASE values = 1 -> 0
          [] n = 2 /\ values = 2 -> IF opposite THEN 8100 ELSE 2025
          [] n = 3 /\ values = 2 -> IF opposite THEN 10800 ELSE 1812
          [] values = 3 -> 5400

\* The circular mean is a grid value when the estimates agree; otherwise it lies
\* somewhere between them, which the model leaves open.
Means(est) == IF Cardinality(Range(est)) = 1 THEN Range(est) ELSE Quarters

\* The page flags a fit whose residual is high.
Flagged(est) == Spread(est) > WarnSquared

\* Mutant: only the configured sign is tried.
KeptSign == IF file.flip THEN -1 ELSE 1

\* The sign with the smaller residual; when the poses cannot tell, the file's.
BestSign ==
    LET spread(s) == Spread(Estimates(s))
    IN  IF spread(1) = spread(-1) THEN IF file.flip THEN -1 ELSE 1
        ELSE CHOOSE s \in Signs: spread(s) < spread(-s)

\* Solve needs two poses; offset, flip and the fit are replaced together.
Solve ==
    /\ Open /\ Cardinality(DOMAIN samples) >= 2
    /\ LET sign == BestSign
           est == Estimates(sign)
       IN  /\ flip' = (sign = -1)
           /\ offset' \in Means(est)
           /\ fit' = [solved |-> TRUE, suspect |-> Flagged(est)]
    /\ UNCHANGED <<leader, file, samples, homeRaw, saving, saves, struck>>

----------------------------------------------------------------------------
(* The pane's other controls.                                              *)

\* Capture: the leader is read while it holds the pose, more or less.
Capture(p, off) ==
    /\ Open
    /\ samples' = [q \in DOMAIN samples \cup {p} |->
                      IF q = p THEN Reads(leader.targets[p] + off) ELSE samples[q]]
    /\ struck' = IF off = 0 THEN struck \cup {p} ELSE struck \ {p}
    /\ UNCHANGED <<leader, file, offset, flip, fit, homeRaw, saving, saves>>

\* Clear keeps the offsets and the flips.
Clear ==
    /\ Open /\ samples # NoSamples
    /\ samples' = NoSamples /\ struck' = {} /\ fit' = NoFit /\ homeRaw' = {}
    /\ UNCHANGED <<leader, file, offset, flip, saving, saves>>

\* capture_joint with the link straight: offsets_from_straight_pose
CaptureJoint ==
    /\ Open /\ offset' = Wrap(-Reads(0))
    /\ UNCHANGED <<leader, file, flip, samples, fit, homeRaw, saving, saves, struck>>

Flip ==
    /\ Open /\ flip' = ~flip
    /\ UNCHANGED <<leader, file, offset, samples, fit, homeRaw, saving, saves, struck>>

\* Capture FACTR model home keeps the raw reading.
CaptureHome ==
    /\ Open /\ homeRaw' = {Reads(leader.home)}
    /\ UNCHANGED <<leader, file, offset, flip, samples, fit, saving, saves, struck>>

\* What Reset to config, and a new browser session, start from.
FromConfig ==
    /\ offset' = file.offset /\ flip' = file.flip
    /\ samples' = NoSamples /\ struck' = {} /\ fit' = NoFit /\ homeRaw' = {}
ResetToConfig == Open /\ FromConfig /\ UNCHANGED <<leader, file, saving, saves>>

----------------------------------------------------------------------------
(* Saving.                                                                 *)

\* solve_model_home, made again each time the pane is drawn.
SolveModelHome(raw) == Convert(raw, offset, flip)

\* Save is enabled with a fit and a model home ...
SaveEnabled == Open /\ fit.solved /\ homeRaw # {}

\* ... apply_to_leader reads the file, updates the leader's entry and writes it to a
\* temporary file ...
Save ==
    /\ SaveEnabled /\ saves' = saves + 1
    /\ \E raw \in homeRaw:
           saving' = {[offset |-> offset, flip |-> flip, home |-> SolveModelHome(raw)]}
    /\ UNCHANGED <<leader, file, paneVars>>

\* ... which replaces the file ...
Replace ==
    /\ saving' = {} /\ file' \in saving
    /\ UNCHANGED <<leader, paneVars, saves>>

\* ... unless the dashboard dies first, and with it the session state.
Dies == saving # {} /\ saving' = {} /\ FromConfig /\ UNCHANGED <<leader, file, saves>>

CalibNext ==
    \/ Solve \/ Clear \/ CaptureJoint \/ Flip \/ CaptureHome \/ ResetToConfig
    \/ Save \/ Replace \/ Dies
    \/ \E p \in Poses, off \in {0} \cup MisStrikes: Capture(p, off)

CalibSpec == CalibInit /\ [][CalibNext]_calibVars

----------------------------------------------------------------------------
\* From poses that were held exactly, whatever the leader's sign and offset and
\* whatever the file said: the fit is not flagged, each sample maps to its
\* target, and a joint seen at two different targets gets its true sign and
\* offset.  The solver tries both signs, wraps, and falls back to the file.
ExactPosesSolve ==
    [][struck # {} /\ DOMAIN samples = struck /\ Solve =>
        /\ ~fit'.suspect
        /\ \A p \in struck: Convert(samples[p], offset', flip') = leader.targets[p]
        /\ (\E p, q \in struck: leader.targets[p] # leader.targets[q])
           => offset' = leader.offset /\ flip' = (leader.sign = -1)]_calibVars

\* A saved entry is of one piece: if the saved convention is the leader's, the
\* saved home is the model's.  The home may be captured before the poses are
\* solved, and before the offset is captured again or the sign flipped.
SavedHomeIsConsistent ==
    [][Replace /\ file'.offset = leader.offset /\ file'.flip = (leader.sign = -1)
        => file'.home = leader.home]_calibVars

\* What the pane computes and what it saves (solve_from_samples, apply_to_leader).
CalibrationIsExact == ExactPosesSolve /\ SavedHomeIsConsistent
=============================================================================
