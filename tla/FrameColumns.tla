---------------------------- MODULE FrameColumns ----------------------------
(***************************************************************************)
(* What the numbers of a run mean on their way through it.  In a           *)
(* collection run: proprio and leader streams, the frame's state and       *)
(* action vectors, the dataset, then a replay or a taught skill, its file, *)
(* and the setpoint that repeats it.  In an evaluation run: proprio        *)
(* streams, the observation, the endpoint adapter, the server, the decoded *)
(* chunk, the setpoint and the horizon on screen.  The control flow of the *)
(* runs is in CollectionLoop, EvalLoop and SkillLoop.                      *)
(*                                                                         *)
(* A sample's values tell its stream, its index and its age apart.         *)
(***************************************************************************)
EXTENDS VectorLayout

CONSTANTS ChunkRows,  \* rows of a policy's answer
          MaxAhead    \* streams that publish once more during the run

VARIABLES
    rig,       \* the run's configuration
    newest,    \* stream -> number of its newest sample, 0 while it is dry
    stored,    \* the recorded frame, with the samples it was made of
    replayed,  \* what read_episode makes of it
    skillFile, \* the skill taught from it
    wire,      \* the request the policy server is answering: <<>> or <<vector>>
    askedOf,   \* the snapshot observed by the tick that sends it
    chunkOf,   \* history: the snapshot of the request that the newest chunk answers
    lastState, \* OpenPIEndpointAdapter._last_dfc_state
    held,      \* EvalLoop._held: side -> field -> value
    pending,   \* the rows of the chunk that are not executed yet
    horizon,   \* side -> trajectory shown, <<>> before the first
    setpoint,  \* side -> the newest setpoint vector, <<>> before the first
    by         \* history: who posted it

bookVars == <<stored, replayed, skillFile>>
evalVars == <<wire, askedOf, chunkOf, lastState, held, pending, horizon>>
postVars == <<setpoint, by>>
columnVars == <<rig, newest, bookVars, evalVars, postVars>>

Kinds == {"qpos", "qvel", "end_effector", "eef_vel", "force"}
RigSides == {{"left"}, {"left", "right"}, {"right", "aux"}}
Policies == {"hold", "native", "stock", "aloha", "acme"}

\* All arms share policy.control.  Collection records every arm.  Evaluation
\* acts on the driven arms, and on all of them when none is driven.  The servers
\* are trained on q; build_policy refuses to hold without it.
Rigs ==
    {r \in [sides : RigSides, acts : SUBSET {"left", "right", "aux"}, driven : SUBSET {"left", "right", "aux"},
            signals : {<<"q">>, <<"eef", "q">>, <<"dq">>}, kind : Kinds, cameras : BOOLEAN,
            policy : Policies \cup {"none"}] :
        /\ r.driven \subseteq r.sides
        /\ r.acts = IF r.policy = "none" \/ r.driven = {} THEN r.sides ELSE r.driven
        /\ r.kind # "qpos" => r.policy \in {"none", "hold", "stock"}
        /\ r.cameras \/ r.policy \in {"aloha", "acme"}
        /\ r.policy \in {"native", "aloha"} => r.signals = <<"q">>
        /\ r.policy \in {"hold", "acme"} => "q" \in Range(r.signals)}

NoRig == [sides |-> {}, acts |-> {}, driven |-> {}, signals |-> <<>>, kind |-> "qpos", cameras |-> FALSE, policy |-> "none"]

Collecting == rig.policy = "none"

-----------------------------------------------------------------------------
(* Streams.                                                                *)

\* FrameBuilder's images: the RGB views, whose key has the view's name only when
\* the camera has several.
Cameras == [wrist |-> {"left"}, static |-> {"left", "right", "depth"}]
RgbViews(c) == Cameras[c] \cap {"left", "right"}
ImageKey(c, v) == IF Cardinality(RgbViews(c)) = 1 THEN <<c>> ELSE <<c, v>>
Images(r) ==
    IF r.cameras THEN {[key |-> ImageKey(cv[1], cv[2]), stream |-> <<"camera", cv[1], cv[2]>>] :
                          cv \in UNION {{c} \X RgbViews(c) : c \in DOMAIN Cameras}}
    ELSE {}

StateStreams(r) == Range(StateBlocks(r))
LeaderStreams(r) == {<<f, s>> : f \in {"factr", "factr_raw"}, s \in r.acts}
ImageStreams(r) == {im.stream : im \in Images(r)}

HoldSignal(field) == [pose_d |-> "eef", q_d |-> "q"][field]
HoldStreams(r) == {<<s, HoldSignal(f)>> : s \in r.driven, f \in ActionHoldFields(r.kind)}
VizStreams(r) == {<<s, sig>> : s \in r.acts, sig \in HorizonSignals(r.kind)}

ObservedStreams(r) == StateStreams(r) \cup ImageStreams(r)
Subscribed(r) ==
    ObservedStreams(r) \cup (IF r.policy = "none" THEN LeaderStreams(r) ELSE HoldStreams(r) \cup VizStreams(r))

Ordinal(x) == CHOOSE i \in 1..7 : <<"left", "right", "aux", "q", "dq", "eef", "factr">>[i] = x
StreamCode(s) == IF s[1] \in {"factr", "factr_raw"} THEN 90 + Ordinal(s[2]) ELSE 10 * Ordinal(s[1]) + Ordinal(s[2])

\* Element k of sample n of a stream.
Value(s, n, k) == 1000 * StreamCode(s) + 10 * k + n
Sample(s, n, width) == [k \in 1..width |-> Value(s, n, k)]
Newest(s) == Sample(s, newest[s], Width(s[2]))

Publish(s) ==
    /\ newest[s] = 0 \/ (newest[s] = 1 /\ Cardinality({t \in DOMAIN newest : newest[t] > 1}) < MaxAhead)
    /\ newest' = [newest EXCEPT ![s] = @ + 1]
    /\ UNCHANGED <<rig, bookVars, evalVars, postVars>>

ColumnsInit(rigs) ==
    /\ rig \in rigs
    /\ \E dry \in SUBSET Subscribed(rig) :
          /\ Cardinality(dry) <= 1
          /\ newest = [s \in Subscribed(rig) |-> IF s \in dry THEN 0 ELSE 1]
    /\ stored = <<>> /\ replayed = <<>> /\ skillFile = <<>>
    /\ wire = <<>> /\ askedOf = <<>> /\ chunkOf = <<>> /\ lastState = <<>> /\ pending = <<>>
    /\ held = [s \in rig.driven |-> <<>>]
    /\ horizon = [s \in rig.sides |-> <<>>]
    /\ setpoint = [s \in rig.sides |-> <<>>] /\ by = "nobody"

Complete(streams) == \A s \in streams : newest[s] > 0

\* observation.state of the newest samples.
StateVector == PackState(rig, [b \in StateStreams(rig) |-> Newest(b)])

-----------------------------------------------------------------------------
(* Collection, and the readers of what it stores.                          *)

\* actions_from_leaders: the first action_dof values, and the last one.
LeaderSample(snap, s) == Sample(<<"factr", s>>, snap[<<"factr", s>>], Dof + 1)
LeaderTarget(snap, s) == SubSeq(LeaderSample(snap, s), 1, Width(ActionField(rig.kind)))
LeaderGripper(snap, s) == LeaderSample(snap, s)[Dof + 1]

\* Driven arms follow a leader that has a sample, under qpos control.
TeleopSetpoints ==
    [s \in rig.sides |->
        IF s \in rig.driven /\ newest[<<"factr", s>>] > 0 /\ rig.kind = "qpos"
        THEN PackStreamed("qpos", [q_d |-> LeaderTarget(newest, s), dq_d |-> Zeros(Dof)])
        ELSE setpoint[s]]

\* features: the column names stored with the dataset.
Features == [state |-> StateNames(rig), action |-> ActionNames(rig)]

Frame ==
    [state |-> StateVector,
     action |-> PackActions(rig, [s \in rig.acts |-> LeaderTarget(newest, s)],
                                 [s \in rig.acts |-> LeaderGripper(newest, s)]),
     images |-> [k \in {im.key : im \in Images(rig)} |->
                    newest[(CHOOSE im \in Images(rig) : im.key = k).stream]],
     names |-> Features,
     of |-> newest]

\* tick: command, then record unless a stream is dry (missing_streams, build).
CollectTick ==
    /\ Collecting /\ stored = <<>>
    /\ setpoint' = TeleopSetpoints /\ by' = "teleop"
    /\ stored' = IF Complete(Subscribed(rig)) THEN <<Frame>> ELSE <<>>
    /\ UNCHANGED <<rig, newest, replayed, skillFile, evalVars>>

\* _read_episode_arrays, skill_from_episode: measured q and the gripper's action.
QSides == {s \in NamedSides(stored[1].names.state) : StateQIndex(stored[1].names.state, s) # <<>>}
Taught ==
    [q |-> [s \in QSides |-> Taken(stored[1].state, StateQIndex(stored[1].names.state, s))],
     gripper |-> [s \in QSides \cap NamedSides(stored[1].names.action) |->
                    Taken(stored[1].action, GripperColumn(stored[1].names.action, s))]]

\* Skill.validate, on teaching, saving and loading.
ValidSkill(sk) == DOMAIN sk.q # {} /\ \A s \in DOMAIN sk.q : Len(sk.q[s]) > 0

\* Teaching writes the file.
TeachEpisode ==
    /\ stored # <<>> /\ skillFile = <<>> /\ ValidSkill(Taught)
    /\ skillFile' = <<Taught>>
    /\ UNCHANGED <<rig, newest, stored, replayed, evalVars, postVars>>

\* SkillNode: load_skill, then a setpoint for every taught side that is driven by qpos.
RepeatSkill ==
    /\ skillFile # <<>> /\ ValidSkill(skillFile[1])
    /\ rig.kind = "qpos" /\ rig.driven \cap DOMAIN skillFile[1].q # {}
    /\ setpoint' = [s \in rig.sides |->
                      IF s \in rig.driven \cap DOMAIN skillFile[1].q
                      THEN PackStreamed("qpos", [q_d |-> skillFile[1].q[s], dq_d |-> Zeros(Dof)])
                      ELSE setpoint[s]]
    /\ by' = "skill"
    /\ UNCHANGED <<rig, newest, bookVars, evalVars>>

\* read_episode: the ghost is posed where the action commands joints.
ReadEpisode ==
    /\ stored # <<>> /\ replayed = <<>>
    /\ replayed' =
          <<[real |-> [s \in QSides |-> Taken(stored[1].state, StateQIndex(stored[1].names.state, s))],
             ghost |-> [s \in {s \in QSides : CommandField(stored[1].names.action, s) = {"q_d"}} |->
                          Taken(stored[1].action, CommandIndex(stored[1].names.action, s))],
             gripper |-> [s \in NamedSides(stored[1].names.action) |->
                          Taken(stored[1].action, GripperColumn(stored[1].names.action, s))],
             images |-> stored[1].images]>>
    /\ UNCHANGED <<rig, newest, stored, skillFile, evalVars, postVars>>

-----------------------------------------------------------------------------
(* Evaluation: the policies and their servers.                             *)

\* conf/policy/pi05_aloha.yaml, the joint ALOHA lacks being the last of an arm.
Span(from, to) == [i \in 1..(to - from + 1) |-> from + i - 1]
AlohaRequest ==
    [dim |-> 2 * Dof,
     items |-> <<[kind |-> "slice", source |-> Span(1, Dof - 1), target |-> Span(1, Dof - 1)],
                 [kind |-> "slice", source |-> Span(Dof + 1, 2 * Dof - 1), target |-> Span(Dof + 1, 2 * Dof - 1)],
                 [kind |-> "constant", target |-> <<Dof, 2 * Dof>>, value |-> 0]>>]
AlohaResponse ==
    [dim |-> 2 * Dof + 2,
     items |-> <<[kind |-> "slice", source |-> Span(1, Dof - 1), target |-> Span(1, Dof - 1)],
                 [kind |-> "slice", source |-> <<Dof>>, target |-> <<Dof + 1>>],
                 [kind |-> "slice", source |-> Span(Dof + 1, 2 * Dof - 1), target |-> Span(Dof + 2, 2 * Dof)],
                 [kind |-> "slice", source |-> <<2 * Dof>>, target |-> <<2 * Dof + 2>>],
                 [kind |-> "hold", source |-> <<Dof>>, target |-> <<Dof>>],
                 [kind |-> "hold", source |-> <<2 * Dof>>, target |-> <<2 * Dof + 1>>]>>]

\* policy.qpos_slice of the ACME recipe, aligned with the arm that is driven.
AcmeSlice == StateSlice(rig, ActionSides(rig)[1], "q")

HasView(key) == \E im \in Images(rig) : im.key = key

\* encode_request: can the observation be encoded, and its state vector.
Encodes(state) ==
    CASE rig.policy \in {"native", "stock"} -> TRUE
      [] rig.policy = "aloha" -> GoodProjection(AlohaRequest, [slice |-> Len(state)]) /\ HasView(<<"static", "left">>)
      [] rig.policy = "acme" -> HasView(<<"static", "left">>)
EncodeRequest(state) ==
    CASE rig.policy \in {"native", "stock"} -> state
      [] rig.policy = "aloha" -> Project(AlohaRequest, state, <<>>)
      [] rig.policy = "acme" -> Cut(state, AcmeSlice)

\* The servers.  The native one serves deploy/openpi_dfc: its model asks for joint
\* changes of i in row i, in a padded vector.  The stock one fills every column with
\* a value of its own.  The others answer with the state they were sent.
AddState(actions, st) ==
    [p \in DOMAIN actions |->
        LET pairs == {pr \in BimanualPairs : p \in (pr[2].lo + 1)..pr[2].hi}
        IN IF pairs = {} THEN actions[p]
           ELSE LET pr == CHOOSE pr \in pairs : TRUE IN actions[p] + st[pr[1].lo + p - pr[2].lo]]
Crop(actions) == SubSeq(actions, 1, BimanualActionDim)
ServerAccepts(req) == rig.policy = "native" => Len(req) = BimanualStateDim
StockValue(p, i) == 10 * p + i
ServerRow(req, i) ==
    CASE rig.policy = "native" -> Crop(AddState([p \in 1..(BimanualActionDim + 1) |-> i], req))
      [] rig.policy = "stock" -> [p \in 1..ActionDim(rig) |-> StockValue(p, i)]
      [] rig.policy = "aloha" -> req
      [] rig.policy = "acme" -> Append(req, 0)

\* decode_actions of one row.
Decodes(row) ==
    rig.policy = "aloha" => GoodProjection(AlohaResponse, [slice |-> Len(row), hold |-> Len(lastState)])
DecodeRow(row) == IF rig.policy = "aloha" THEN Project(AlohaResponse, row, lastState) ELSE row

\* Mutant: the slices are those of a state of the driven arms alone.
SliceOfDriven(s) == StateSlice([rig EXCEPT !.sides = rig.acts], s, "q")

\* build_policy: where each side's q is in the observation.
QSlice(s) == StateSlice(rig, s, "q")

\* HoldPolicy.infer: the measured joints for a joint target, zero for the rest.
HoldAction(state) ==
    FoldLeft(LAMBDA vec, s : IF ActionField(rig.kind) = "q_d" THEN Put(vec, PrimarySlice(rig, s), Cut(state, QSlice(s))) ELSE vec,
             Zeros(ActionDim(rig)), ActionSides(rig))

-----------------------------------------------------------------------------
(* EvalLoop.tick.                                                          *)

\* _capture_holds.  (A stream that has a sample never runs dry again.)
CapturedHolds ==
    [s \in rig.driven |->
        [f \in {f \in ActionHoldFields(rig.kind) : newest[<<s, HoldSignal(f)>>] > 0} |-> Newest(<<s, HoldSignal(f)>>)]]

\* _announce_horizon, from the snapshot the policy was asked about.
Announced(rows, snap) ==
    [s \in rig.sides |->
        IF s \in rig.acts
        THEN LET bases == {sig \in HorizonSignals(rig.kind) : snap[<<s, sig>>] > 0}
                 base == IF bases = {} THEN <<>>
                         ELSE LET sig == CHOOSE sig \in bases : TRUE IN Sample(<<s, sig>>, snap[<<s, sig>>], Width(sig))
             IN ChunkTrajectory(rig.kind, [i \in DOMAIN rows |-> Cut(rows[i], PrimarySlice(rig, s))], base)
        ELSE <<>>]

\* _execute: a setpoint for every driven arm whose held fields were captured.
Executed(row, holds) ==
    [s \in rig.sides |->
        IF s \in rig.driven /\ ActionHoldFields(rig.kind) \subseteq DOMAIN holds[s]
        THEN PackAction(rig.kind, SplitAction(rig, row)[s].primary, holds[s])
        ELSE setpoint[s]]

Follow(rows, snap, holds) ==
    /\ pending' = Tail(rows) /\ chunkOf' = snap
    /\ horizon' = Announced(rows, snap)
    /\ setpoint' = Executed(rows[1], holds) /\ by' = "policy"

Observes == ~Collecting /\ pending = <<>> /\ wire = <<>> /\ Complete(ObservedStreams(rig))

AskPolicy ==
    /\ Observes /\ rig.policy # "hold"
    /\ held' = CapturedHolds
    /\ IF Encodes(StateVector)
       THEN /\ wire' = <<EncodeRequest(StateVector)>> /\ askedOf' = newest
            /\ lastState' = IF rig.policy = "acme" THEN lastState ELSE StateVector
       ELSE UNCHANGED <<wire, askedOf, lastState>>
    /\ UNCHANGED <<rig, newest, bookVars, chunkOf, pending, horizon, postVars>>

\* A server's error or a lost connection; an answer of another width ends the run.
PolicyErrs ==
    /\ wire # <<>> /\ wire' = <<>>
    /\ UNCHANGED <<rig, newest, bookVars, askedOf, chunkOf, lastState, held, pending, horizon, postVars>>

PolicyAnswers ==
    /\ wire # <<>> /\ ServerAccepts(wire[1])
    /\ \A i \in 1..ChunkRows : Decodes(ServerRow(wire[1], i))
    /\ LET rows == [i \in 1..ChunkRows |-> DecodeRow(ServerRow(wire[1], i))]
       IN /\ \A i \in 1..ChunkRows : Len(rows[i]) = ActionDim(rig)
          /\ Follow(rows, askedOf, held)
    /\ wire' = <<>>
    /\ UNCHANGED <<rig, newest, bookVars, askedOf, lastState, held>>

HoldInfers ==
    /\ Observes /\ rig.policy = "hold"
    /\ held' = CapturedHolds
    /\ Follow([i \in 1..ChunkRows |-> HoldAction(StateVector)], newest, CapturedHolds)
    /\ UNCHANGED <<rig, newest, bookVars, wire, askedOf, lastState>>

ExecuteNext ==
    /\ pending # <<>>
    /\ setpoint' = Executed(Head(pending), held) /\ by' = "policy"
    /\ pending' = Tail(pending)
    /\ UNCHANGED <<rig, newest, bookVars, wire, askedOf, chunkOf, lastState, held, horizon>>

ColumnsNext ==
    \/ \E s \in Subscribed(rig) : Publish(s)
    \/ CollectTick \/ TeachEpisode \/ RepeatSkill \/ ReadEpisode
    \/ AskPolicy \/ PolicyErrs \/ PolicyAnswers \/ HoldInfers \/ ExecuteNext

-----------------------------------------------------------------------------
(* Properties.                                                             *)

Measured(s, signal, snap) == Sample(<<s, signal>>, snap[<<s, signal>>], Width(signal))

\* What collection stores means the same to its readers, which go by column name
\* and not by the slices it was packed with (FrameBuilder.build, skill_from_episode,
\* read_episode, SkillNode): a taught skill holds each arm's measured joints and
\* its leader's gripper, a repeated one sends each arm its own joints, and a replay
\* poses arm, ghost and cameras from their own samples.
RecordedReadsBack ==
    /\ \A i \in DOMAIN skillFile : \A s \in DOMAIN skillFile[i].q :
          /\ skillFile[i].q[s] = Measured(s, "q", stored[1].of)
          /\ skillFile[i].gripper[s] = <<LeaderGripper(stored[1].of, s)>>
          /\ by = "skill" /\ s \in rig.driven =>
                SliceStreamed("qpos", setpoint[s]) = [q_d |-> Measured(s, "q", stored[1].of), dq_d |-> Zeros(Dof)]
    /\ \A i \in DOMAIN replayed :
          /\ \A s \in DOMAIN replayed[i].real : replayed[i].real[s] = Measured(s, "q", stored[1].of)
          /\ \A s \in DOMAIN replayed[i].ghost : replayed[i].ghost[s] = SubSeq(LeaderSample(stored[1].of, s), 1, Dof)
          /\ \A s \in rig.sides : replayed[i].gripper[s] = <<LeaderGripper(stored[1].of, s)>>
          /\ \A im \in Images(rig) : replayed[i].images[im.key] = stored[1].of[im.stream]

\* What row i asks of a side: the stock server's columns by name, the native server's
\* change added to the measured joints, the measured joints from the others, and
\* zero from the hold policy for what is not a joint target.
Asked(s, i) ==
    LET field == ActionField(rig.kind)
        At(k) == CHOOSE p \in DOMAIN ActionNames(rig) : ActionNames(rig)[p] = <<s, field, k>>
    IN [k \in 1..Width(field) |->
          CASE rig.policy = "stock" -> StockValue(At(k), i)
            [] rig.policy = "native" -> Measured(s, "q", chunkOf)[k] + i
            [] field = "q_d" -> Measured(s, "q", chunkOf)[k]
            [] OTHER -> 0]

\* A policy moves the joints it means to, from where they were when it was asked
\* (adapters, DFCStateActionLayout.split, pack_action, slice_streamed, _capture_holds):
\* whatever arms, control kind and endpoint the rig has, and whatever was published
\* while the server was thinking, the arm finds in its setpoint the row's value for
\* each of its own joints, every other field zero or held where it was measured,
\* and the horizon on screen ends where these rows lead.
SetpointsAsAsked ==
    by = "policy" =>
        /\ \A s \in {s \in rig.driven : setpoint[s] # <<>>} :
              \A f \in Range(Streamed(rig.kind)) :
                  SliceStreamed(rig.kind, setpoint[s])[f] =
                      IF f = ActionField(rig.kind) THEN Asked(s, ChunkRows - Len(pending))
                      ELSE IF f \in AbsoluteFields THEN Measured(s, HoldSignal(f), chunkOf) ELSE Zeros(Width(f))
        /\ \A s \in rig.acts : \A i \in DOMAIN horizon[s], k \in 1..Pos :
              horizon[s][i][k] =
                  IF HorizonSignals(rig.kind) = {} THEN Asked(s, i)[k]
                  ELSE LET sig == CHOOSE sig \in HorizonSignals(rig.kind) : TRUE
                       IN Measured(s, sig, chunkOf)[k] + FoldLeft(+, 0, [j \in 1..i |-> Asked(s, j)[k]])

\* HoldPolicy's docstring says "Stand-still policy: hold the current configuration".
\* Refuted under end_effector control, where its zeros are a pose to move to.
HoldStandsStill ==
    by = "policy" /\ rig.policy = "hold" /\ ActionField(rig.kind) \in AbsoluteFields =>
        \A s \in rig.driven : SliceStreamed(rig.kind, setpoint[s])[ActionField(rig.kind)] # Zeros(Width(ActionField(rig.kind)))

\* collection/features.py says "action - the teleop command: per arm, the converted
\* Rizon joint targets (q_d, dof values) plus the leader's trailing gripper scalar",
\* and configs.py "Collection recording remains controller-independent".  Refuted:
\* the columns have the name and the width of policy.control's primary field.
ActionsAreJointTargets ==
    \A i \in DOMAIN stored : \A s \in rig.sides :
        \A k \in 1..Dof : \E p \in DOMAIN stored[i].action :
            ActionNames(rig)[p] = <<s, "q_d", k>> /\ stored[i].action[p] = LeaderSample(stored[i].of, s)[k]
=============================================================================
