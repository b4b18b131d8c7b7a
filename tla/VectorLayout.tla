---------------------------- MODULE VectorLayout ----------------------------
(***************************************************************************)
(* DFCStateActionLayout and the vectors built with it: the state and       *)
(* action vectors of a frame, the column names stored with a dataset, the  *)
(* setpoint vector of a control channel, and the index projections of a    *)
(* policy endpoint.                                                        *)
(*                                                                         *)
(* A rig r is a record: sides (its arms), acts (the sides of the action    *)
(* vector), signals (task.state_signals) and kind (policy.control.kind).   *)
(* A column name is a tuple, "left.q.3" being <<"left", "q", 3>>.  Columns *)
(* are numbered from 1, and a slice is its columns lo+1 .. hi.             *)
(***************************************************************************)
EXTENDS Integers, Sequences, FiniteSets, SequencesExt

CONSTANTS Dof,  \* joints of an arm (7)
          Pos   \* coordinates of a position (3)

ASSUME VectorSizes == Dof \in Nat \ {0} /\ Pos \in Nat \ {0}

Order == <<"left", "right", "aux">>
SortedSides(S) == SelectSeq(Order, LAMBDA s : s \in S)

\* arm.streams and control.command: a pose is a position and a quaternion.
Width(field) ==
    CASE field \in {"q", "dq", "q_d", "dq_d"} -> Dof
      [] field \in {"eef", "pose_d"} -> 2 * Pos + 1
      [] field \in {"twist_d", "wrench_d"} -> 2 * Pos

-----------------------------------------------------------------------------
(* Vectors and slices.                                                     *)

Zeros(n) == [p \in 1..n |-> 0]
Cut(vec, s) == SubSeq(vec, s.lo + 1, s.hi)
Put(vec, s, vals) == [p \in DOMAIN vec |-> IF p \in (s.lo + 1)..s.hi THEN vals[p - s.lo] ELSE vec[p]]

\* Blocks of the given widths, one after the other.
Consecutive(widths) ==
    [i \in DOMAIN widths |->
        LET lo == FoldLeft(+, 0, SubSeq(widths, 1, i - 1)) IN [lo |-> lo, hi |-> lo + widths[i]]]

-----------------------------------------------------------------------------
(* control/channel.py: the fields of a control kind.                       *)

ActionField(kind) ==
    [qpos |-> "q_d", qvel |-> "dq_d", end_effector |-> "pose_d",
     eef_vel |-> "twist_d", force |-> "wrench_d"][kind]

\* ControlCfg.streamed of conf/control.
Streamed(kind) ==
    [qpos |-> <<"q_d", "dq_d">>, qvel |-> <<"dq_d">>, end_effector |-> <<"pose_d", "twist_d">>,
     eef_vel |-> <<"twist_d">>, force |-> <<"wrench_d", "pose_d">>][kind]

AbsoluteFields == {"q_d", "pose_d"}
ActionHoldFields(kind) == (Range(Streamed(kind)) \cap AbsoluteFields) \ {ActionField(kind)}

StreamedLayout(kind) == Consecutive([i \in DOMAIN Streamed(kind) |-> Width(Streamed(kind)[i])])

PackStreamed(kind, fields) == FlattenSeq([i \in DOMAIN Streamed(kind) |-> fields[Streamed(kind)[i]]])

SliceStreamed(kind, vec) ==
    [f \in Range(Streamed(kind)) |->
        Cut(vec, StreamedLayout(kind)[CHOOSE i \in DOMAIN Streamed(kind) : Streamed(kind)[i] = f])]

\* One setpoint of a policy's action: what is not the primary field is held or zero.
PackAction(kind, primary, holds) ==
    PackStreamed(kind, [f \in Range(Streamed(kind)) |->
        IF f = ActionField(kind) THEN primary
        ELSE IF f \in AbsoluteFields THEN holds[f] ELSE Zeros(Width(f))])

\* What a chunk's horizon shows, and the signal a velocity is integrated from.
HorizonKind(kind) == [qpos |-> "q", qvel |-> "q", end_effector |-> "eef", eef_vel |-> "eef", force |-> "none"][kind]
HorizonSignals(kind) == [qpos |-> {}, qvel |-> {"q"}, end_effector |-> {}, eef_vel |-> {"eef"}, force |-> {}][kind]

\* estimate_chunk_trajectory at 1 Hz: base is the newest measured signal, or <<>>.
ChunkTrajectory(kind, chunk, base) ==
    LET n == IF HorizonKind(kind) = "q" THEN Dof ELSE Pos
        Row(i) == [p \in 1..n |-> IF HorizonSignals(kind) = {} THEN chunk[i][p]
                                  ELSE base[p] + FoldLeft(+, 0, [j \in 1..i |-> chunk[j][p]])]
    IN IF HorizonKind(kind) = "none" \/ (HorizonSignals(kind) # {} /\ base = <<>>) THEN <<>>
       ELSE [i \in DOMAIN chunk |-> Row(i)]

-----------------------------------------------------------------------------
(* DFCStateActionLayout.                                                   *)

StateBlocks(r) ==
    FlattenSeq([i \in DOMAIN SortedSides(r.sides) |->
        [j \in DOMAIN r.signals |-> <<SortedSides(r.sides)[i], r.signals[j]>>]])

StateSlices(r) == Consecutive([i \in DOMAIN StateBlocks(r) |-> Width(StateBlocks(r)[i][2])])
StateSlice(r, side, signal) ==
    StateSlices(r)[CHOOSE i \in DOMAIN StateBlocks(r) : StateBlocks(r)[i] = <<side, signal>>]

NamesOf(block) == [k \in 1..Width(block[2]) |-> <<block[1], block[2], k>>]
StateNames(r) == FlattenSeq([i \in DOMAIN StateBlocks(r) |-> NamesOf(StateBlocks(r)[i])])

ActionSides(r) == SortedSides(r.acts)

\* A side's share of the action vector: its primary field and one gripper column.
WidthOfSide(kind) == Width(ActionField(kind)) + 1

SideStart(r, side) ==
    (CHOOSE i \in DOMAIN ActionSides(r) : ActionSides(r)[i] = side) * WidthOfSide(r.kind) - WidthOfSide(r.kind)
PrimarySlice(r, side) ==
    [lo |-> SideStart(r, side), hi |-> SideStart(r, side) + Width(ActionField(r.kind))]
GripperIndex(r, side) == PrimarySlice(r, side).hi + 1

\* Mutant: the gripper is named before the field.
GripperNamedFirst(r) ==
    FlattenSeq([i \in DOMAIN ActionSides(r) |->
        <<<<ActionSides(r)[i], "gripper">>>> \o NamesOf(<<ActionSides(r)[i], ActionField(r.kind)>>)])

ActionNames(r) ==
    FlattenSeq([i \in DOMAIN ActionSides(r) |->
        Append(NamesOf(<<ActionSides(r)[i], ActionField(r.kind)>>), <<ActionSides(r)[i], "gripper">>)])

StateDim(r) == FoldLeft(LAMBDA n, b : n + Width(b[2]), 0, StateBlocks(r))
ActionDim(r) == Len(ActionSides(r)) * WidthOfSide(r.kind)

PackState(r, values) ==
    FoldLeft(LAMBDA vec, i : Put(vec, StateSlices(r)[i], values[StateBlocks(r)[i]]),
             Zeros(StateDim(r)), [i \in DOMAIN StateBlocks(r) |-> i])

PackActions(r, primary, gripper) ==
    FoldLeft(LAMBDA vec, s : [Put(vec, PrimarySlice(r, s), primary[s]) EXCEPT ![GripperIndex(r, s)] = gripper[s]],
             Zeros(ActionDim(r)), ActionSides(r))

\* The primary field and the gripper of every side of an action.
SplitAction(r, action) ==
    [s \in r.acts |-> [primary |-> Cut(action, PrimarySlice(r, s)), gripper |-> action[GripperIndex(r, s)]]]

\* bimanual_qpos, whose slices are written out, and its state_to_action_joint_slices.
BimanualStateDim == 2 * Dof
BimanualActionDim == 2 * Dof + 2
BimanualPairs ==
    {<<[lo |-> 0, hi |-> Dof], [lo |-> 0, hi |-> Dof]>>,
     <<[lo |-> Dof, hi |-> 2 * Dof], [lo |-> Dof + 1, hi |-> 2 * Dof + 1]>>}

-----------------------------------------------------------------------------
(* Readers of a stored dataset go by its column names.                     *)

Numbered(names, Test(_)) == SelectSeq([i \in DOMAIN names |-> i], LAMBDA i : Test(names[i]))
Taken(vec, index) == [i \in DOMAIN index |-> vec[index[i]]]

StateQIndex(names, side) == Numbered(names, LAMBDA n : n[1] = side /\ Len(n) = 3 /\ n[2] = "q")
GripperColumn(names, side) == Numbered(names, LAMBDA n : n[1] = side /\ Len(n) = 2)
CommandIndex(names, side) == Numbered(names, LAMBDA n : n[1] = side /\ Len(n) = 3)
CommandField(names, side) == {names[i][2] : i \in Range(CommandIndex(names, side))}
NamedSides(names) == {names[i][1] : i \in DOMAIN names}

-----------------------------------------------------------------------------
(* OpenPIEndpointAdapter's projections.  A projection has the width of its *)
(* result (0: a copy), and items that fill targets from sources (a slice   *)
(* of the vector, or of the state for a hold) or with a constant.          *)

GoodIndices(index, size) == Range(index) \subseteq 1..size /\ IsInjective(index)

GoodItem(it, size, dim) ==
    /\ GoodIndices(it.target, dim)
    /\ it.kind # "constant" => GoodIndices(it.source, size[it.kind]) /\ Len(it.source) = Len(it.target)

\* _claim and the final check: every target is filled, by one item.
EveryTargetOnce(items, dim) ==
    /\ UNION {Range(items[i].target) : i \in DOMAIN items} = 1..dim
    /\ \A i, j \in DOMAIN items : i # j => Range(items[i].target) \cap Range(items[j].target) = {}

\* size is the length of the vector ("slice") and of the held state ("hold").
GoodProjection(proj, size) ==
    proj.dim = 0 \/ (/\ EveryTargetOnce(proj.items, proj.dim)
                     /\ \A i \in DOMAIN proj.items : GoodItem(proj.items[i], size, proj.dim))

Project(proj, vec, state) ==
    IF proj.dim = 0 THEN vec
    ELSE [p \in 1..proj.dim |->
            LET it == proj.items[CHOOSE i \in DOMAIN proj.items : p \in Range(proj.items[i].target)]
                at == CHOOSE n \in DOMAIN it.target : it.target[n] = p
            IN CASE it.kind = "slice" -> vec[it.source[at]]
                 [] it.kind = "hold" -> state[it.source[at]]
                 [] it.kind = "constant" -> it.value]
=============================================================================
