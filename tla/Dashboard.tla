------------------------------ MODULE Dashboard ------------------------------
(***************************************************************************)
(* The dashboard process: its Experiment controls, Storage tab, replay     *)
(* player and calibration pane.  They share one Streamlit process but no   *)
(* state beyond what the modules themselves hold (the Storage tab sees an  *)
(* active run, the replay player an episode being loaded), so a behaviour  *)
(* uses one of them, the one main draws as the workspace.  A last kind of  *)
(* behaviour, "columns", follows the vectors of a run that the Storage tab *)
(* replays and teaches from.                                               *)
(***************************************************************************)
EXTENDS DatasetStorage, ReplayPlayer, Calibration, OperatorPage, FrameColumns

VARIABLE workspace

dashboardVars == <<storageVars, replayVars, calibVars, operatorVars, columnVars, workspace>>

Workspaces == Habits \cup {"controls", "player", "calibration", "columns"}

Init ==
    /\ StorageInit /\ ReplayInit /\ OperatorInit
    /\ workspace \in Workspaces
    /\ CalibInit
    /\ workspace # "calibration" => leader.offset = 0 /\ leader.sign = 1 /\ ~file.flip
                                    /\ leader.targets = Column(0, 1)
    /\ ColumnsInit(IF workspace = "columns" THEN Rigs ELSE {NoRig})

UseControls == workspace = "controls" /\ OperatorNext /\ UNCHANGED <<storageVars, replayVars, calibVars, columnVars>>
UsePlayer == workspace = "player" /\ ReplayNext /\ UNCHANGED <<storageVars, calibVars, operatorVars, columnVars>>
UseCalibration == workspace = "calibration" /\ CalibNext /\ UNCHANGED <<storageVars, replayVars, operatorVars, columnVars>>
UseStorage == workspace \in Habits /\ StorageNext(workspace) /\ UNCHANGED <<replayVars, calibVars, operatorVars, columnVars>>
UseColumns == workspace = "columns" /\ ColumnsNext /\ UNCHANGED <<storageVars, replayVars, calibVars, operatorVars>>

Next ==
    /\ UseControls \/ UsePlayer \/ UseCalibration \/ UseStorage \/ UseColumns
    /\ UNCHANGED workspace

\* Browser tabs are alike.
OperatorSymmetry == Permutations(Operators)

\* What a behaviour does to one part is a behaviour of that part: of OperatorSpec,
\* ReplaySpec, CalibSpec and StorageSpec, which the proofs are about.
Spec == Init /\ [][Next]_dashboardVars
=============================================================================
