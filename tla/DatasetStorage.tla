--------------------------- MODULE DatasetStorage ---------------------------
(***************************************************************************)
(* The dashboard's Storage tab over one recorded dataset: ticking and      *)
(* deleting episodes, replaying one, teaching skills from them.  Browser   *)
(* tabs are threads of one dashboard process; a collection run appends to  *)
(* the dataset from another.  An episode is its number in order of         *)
(* recording; an index is its place in the dataset, counted from 1.        *)
(***************************************************************************)
EXTENDS Naturals, Sequences, FiniteSets, Functions

CONSTANTS
    Tabs,               \* browser tabs open on the dashboard
    ConfirmsDuringRuns, \* does the operator confirm a delete during a collection run?
    MaxEpisodes,        \* bound: episodes recorded
    MaxSkills,          \* bound: skills taught at a time
    MaxCrashes          \* bound: deaths of the dashboard's process

VARIABLES
    dirs,       \* folders of the collection root: "ds", and an edit's "editing" and "old"
    recorded,   \* episodes recorded so far
    collecting, \* a collection run is active
    tabs,       \* each tab's st.session_state
    edit,       \* the delete_episodes call in progress
    viewer,     \* the episode loaded in the replay server, if any
    skills,     \* the skills root: file name -> episode the trajectory is from
    renaming,   \* the rename_skill call in progress: {} or {<<tab, old>>}
    crashes,
    chosen, swept \* history: episodes an operator chose to delete, and episodes of
                  \* leftovers that a later edit removed

diskVars == <<dirs, recorded, collecting, edit, chosen, swept>>
skillVars == <<skills, renaming>>
storageVars == <<diskVars, skillVars, tabs, viewer, crashes>>

\* stor_sel and stor_pending hold indices; the model keeps with each the episode
\* that was listed there when the operator picked it.
NoPicks == [i \in {} |-> 0]
NoGate == [open |-> FALSE, whole |-> FALSE, picks |-> NoPicks]
FreshTab == [sel |-> NoPicks, pending |-> NoGate, target |-> {}, logged |-> {}]
NoEdit == [phase |-> "none", tab |-> CHOOSE t \in Tabs: TRUE, drop |-> {}]

StorageInit ==
    /\ dirs = [d \in {"ds"} |-> <<1, 2>>] /\ recorded = 2
    /\ collecting = FALSE /\ edit = NoEdit
    /\ tabs = [t \in Tabs |-> FreshTab] /\ viewer = {}
    /\ skills = NoPicks /\ renaming = {}
    /\ crashes = 0 /\ chosen = {} /\ swept = {}

\* f with x bound to v, over an earlier value or none
Bind(f, x, v) == [y \in DOMAIN f \cup {x} |-> IF y = x THEN v ELSE f[y]]

\* discover_datasets, list_episodes: read again each time the page is drawn.
Listed == IF "ds" \in DOMAIN dirs THEN dirs["ds"] ELSE <<>>
\* shutil.rmtree(ignore_errors=True)
Without(gone) == Restrict(dirs, DOMAIN dirs \ gone)
OnDisk == UNION {Range(dirs[d]): d \in DOMAIN dirs}
\* A tab's script runs one interaction at a time.
Free(t) == (edit.phase = "none" \/ edit.tab # t) /\ \A r \in renaming: r[1] # t

----------------------------------------------------------------------------
(* Choosing what to delete: the controls are disabled while `locked'.      *)

Pick(i) == Bind(NoPicks, i, Listed[i])
Choosing(t) == Free(t) /\ ~collecting /\ UNCHANGED <<diskVars, skillVars, viewer, crashes>>

Tick(t, i) ==
    /\ Choosing(t) /\ i \in DOMAIN Listed
    /\ tabs' = [tabs EXCEPT ![t].sel =
                    IF i \in DOMAIN @ THEN Restrict(@, DOMAIN @ \ {i}) ELSE Bind(@, i, Listed[i])]

SelectAll(t) ==
    /\ Choosing(t) /\ Listed # <<>>
    /\ tabs' = [tabs EXCEPT ![t].sel = [i \in DOMAIN Listed |-> Listed[i]]]

ClearSelection(t) ==
    /\ Choosing(t) /\ tabs[t].sel # NoPicks
    /\ tabs' = [tabs EXCEPT ![t].sel = NoPicks]

\* Delete selected, a row's delete button, and Delete entire dataset, which is
\* offered for a dataset with no episode.
Gate(t, whole, picks) ==
    /\ Choosing(t)
    /\ tabs' = [tabs EXCEPT ![t].pending = [open |-> TRUE, whole |-> whole, picks |-> picks]]

AskDelete(t) ==
    LET rows == DOMAIN tabs[t].sel \cap DOMAIN Listed
    IN  rows # {} /\ Gate(t, FALSE, Restrict(tabs[t].sel, rows))
AskDeleteRow(t, i) == i \in DOMAIN Listed /\ Gate(t, FALSE, Pick(i))
AskDeleteDataset(t) == "ds" \in DOMAIN dirs /\ Listed = <<>> /\ Gate(t, TRUE, NoPicks)

CancelDelete(t) ==
    /\ Free(t) /\ tabs[t].pending.open
    /\ tabs' = [tabs EXCEPT ![t].pending = NoGate]
    /\ UNCHANGED <<diskVars, skillVars, viewer, crashes>>

----------------------------------------------------------------------------
(* Deleting.                                                               *)

\* Mutants of _do_delete's ending.
KeepPending(tab) == [tab EXCEPT !.target = {}, !.logged = {}]
KeepReplay(tab) == [tab EXCEPT !.sel = NoPicks, !.pending = NoGate]

\* _do_delete after success: the indices the tab holds mean other episodes now.
AfterDelete(tab) == [tab EXCEPT !.sel = NoPicks, !.pending = NoGate, !.target = {}, !.logged = {}]

RemovesFolder(t) ==
    /\ dirs' = Without({"ds"})
    /\ chosen' = chosen \cup Range(IF tabs[t].pending.whole THEN Listed ELSE tabs[t].pending.picks)
    /\ tabs' = [tabs EXCEPT ![t] = AfterDelete(@)]
    /\ UNCHANGED <<edit, swept>>

\* delete_episodes up to the rebuild: what an earlier edit left is removed.
BeginsEdit(t, drop) ==
    /\ dirs' = Without({"editing", "old"})
    /\ swept' = swept \cup (OnDisk \ Range(Listed))
    /\ chosen' = chosen \cup Range(tabs[t].pending.picks)
    /\ edit' = [phase |-> "build", tab |-> t, drop |-> drop]
    /\ UNCHANGED tabs

\* Confirm delete: drawn for the listed dataset, and not disabled by `locked'.
\* Indices past the end are a ValueError, which changes nothing.  One edit at a
\* time is a bound of the model.
Confirm(t) ==
    LET gate == tabs[t].pending
        drop == DOMAIN gate.picks
    IN  /\ Free(t) /\ gate.open /\ "ds" \in DOMAIN dirs /\ drop \subseteq DOMAIN Listed
        /\ collecting => ConfirmsDuringRuns
        /\ \/ (gate.whole \/ Cardinality(drop) >= Len(Listed)) /\ RemovesFolder(t)
           \/ ~gate.whole /\ Cardinality(drop) < Len(Listed)
              /\ edit.phase = "none" /\ BeginsEdit(t, drop)
        /\ UNCHANGED <<recorded, collecting, skillVars, viewer, crashes>>

\* The finally clause: both side folders go, whatever happened.
Finally == dirs' = Without({"editing", "old"})

Editing(phase) ==
    /\ edit.phase = phase
    /\ UNCHANGED <<recorded, collecting, chosen, swept, skillVars, viewer, crashes>>

Kept(drop) ==
    LET rows == DOMAIN Listed \ drop
        place(i) == Cardinality({j \in rows: j <= i})
    IN  [n \in 1..Cardinality(rows) |-> Listed[CHOOSE i \in rows: place(i) = n]]

\* dataset_tools.delete_episodes writes the re-indexed copy, or raises.
Build ==
    /\ Editing("build")
    /\ \/ "ds" \in DOMAIN dirs /\ edit' = [edit EXCEPT !.phase = "aside"]
          /\ dirs' = Bind(dirs, "editing", Kept(edit.drop))
       \/ edit' = NoEdit /\ Finally
    /\ UNCHANGED tabs

\* os.replace(ds.path, backup)
MoveAside ==
    /\ Editing("aside")
    /\ \/ "ds" \in DOMAIN dirs /\ edit' = [edit EXCEPT !.phase = "promote"]
          /\ dirs' = Bind(Without({"ds"}), "old", dirs["ds"])
       \/ "ds" \notin DOMAIN dirs /\ edit' = NoEdit /\ Finally
    /\ UNCHANGED tabs

\* os.replace(tmp, ds.path) fails on a folder that is not empty.
Promote ==
    /\ Editing("promote")
    /\ \/ "ds" \notin DOMAIN dirs /\ edit' = [edit EXCEPT !.phase = "clean"]
          /\ dirs' = Bind(Without({"editing"}), "ds", dirs["editing"])
       \/ "ds" \in DOMAIN dirs /\ edit' = NoEdit /\ Finally
    /\ UNCHANGED tabs

EndsEdit ==
    /\ Editing("clean") /\ Finally /\ edit' = NoEdit
    /\ tabs' = [tabs EXCEPT ![edit.tab] = AfterDelete(@)]

----------------------------------------------------------------------------
(* A collection run: the recorder resumes the dataset, or creates it.      *)

StartCollection(t) ==
    /\ Free(t) /\ ~collecting
    /\ collecting' = TRUE
    /\ dirs' = Bind(dirs, "ds", Listed)
    /\ UNCHANGED <<recorded, edit, chosen, swept, skillVars, tabs, viewer, crashes>>

SaveEpisode ==
    /\ collecting /\ recorded < MaxEpisodes
    /\ recorded' = recorded + 1
    /\ dirs' = Bind(dirs, "ds", Append(Listed, recorded + 1))
    /\ UNCHANGED <<collecting, edit, chosen, swept, skillVars, tabs, viewer, crashes>>

EndCollection ==
    /\ collecting /\ collecting' = FALSE
    /\ UNCHANGED <<dirs, recorded, edit, chosen, swept, skillVars, tabs, viewer, crashes>>

----------------------------------------------------------------------------
(* Replay: one server for the whole process.                               *)

PickReplay(t, i) ==
    /\ Free(t) /\ i \in DOMAIN Listed
    /\ tabs' = [tabs EXCEPT ![t].target = {i}]
    /\ UNCHANGED <<diskVars, skillVars, viewer, crashes>>

\* _render_replay_panel: a target past the end is dropped; a new one is loaded,
\* unless reading it fails.
RenderReplay(t) ==
    /\ Free(t) /\ tabs[t].target # {} /\ tabs[t].logged # tabs[t].target
    /\ "ds" \in DOMAIN dirs
    /\ \E i \in tabs[t].target:
           \/ i \notin DOMAIN Listed
              /\ tabs' = [tabs EXCEPT ![t].target = {}, ![t].logged = {}] /\ UNCHANGED viewer
           \/ i \in DOMAIN Listed
              /\ tabs' = [tabs EXCEPT ![t].logged = {i}] /\ viewer' = {Listed[i]}
    /\ UNCHANGED <<diskVars, skillVars, crashes>>

CloseReplay(t) ==
    /\ Free(t) /\ tabs[t].target # {}
    /\ tabs' = [tabs EXCEPT ![t].target = {}, ![t].logged = {}]
    /\ UNCHANGED <<diskVars, skillVars, viewer, crashes>>

\* Reset services, as far as this tab is concerned: refused during a run.
ResetReplay(t) ==
    /\ Free(t) /\ ~collecting /\ viewer # {}
    /\ viewer' = {}
    /\ UNCHANGED <<diskVars, skillVars, tabs, crashes>>

----------------------------------------------------------------------------
(* Skills: the file of index i's default name is i; 0 is a name typed in.  *)

Teach(t, i) ==
    /\ Free(t) /\ i \in DOMAIN Listed
    /\ skills' = Bind(skills, i, Listed[i])
    /\ UNCHANGED <<diskVars, renaming, tabs, viewer, crashes>>

\* rename_skill: refused for a name in use; the new file is written first.
RenameSkill(t, old, new) ==
    /\ Free(t) /\ renaming = {} /\ old \in DOMAIN skills /\ old # new
    /\ new \notin DOMAIN skills
    /\ skills' = Bind(skills, new, skills[old]) /\ renaming' = {<<t, old>>}
    /\ UNCHANGED <<diskVars, tabs, viewer, crashes>>

RenameUnlinks ==
    /\ \E r \in renaming: skills' = Restrict(skills, DOMAIN skills \ {r[2]})
    /\ renaming' = {}
    /\ UNCHANGED <<diskVars, tabs, viewer, crashes>>

\* Confirmed behind a gate that holds the skill's name.
DeleteSkill(t, n) ==
    /\ Free(t) /\ renaming = {} /\ n \in DOMAIN skills
    /\ skills' = Restrict(skills, DOMAIN skills \ {n})
    /\ UNCHANGED <<diskVars, renaming, tabs, viewer, crashes>>

----------------------------------------------------------------------------
\* The dashboard dies: st.session_state and the calls in progress are gone.
Crash ==
    /\ crashes < MaxCrashes /\ crashes' = crashes + 1
    /\ edit' = NoEdit /\ renaming' = {} /\ viewer' = {}
    /\ tabs' = [t \in Tabs |-> FreshTab]
    /\ UNCHANGED <<dirs, recorded, collecting, chosen, swept, skills>>

\* Besides deleting rows and recording, what is done with the tab, by habit: the
\* parts are independent of each other, so each is explored with the deletes.
SelectionStep(t) ==
    \/ SelectAll(t) \/ ClearSelection(t) \/ AskDelete(t)
    \/ \E i \in 1..MaxEpisodes: Tick(t, i)
ReplayStep(t) ==
    \/ RenderReplay(t) \/ CloseReplay(t) \/ ResetReplay(t)
    \/ \E i \in 1..MaxEpisodes: PickReplay(t, i)
SkillStep(t) ==
    \/ \E i \in 1..MaxEpisodes: Teach(t, i) /\ Cardinality(DOMAIN skills') <= MaxSkills
    \/ \E i \in 1..MaxEpisodes: RenameSkill(t, i, 0) \/ RenameSkill(t, 0, i)
    \/ \E n \in 0..MaxEpisodes: DeleteSkill(t, n)
    \/ RenameUnlinks
DeleteStep(t) ==
    \/ AskDeleteDataset(t) \/ CancelDelete(t) \/ Confirm(t)
    \/ \E i \in 1..MaxEpisodes: AskDeleteRow(t, i)
DiskStep ==
    \/ Build \/ MoveAside \/ Promote \/ EndsEdit
    \/ SaveEpisode \/ EndCollection \/ Crash

\* The tab is used in three ways, explored one by one.
Habits == {"select", "replay", "teach"}

StorageNext(habit) ==
    \/ \E t \in Tabs:
        \/ habit = "select" /\ SelectionStep(t)
        \/ habit = "replay" /\ ReplayStep(t)
        \/ habit = "teach" /\ SkillStep(t)
        \/ DeleteStep(t) \/ StartCollection(t)
    \/ DiskStep

StorageSpec == StorageInit /\ [][\E habit \in Habits: StorageNext(habit)]_storageVars

----------------------------------------------------------------------------
\* A recorded episode leaves the disk only if the operator picked that episode
\* and confirmed, or if it was in what an interrupted edit left behind: indices
\* held by the page across a re-index, the two renames of delete_episodes, and a
\* dashboard that dies between them, could each lose another one.
EpisodesLostByChoice == 1..recorded \subseteq OnDisk \cup chosen \cup swept

\* The replay panel's heading names the episode the viewer plays, unless the
\* viewer was reset and is empty: replay_target and replay_logged are indices,
\* and a delete re-indexes.
PanelShowsItsEpisode ==
    edit.phase = "none" /\ viewer # {} =>
        \A t \in Tabs: \A i \in tabs[t].target \cap tabs[t].logged:
            i \in DOMAIN Listed /\ viewer = {Listed[i]}

\* A taught trajectory is in a skill file until that skill is deleted or taught
\* again: rename_skill refuses to clobber, and writes before it unlinks.
SkillsLostByChoice ==
    \A n \in DOMAIN skills: \/ skills[n] \in Range(skills')
                            \/ \E t \in Tabs: Teach(t, n) \/ DeleteSkill(t, n)

\* Neither recordings nor skills are lost unasked, over re-indexing edits, renames
\* and a dashboard that dies between their steps (delete_episodes, rename_skill).
NothingLostUnasked == [][EpisodesLostByChoice' /\ SkillsLostByChoice]_storageVars

\* Stated by _teach_episode's comment: re-teaching overwrites the skill of the
\* same episode only.
ReteachesItsOwn ==
    [][\A n \in DOMAIN skills \cap DOMAIN skills': skills'[n] = skills[n]]_storageVars

\* Stated by _render_storage_tab's comment: no edit while a collection run is active.
NoEditDuringCollection == collecting => edit.phase = "none"
=============================================================================
