-------------------------- MODULE DashboardProofs --------------------------
(***************************************************************************)
(* Proofs about the replay player and the Storage tab of the dashboard,    *)
(* for any number of player threads, frames, episodes, skills, edits and   *)
(* crashes.                                                                *)
(***************************************************************************)
EXTENDS ReplayPlayer, DatasetStorage, FiniteSetTheorems, TLAPS

----------------------------------------------------------------------------
(* The replay player.                                                      *)

PlayerThreads == [pc : {"none", "loop", "sleep", "move"}, gen : Nat, index : Int, late : Nat]

\* A thread that moved the slider of an episode that is not its own is back at
\* the loop's test, which it will fail.
ThreadOK(r) ==
  /\ r.gen <= generation
  /\ r.late <= 1
  /\ r.late = 1 => r.pc = "loop" /\ r.gen < generation

PlayerInv ==
  /\ frames \in Nat /\ generation \in Nat /\ slider \in Int /\ shown \in Int
  /\ shown < frames
  /\ players \in [Threads -> PlayerThreads]
  /\ \A p \in Threads : ThreadOK(players[p])

\* No thread plays before the first episode is loaded.
LEMMA PlayerInit == ReplayInit => PlayerInv
BY DEF ReplayInit, PlayerInv, NoPlayer, PlayerThreads, ThreadOK

\* show keeps the pose within the episode's frames.
LEMMA ShowsFrame ==
  ASSUME PlayerInv, NEW i \in Int, Shows(i)
  PROVE  shown' \in Int /\ shown' < frames
BY DEF PlayerInv, Shows

\* A step that replaces one thread's record by a good one.
LEMMA OneThread ==
  ASSUME PlayerInv, UNCHANGED <<frames, generation>>,
         slider' \in Int, shown' \in Int, shown' < frames,
         NEW p \in Threads, NEW r \in PlayerThreads, ThreadOK(r),
         players' = [players EXCEPT ![p] = r]
  PROVE  PlayerInv'
BY DEF PlayerInv, ThreadOK

\* A thread that does not play is as good as any.
LEMMA NoPlayerOK == PlayerInv => NoPlayer \in PlayerThreads /\ ThreadOK(NoPlayer)
BY DEF PlayerInv, NoPlayer, PlayerThreads, ThreadOK

\* Every step of the player keeps its invariant.
LEMMA PlayerStep == PlayerInv /\ [ReplayNext]_replayVars => PlayerInv'
<1> SUFFICES ASSUME PlayerInv, [ReplayNext]_replayVars PROVE PlayerInv'
  OBVIOUS
<1>1. ASSUME NEW n \in Lengths, LoadEpisode(n) PROVE PlayerInv'
  <2>1. \A p \in Threads : players[p].gen \in Nat
    BY DEF PlayerInv, PlayerThreads
  <2> QED
    BY <1>1, <2>1, LengthsAreCounts DEF LoadEpisode, PlayerInv, ThreadOK
<1>2. CASE ResetViewer
  BY <1>2, NoPlayerOK DEF ResetViewer, PlayerInv, ThreadOK
<1>3. CASE ClickPlay
  <2> DEFINE r == [NoPlayer EXCEPT !.pc = "loop", !.gen = generation]
  <2>1. PICK p \in Threads : players' = [players EXCEPT ![p] = r]
    BY <1>3 DEF ClickPlay
  <2>2. NoPlayer \in PlayerThreads /\ NoPlayer.late = 0 /\ generation \in Nat
    BY NoPlayerOK DEF NoPlayer, PlayerInv
  <2>3. r \in PlayerThreads /\ r.gen = generation /\ r.late = 0
    BY <2>2 DEF PlayerThreads
  <2>4. ThreadOK(r)
    BY <2>2, <2>3 DEF ThreadOK
  <2> HIDE DEF r
  <2> QED
    BY <1>3, <2>1, <2>3, <2>4, OneThread DEF ClickPlay, PlayerInv
<1>4. CASE ClickPause
  BY <1>4 DEF ClickPause, PlayerInv, ThreadOK
<1>5. ASSUME NEW i \in 0 .. (frames - 1), Scrub(i) PROVE PlayerInv'
  <2>1. i \in Int /\ shown' \in Int /\ shown' < frames
    BY <1>5, ShowsFrame DEF Scrub, PlayerInv
  <2> QED
    BY <1>5, <2>1 DEF Scrub, PlayerInv, ThreadOK
<1>6. ASSUME NEW p \in Threads, PlayerLoops(p) PROVE PlayerInv'
  <2>1. CASE players' = [players EXCEPT ![p] = NoPlayer]
    BY <1>6, <2>1, NoPlayerOK, OneThread DEF PlayerLoops, PlayerInv
  <2>2. CASE /\ Continues(p)
             /\ players' = [players EXCEPT ![p].pc = "sleep", ![p].index = slider]
    <3> DEFINE q == players[p]
               r == [q EXCEPT !.pc = "sleep", !.index = slider]
    <3>1. q \in PlayerThreads /\ ThreadOK(q) /\ q.gen = generation /\ slider \in Int /\ generation \in Nat
      BY <2>2 DEF PlayerInv, Continues
    <3>2. players' = [players EXCEPT ![p] = r]
      BY <2>2 DEF PlayerInv
    <3> HIDE DEF q
    <3>3. r \in PlayerThreads /\ r.gen = q.gen /\ r.late = q.late
      BY <3>1 DEF PlayerThreads
    <3>4. ThreadOK(r)
      BY <3>1, <3>3 DEF ThreadOK
    <3> HIDE DEF r
    <3> QED
      BY <1>6, <3>2, <3>3, <3>4, OneThread DEF PlayerLoops, PlayerInv
  <2> QED
    BY <1>6, <2>1, <2>2 DEF PlayerLoops
<1>7. ASSUME NEW p \in Threads, PlayerWakes(p) PROVE PlayerInv'
  <2> DEFINE r == [players[p] EXCEPT !.pc = IF Continues(p) THEN "move" ELSE "loop"]
  <2>1. r \in PlayerThreads /\ ThreadOK(r)
    BY <1>7 DEF PlayerWakes, PlayerInv, PlayerThreads, ThreadOK
  <2>2. players' = [players EXCEPT ![p] = r]
    BY <1>7 DEF PlayerWakes, PlayerInv
  <2> HIDE DEF r
  <2> QED
    BY <1>7, <2>1, <2>2, OneThread DEF PlayerWakes, PlayerInv
<1>8. ASSUME NEW p \in Threads, PlayerMoves(p) PROVE PlayerInv'
  <2> DEFINE q == players[p]
             late == IF q.gen # generation THEN 1 ELSE 0
             r == [q EXCEPT !.pc = "loop", !.late = late]
  <2>1. q \in PlayerThreads /\ ThreadOK(q) /\ q.pc = "move"
    BY <1>8 DEF PlayerMoves, PlayerInv
  <2>2. q.late = 0 /\ q.index + 1 \in Int
    BY <2>1 DEF PlayerThreads, ThreadOK
  <2>3. shown' \in Int /\ shown' < frames /\ slider' \in Int /\ UNCHANGED <<frames, generation>>
    BY <1>8, <2>2, ShowsFrame DEF PlayerMoves
  <2>4. players' = [players EXCEPT ![p].pc = "loop", ![p].late = late]
    BY <1>8, <2>2 DEF PlayerMoves, PlayerInv
  <2>5. players' = [players EXCEPT ![p] = r]
    <3> HIDE DEF late
    <3> QED
      BY <2>4 DEF PlayerInv
  <2>6. late \in Nat /\ (late = 0 \/ (late = 1 /\ q.gen # generation))
    OBVIOUS
  <2> HIDE DEF q, late
  <2>7. r \in PlayerThreads /\ r.pc = "loop" /\ r.gen = q.gen /\ r.late = late
    BY <2>1, <2>6 DEF PlayerThreads
  <2>8. ThreadOK(r)
    BY <2>1, <2>6, <2>7 DEF ThreadOK, PlayerThreads, PlayerInv
  <2> HIDE DEF r
  <2> QED
    BY <2>3, <2>5, <2>7, <2>8, OneThread
<1>9. CASE UNCHANGED replayVars
  BY <1>9 DEF replayVars, PlayerInv, ThreadOK
<1> QED
  BY <1>1, <1>2, <1>3, <1>4, <1>5, <1>6, <1>7, <1>8, <1>9 DEF ReplayNext

\* OldPlayerMovesOnce for any number of player threads and episodes of any lengths:
\* _play, which tests its generation without load's lock, moves the slider of an
\* episode that replaced its own at most once, and show poses a loaded frame.
THEOREM OldPlayerTheorem == ReplaySpec => []OldPlayerMovesOnce
<1>1. PlayerInv => OldPlayerMovesOnce
  BY DEF PlayerInv, ThreadOK, OldPlayerMovesOnce
<1> QED
  BY <1>1, PlayerInit, PlayerStep, PTL DEF ReplaySpec

----------------------------------------------------------------------------
(* The Storage tab, used from one browser tab whose operator confirms no   *)
(* delete during a collection run: what it promises fails otherwise.       *)

OneOperator == (\E t : Tabs = {t}) /\ ConfirmsDuringRuns = FALSE

Folders == {"ds", "editing", "old"}
Picks == UNION {[S -> Nat] : S \in SUBSET Nat}
Gates == [open : BOOLEAN, whole : BOOLEAN, picks : Picks]
TabStates == [sel : Picks, pending : Gates, target : SUBSET Nat, logged : SUBSET Nat]
EditPhases == {"none", "build", "aside", "promote", "clean"}

StorageType ==
  /\ DOMAIN dirs \subseteq Folders /\ \A d \in DOMAIN dirs : dirs[d] \in Seq(Nat)
  /\ recorded \in Nat /\ collecting \in BOOLEAN
  /\ tabs \in [Tabs -> TabStates]
  /\ edit \in [phase : EditPhases, tab : Tabs, drop : SUBSET Nat]

\* An edit runs alone.  From the moment its copy is built, what it drops was
\* chosen, and the copy and the original are not both out of the way.
EditInv ==
  /\ edit.phase # "none" => ~collecting
  /\ edit.phase = "build" =>
       DOMAIN dirs = {"ds"} /\ \A i \in edit.drop : i \in DOMAIN dirs["ds"] => dirs["ds"][i] \in chosen
  /\ edit.phase = "aside" =>
       DOMAIN dirs = {"ds", "editing"} /\ Range(dirs["ds"]) \subseteq Range(dirs["editing"]) \cup chosen
  /\ edit.phase = "promote" =>
       DOMAIN dirs = {"editing", "old"} /\ Range(dirs["old"]) \subseteq Range(dirs["editing"]) \cup chosen
  /\ edit.phase = "clean" =>
       DOMAIN dirs = {"ds", "old"} /\ Range(dirs["old"]) \subseteq Range(dirs["ds"]) \cup chosen

\* The indices a tab holds name the episodes they were picked for, until an edit
\* has moved the dataset aside; so does what the replay panel says is loaded.
Names(picks) == \A i \in DOMAIN picks : i \in DOMAIN Listed /\ picks[i] = Listed[i]
PickInv ==
  edit.phase \in {"none", "build", "aside"} => \A t \in Tabs :
    /\ Names(tabs[t].sel) /\ Names(tabs[t].pending.picks)
    /\ viewer # {} => \A i \in tabs[t].logged : i \in DOMAIN Listed /\ viewer = {Listed[i]}

\* While a rename is between its two steps, the trajectory is in both files.
RenameInv ==
  \A r \in renaming : /\ r[1] \in Tabs
                      /\ \E n \in DOMAIN skills : n # r[2] /\ skills[n] = skills[r[2]]

StorageInv == StorageType /\ EditInv /\ EpisodesLostByChoice /\ PickInv /\ RenameInv

\* A set of picked rows is a partial function.
LEMMA PicksFacts ==
  /\ NoPicks \in Picks /\ DOMAIN NoPicks = {}
  /\ \A f \in Picks : DOMAIN f \subseteq Nat /\ \A i \in DOMAIN f : f[i] \in Nat
  /\ \A S \in SUBSET Nat : \A f \in [S -> Nat] : f \in Picks /\ DOMAIN f = S
<1>1. \A S \in SUBSET Nat : \A f \in [S -> Nat] : f \in Picks /\ DOMAIN f = S
  BY DEF Picks
<1>2. NoPicks \in [{} -> Nat]
  BY DEF NoPicks
<1>3. ASSUME NEW f \in Picks PROVE DOMAIN f \subseteq Nat /\ \A i \in DOMAIN f : f[i] \in Nat
  <2>1. PICK S \in SUBSET Nat : f \in [S -> Nat]
    BY <1>3 DEF Picks
  <2> QED
    BY <2>1
<1> QED
  BY <1>1, <1>2, <1>3

\* The dataset as listed is a sequence of episodes.
LEMMA ListedFacts ==
  ASSUME StorageType
  PROVE  /\ Listed \in Seq(Nat) /\ DOMAIN Listed = 1 .. Len(Listed) /\ DOMAIN Listed \subseteq Nat
         /\ \A i \in DOMAIN Listed : Listed[i] \in Nat
<1>1. Listed \in Seq(Nat)
  BY DEF StorageType, Listed
<1> QED
  BY <1>1

\* A fresh tab holds nothing.
LEMMA FreshFacts ==
  /\ NoGate \in Gates /\ NoGate.picks = NoPicks
  /\ FreshTab \in TabStates /\ FreshTab.sel = NoPicks /\ FreshTab.pending = NoGate
  /\ FreshTab.target = {} /\ FreshTab.logged = {}
BY PicksFacts DEF NoGate, FreshTab, Gates, TabStates

\* A tab is free only between edits and renames: there is one tab.
LEMMA FreeFacts ==
  ASSUME OneOperator, StorageInv, NEW t \in Tabs, Free(t)
  PROVE  edit.phase = "none" /\ renaming = {}
BY DEF OneOperator, StorageInv, StorageType, RenameInv, Free

\* A step that changes what one tab holds, and nothing else.
LEMMA TabStep ==
  ASSUME StorageInv, UNCHANGED <<diskVars, skillVars, viewer>>,
         NEW t \in Tabs, NEW r \in TabStates, tabs' = [tabs EXCEPT ![t] = r],
         Names(r.sel), Names(r.pending.picks),
         viewer # {} => \A i \in r.logged : i \in DOMAIN Listed /\ viewer = {Listed[i]}
  PROVE  StorageInv'
<1> USE DEF diskVars, skillVars
<1>1. StorageType' /\ EditInv' /\ EpisodesLostByChoice' /\ RenameInv'
  BY DEF StorageInv, StorageType, EditInv, EpisodesLostByChoice, RenameInv, OnDisk
<1>2. PickInv'
  BY DEF StorageInv, StorageType, PickInv, Names, Listed
<1> QED
  BY <1>1, <1>2 DEF StorageInv

\* The same, of one field of the tab.
LEMMA SelStep ==
  ASSUME StorageInv, edit.phase = "none", UNCHANGED <<diskVars, skillVars, viewer>>,
         NEW t \in Tabs, NEW picks \in Picks, Names(picks),
         tabs' = [tabs EXCEPT ![t].sel = picks]
  PROVE  StorageInv'
<1> DEFINE q == tabs[t]
           r == [q EXCEPT !.sel = picks]
<1>1. /\ q \in TabStates /\ Names(q.pending.picks)
      /\ viewer # {} => \A i \in q.logged : i \in DOMAIN Listed /\ viewer = {Listed[i]}
  BY DEF StorageInv, StorageType, PickInv
<1>2. tabs' = [tabs EXCEPT ![t] = r]
  BY DEF StorageInv, StorageType
<1> HIDE DEF q
<1>3. r \in TabStates /\ r.sel = picks /\ r.pending = q.pending /\ r.logged = q.logged
  BY <1>1 DEF TabStates
<1> HIDE DEF r
<1> QED
  BY <1>1, <1>2, <1>3, TabStep

LEMMA GateStep ==
  ASSUME StorageInv, edit.phase = "none", UNCHANGED <<diskVars, skillVars, viewer>>,
         NEW t \in Tabs, NEW g \in Gates, Names(g.picks),
         tabs' = [tabs EXCEPT ![t].pending = g]
  PROVE  StorageInv'
<1> DEFINE q == tabs[t]
           r == [q EXCEPT !.pending = g]
<1>1. /\ q \in TabStates /\ Names(q.sel)
      /\ viewer # {} => \A i \in q.logged : i \in DOMAIN Listed /\ viewer = {Listed[i]}
  BY DEF StorageInv, StorageType, PickInv
<1>2. tabs' = [tabs EXCEPT ![t] = r]
  BY DEF StorageInv, StorageType
<1> HIDE DEF q
<1>3. r \in TabStates /\ r.pending = g /\ r.sel = q.sel /\ r.logged = q.logged
  BY <1>1 DEF TabStates
<1> HIDE DEF r
<1> QED
  BY <1>1, <1>2, <1>3, TabStep

\* Choosing rows, and asking for their deletion, keeps the invariant.
LEMMA ChooseStep ==
  ASSUME OneOperator, StorageInv, NEW t \in Tabs,
         \/ \E i : Tick(t, i)
         \/ SelectAll(t) \/ ClearSelection(t) \/ AskDelete(t)
         \/ \E i : AskDeleteRow(t, i)
         \/ AskDeleteDataset(t) \/ CancelDelete(t)
  PROVE  StorageInv'
<1>1. Free(t) /\ UNCHANGED <<diskVars, skillVars, viewer>>
  BY DEF Tick, SelectAll, ClearSelection, AskDelete, AskDeleteRow, AskDeleteDataset,
         CancelDelete, Gate, Choosing
<1>2. edit.phase = "none"
  BY <1>1, FreeFacts
<1>3. tabs[t] \in TabStates /\ tabs[t].sel \in Picks /\ Names(tabs[t].sel)
  BY <1>2 DEF StorageInv, StorageType, TabStates, PickInv
<1>4. /\ DOMAIN Listed \subseteq Nat /\ \A i \in DOMAIN Listed : Listed[i] \in Nat
      /\ DOMAIN tabs[t].sel \subseteq Nat /\ \A i \in DOMAIN tabs[t].sel : tabs[t].sel[i] \in Nat
  BY <1>3, ListedFacts, PicksFacts DEF StorageInv
<1> DEFINE sel == tabs[t].sel
<1>5. ASSUME NEW i, Tick(t, i) PROVE StorageInv'
  <2>1. CASE i \in DOMAIN sel
    <3> DEFINE f == Restrict(sel, DOMAIN sel \ {i})
    <3>1. f \in Picks /\ Names(f)
      <4>1. f \in [DOMAIN sel \ {i} -> Nat] /\ DOMAIN sel \ {i} \in SUBSET Nat
        BY <1>4 DEF Restrict
      <4>2. \A j \in DOMAIN f : f[j] = sel[j] /\ j \in DOMAIN sel
        BY DEF Restrict
      <4> HIDE DEF f
      <4> QED
        BY <1>3, <4>1, <4>2, PicksFacts DEF Names
    <3>2. tabs' = [tabs EXCEPT ![t].sel = f]
      BY <1>5, <2>1 DEF Tick, StorageInv, StorageType
    <3> HIDE DEF f
    <3> QED
      BY <1>1, <1>2, <3>1, <3>2, SelStep
  <2>2. CASE i \notin DOMAIN sel
    <3> DEFINE f == Bind(sel, i, Listed[i])
    <3>1. f \in Picks /\ Names(f)
      <4>1. i \in DOMAIN Listed
        BY <1>5 DEF Tick
      <4>2. f \in [DOMAIN sel \cup {i} -> Nat] /\ DOMAIN sel \cup {i} \in SUBSET Nat
        BY <1>4, <4>1 DEF Bind
      <4>3. \A j \in DOMAIN f : (j = i /\ f[j] = Listed[i]) \/ (j \in DOMAIN sel /\ f[j] = sel[j])
        BY DEF Bind
      <4> HIDE DEF f
      <4> QED
        BY <1>3, <4>1, <4>2, <4>3, PicksFacts DEF Names
    <3>2. tabs' = [tabs EXCEPT ![t].sel = f]
      BY <1>5, <2>2 DEF Tick, StorageInv, StorageType
    <3> HIDE DEF f
    <3> QED
      BY <1>1, <1>2, <3>1, <3>2, SelStep
  <2> QED
    BY <2>1, <2>2
<1>6. CASE SelectAll(t)
  <2> DEFINE f == [i \in DOMAIN Listed |-> Listed[i]]
  <2>1. f \in Picks /\ Names(f)
    <3>1. f \in [DOMAIN Listed -> Nat] /\ DOMAIN Listed \in SUBSET Nat
      BY <1>4
    <3> QED
      BY <3>1, PicksFacts DEF Names
  <2>2. tabs' = [tabs EXCEPT ![t].sel = f]
    BY <1>6 DEF SelectAll
  <2> HIDE DEF f
  <2> QED
    BY <1>1, <1>2, <2>1, <2>2, SelStep
<1>7. CASE ClearSelection(t)
  <2>1. NoPicks \in Picks /\ Names(NoPicks)
    BY PicksFacts DEF Names
  <2> QED
    BY <1>1, <1>2, <1>7, <2>1, SelStep DEF ClearSelection
<1>8. ASSUME NEW whole \in BOOLEAN, NEW picks \in Picks, Names(picks), Gate(t, whole, picks)
      PROVE  StorageInv'
  <2> DEFINE g == [open |-> TRUE, whole |-> whole, picks |-> picks]
  <2>1. g \in Gates /\ g.picks = picks
    BY DEF Gates
  <2>2. tabs' = [tabs EXCEPT ![t].pending = g]
    BY <1>8 DEF Gate
  <2> HIDE DEF g
  <2> QED
    BY <1>1, <1>2, <1>8, <2>1, <2>2, GateStep
<1>9. CASE AskDelete(t)
  <2> DEFINE rows == DOMAIN sel \cap DOMAIN Listed
             f == Restrict(sel, rows)
  <2>1. f \in [rows -> Nat] /\ rows \in SUBSET Nat /\ \A j \in DOMAIN f : j \in rows /\ f[j] = sel[j]
    BY <1>4 DEF Restrict
  <2>2. Gate(t, FALSE, f)
    BY <1>9 DEF AskDelete
  <2> HIDE DEF f
  <2>3. f \in Picks /\ Names(f)
    BY <1>3, <2>1, PicksFacts DEF Names
  <2> QED
    BY <1>8, <2>2, <2>3
<1>10. ASSUME NEW i, AskDeleteRow(t, i) PROVE StorageInv'
  <2> DEFINE f == Pick(i)
  <2>1. i \in DOMAIN Listed /\ Gate(t, FALSE, f)
    BY <1>10 DEF AskDeleteRow
  <2>2. f \in [{i} -> Nat] /\ {i} \in SUBSET Nat /\ f[i] = Listed[i]
    BY <1>4, <2>1, PicksFacts DEF Pick, Bind
  <2> HIDE DEF f
  <2>3. f \in Picks /\ Names(f)
    BY <2>1, <2>2, PicksFacts DEF Names
  <2> QED
    BY <1>8, <2>1, <2>3
<1>11. CASE AskDeleteDataset(t)
  <2>1. NoPicks \in Picks /\ Names(NoPicks)
    BY PicksFacts DEF Names
  <2> QED
    BY <1>8, <1>11, <2>1 DEF AskDeleteDataset
<1>12. CASE CancelDelete(t)
  <2>1. NoGate \in Gates /\ Names(NoGate.picks)
    BY FreshFacts, PicksFacts DEF Names
  <2> QED
    BY <1>1, <1>2, <1>12, <2>1, GateStep DEF CancelDelete
<1> QED
  BY <1>5, <1>6, <1>7, <1>9, <1>10, <1>11, <1>12

\* What _do_delete leaves of a tab names nothing.
LEMMA AfterDeleteFacts ==
  ASSUME NEW tab \in TabStates
  PROVE  /\ AfterDelete(tab) \in TabStates
         /\ AfterDelete(tab).sel = NoPicks /\ AfterDelete(tab).pending = NoGate
         /\ AfterDelete(tab).logged = {}
BY FreshFacts, PicksFacts DEF AfterDelete, TabStates

\* A step after which every tab holds nothing, whatever it did to the disk.
LEMMA ClearedStep ==
  ASSUME \A t \in Tabs : /\ tabs'[t].sel = NoPicks /\ tabs'[t].pending = NoGate
                         /\ tabs'[t].logged = {}
  PROVE  PickInv'
<1>1. DOMAIN NoPicks = {} /\ NoGate.picks = NoPicks
  BY PicksFacts, FreshFacts
<1> QED
  BY <1>1 DEF PickInv, Names

\* ... or begins an edit, after what an earlier one left is removed.
LEMMA BeginsStep ==
  ASSUME OneOperator, StorageInv, NEW t \in Tabs, Confirm(t),
         BeginsEdit(t, DOMAIN tabs[t].pending.picks)
  PROVE  StorageInv'
<1> DEFINE picks == tabs[t].pending.picks
           drop == DOMAIN picks
<1>1. edit.phase = "none" /\ renaming = {} /\ Free(t) /\ ~collecting /\ "ds" \in DOMAIN dirs
  BY FreeFacts DEF Confirm, OneOperator
<1>2. Names(picks) /\ drop \subseteq Nat /\ drop \subseteq DOMAIN Listed
  <2>1. picks \in Picks
    BY DEF StorageInv, StorageType, TabStates, Gates
  <2> QED
    BY <1>1, <2>1, PicksFacts DEF Confirm, StorageInv, PickInv
<1>3. /\ dirs' = Restrict(dirs, DOMAIN dirs \ {"editing", "old"})
      /\ swept' = swept \cup (OnDisk \ Range(Listed))
      /\ chosen' = chosen \cup Range(picks)
      /\ edit' = [phase |-> "build", tab |-> t, drop |-> drop]
      /\ UNCHANGED <<recorded, collecting, tabs, skills, renaming, viewer>>
  BY DEF Confirm, BeginsEdit, Without, skillVars
<1> HIDE DEF drop
<1>4. DOMAIN dirs' = {"ds"} /\ dirs'["ds"] = dirs["ds"]
  BY <1>1, <1>3 DEF Restrict, StorageInv, StorageType, Folders
<1>5. Listed = dirs["ds"] /\ Listed' = Listed
  BY <1>1, <1>4 DEF Listed
<1>6. StorageType'
  <2>1. edit' \in [phase : EditPhases, tab : Tabs, drop : SUBSET Nat]
    BY <1>2, <1>3 DEF EditPhases
  <2>2. dirs'["ds"] \in Seq(Nat) /\ DOMAIN dirs' \subseteq Folders
    BY <1>1, <1>4 DEF StorageInv, StorageType, Folders
  <2> QED
    BY <1>3, <1>4, <2>1, <2>2 DEF StorageInv, StorageType
<1>7. EditInv'
  <2>1. \A i \in drop : dirs'["ds"][i] \in chosen'
    BY <1>2, <1>3, <1>4, <1>5 DEF Names, Range, drop
  <2> QED
    BY <1>1, <1>3, <1>4, <2>1 DEF EditInv
<1>8. PickInv'
  BY <1>1, <1>3, <1>5 DEF StorageInv, PickInv, Names
<1>9. RenameInv'
  BY <1>3 DEF StorageInv, RenameInv
<1>10. EpisodesLostByChoice'
  <2>1. Range(Listed) \subseteq OnDisk'
    BY <1>4, <1>5 DEF OnDisk
  <2> QED
    BY <1>3, <2>1 DEF StorageInv, EpisodesLostByChoice
<1> QED
  BY <1>6, <1>7, <1>8, <1>9, <1>10 DEF StorageInv

\* The recorder resumes or creates the dataset, and appends to it: the rows that
\* are there keep their places.
LEMMA RecorderStep ==
  ASSUME OneOperator, StorageInv,
         (\E t \in Tabs : StartCollection(t)) \/ SaveEpisode \/ EndCollection
  PROVE  StorageInv'
<1>1. /\ UNCHANGED <<edit, chosen, swept, skills, renaming, tabs, viewer>>
      /\ collecting' \in BOOLEAN
  BY DEF StartCollection, SaveEpisode, EndCollection, skillVars, StorageInv, StorageType
<1>2. edit.phase = "none"
  <2>1. CASE \E t \in Tabs : StartCollection(t)
    BY <2>1, FreeFacts DEF StartCollection
  <2>2. CASE collecting
    BY <2>2 DEF StorageInv, EditInv
  <2> QED
    BY <2>1, <2>2 DEF SaveEpisode, EndCollection
<1>3. RenameInv' /\ EditInv'
  BY <1>1, <1>2 DEF StorageInv, RenameInv, EditInv
<1>4. Listed \in Seq(Nat) /\ DOMAIN Listed = 1 .. Len(Listed)
  BY ListedFacts DEF StorageInv
<1>5. ASSUME NEW list \in Seq(Nat), dirs' = Bind(dirs, "ds", list), recorded' \in Nat,
             \A i \in DOMAIN Listed : i \in DOMAIN list /\ list[i] = Listed[i],
             1 .. recorded' \subseteq (1 .. recorded) \cup Range(list)
      PROVE  StorageInv'
  <2>1. /\ DOMAIN dirs' = DOMAIN dirs \cup {"ds"} /\ dirs'["ds"] = list
        /\ \A d \in DOMAIN dirs \ {"ds"} : dirs'[d] = dirs[d]
    BY <1>5 DEF Bind
  <2>2. Listed' = list
    BY <2>1 DEF Listed
  <2>3. StorageType'
    BY <1>1, <1>5, <2>1 DEF StorageInv, StorageType, Folders
  <2>4. PickInv'
    BY <1>1, <1>2, <1>5, <2>2 DEF StorageInv, PickInv, Names
  <2>5. EpisodesLostByChoice'
    <3>1. Range(Listed) \subseteq Range(list)
      BY <1>5 DEF Range
    <3>2. ASSUME NEW e \in OnDisk PROVE e \in OnDisk'
      <4>1. PICK d \in DOMAIN dirs : e \in Range(dirs[d])
        BY DEF OnDisk
      <4>2. d \in DOMAIN dirs' /\ e \in Range(dirs'[d])
        BY <2>1, <3>1, <4>1 DEF Listed
      <4> QED
        BY <4>2 DEF OnDisk
    <3>3. Range(list) \subseteq OnDisk'
      BY <2>1 DEF OnDisk
    <3> QED
      BY <1>1, <1>5, <3>2, <3>3 DEF StorageInv, EpisodesLostByChoice
  <2> QED
    BY <1>3, <2>3, <2>4, <2>5 DEF StorageInv
<1>6. CASE \E t \in Tabs : StartCollection(t)
  BY <1>4, <1>5, <1>6 DEF StartCollection, StorageInv, StorageType
<1>7. CASE SaveEpisode
  <2> DEFINE list == Append(Listed, recorded + 1)
  <2>1. recorded \in Nat
    BY DEF StorageInv, StorageType
  <2>2. /\ list \in Seq(Nat) /\ Len(list) = Len(Listed) + 1 /\ DOMAIN list = 1 .. Len(list)
        /\ list[Len(Listed) + 1] = recorded + 1
        /\ \A i \in 1 .. Len(Listed) : list[i] = Listed[i]
    BY <1>4, <2>1
  <2>3. dirs' = Bind(dirs, "ds", list) /\ recorded' = recorded + 1
    BY <1>7 DEF SaveEpisode
  <2>4. Len(Listed) \in Nat
    BY <1>4
  <2> HIDE DEF list
  <2>5. \A i \in DOMAIN Listed : i \in DOMAIN list /\ list[i] = Listed[i]
    BY <1>4, <2>2, <2>4
  <2>6. recorded + 1 \in Range(list)
    BY <2>2, <2>4 DEF Range
  <2>7. 1 .. recorded' \subseteq (1 .. recorded) \cup Range(list)
    BY <2>1, <2>3, <2>6
  <2> QED
    BY <1>5, <2>1, <2>2, <2>3, <2>5, <2>7
<1>8. CASE EndCollection
  <2>1. UNCHANGED <<dirs, recorded>>
    BY <1>8 DEF EndCollection
  <2>2. StorageType' /\ EpisodesLostByChoice' /\ PickInv'
    BY <1>1, <2>1 DEF StorageInv, StorageType, EpisodesLostByChoice, OnDisk, PickInv, Names, Listed
  <2> QED
    BY <1>3, <2>2 DEF StorageInv
<1> QED
  BY <1>6, <1>7, <1>8

\* The replay panel's controls keep what it says is loaded.
LEMMA ReplayPanelStep ==
  ASSUME OneOperator, StorageInv, NEW t \in Tabs, ReplayStep(t)
  PROVE  StorageInv'
<1>1. Free(t) /\ UNCHANGED <<diskVars, skillVars>>
  BY DEF ReplayStep, PickReplay, RenderReplay, CloseReplay, ResetReplay
<1>2. edit.phase = "none"
  BY <1>1, FreeFacts
<1>3. Listed' = Listed
  BY <1>1 DEF Listed, diskVars
<1>4. /\ tabs \in [Tabs -> TabStates] /\ Names(tabs[t].sel) /\ Names(tabs[t].pending.picks)
      /\ viewer # {} => \A i \in tabs[t].logged : i \in DOMAIN Listed /\ viewer = {Listed[i]}
  BY <1>2 DEF StorageInv, StorageType, PickInv
<1>5. DOMAIN Listed \subseteq Nat
  BY ListedFacts DEF StorageInv
<1>6. ASSUME NEW T \in SUBSET Nat, NEW L \in SUBSET Nat,
             tabs' = [tabs EXCEPT ![t].target = T, ![t].logged = L],
             viewer' # {} => \A i \in L : i \in DOMAIN Listed /\ viewer' = {Listed[i]}
      PROVE  StorageInv'
  <2> DEFINE q == tabs[t]
             r == [q EXCEPT !.target = T, !.logged = L]
  <2>1. tabs' = [tabs EXCEPT ![t] = r]
    BY <1>4, <1>6
  <2>2. q \in TabStates
    BY <1>4
  <2> HIDE DEF q
  <2>3. r \in TabStates /\ r.sel = q.sel /\ r.pending = q.pending /\ r.logged = L
    BY <2>2 DEF TabStates
  <2> HIDE DEF r
  <2>4. \A u \in Tabs : tabs'[u] = r
    BY <1>4, <2>1 DEF OneOperator
  <2>5. PickInv'
    BY <1>3, <1>4, <1>6, <2>3, <2>4 DEF PickInv, Names, q
  <2>6. StorageType' /\ EditInv' /\ EpisodesLostByChoice' /\ RenameInv'
    BY <1>1, <1>4, <2>1, <2>3 DEF StorageInv, StorageType, EditInv, EpisodesLostByChoice, RenameInv,
                                  OnDisk, diskVars, skillVars
  <2> QED
    BY <2>5, <2>6 DEF StorageInv
<1>7. tabs[t] \in TabStates /\ tabs[t].target \in SUBSET Nat /\ tabs[t].logged \in SUBSET Nat
  BY <1>4 DEF TabStates
<1>8. ASSUME NEW i, PickReplay(t, i) PROVE StorageInv'
  <2>1. {i} \in SUBSET Nat /\ viewer' = viewer /\ tabs' = [tabs EXCEPT ![t].target = {i}]
    BY <1>5, <1>8 DEF PickReplay
  <2>2. tabs' = [tabs EXCEPT ![t].target = {i}, ![t].logged = tabs[t].logged]
    BY <1>4, <2>1 DEF TabStates
  <2>3. viewer' # {} => \A j \in tabs[t].logged : j \in DOMAIN Listed /\ viewer' = {Listed[j]}
    BY <1>4, <2>1
  <2> QED
    BY <1>6, <1>7, <2>1, <2>2, <2>3
<1>9. CASE RenderReplay(t)
  <2>1. PICK i \in tabs[t].target :
          \/ tabs' = [tabs EXCEPT ![t].target = {}, ![t].logged = {}]
          \/ i \in DOMAIN Listed /\ tabs' = [tabs EXCEPT ![t].logged = {i}] /\ viewer' = {Listed[i]}
    BY <1>9 DEF RenderReplay
  <2>2. CASE tabs' = [tabs EXCEPT ![t].target = {}, ![t].logged = {}]
    BY <1>6, <2>2
  <2>3. CASE i \in DOMAIN Listed /\ tabs' = [tabs EXCEPT ![t].logged = {i}] /\ viewer' = {Listed[i]}
    <3>1. {i} \in SUBSET Nat
      BY <1>5, <2>3
    <3>2. tabs' = [tabs EXCEPT ![t].target = tabs[t].target, ![t].logged = {i}]
      BY <1>4, <2>3 DEF TabStates
    <3> QED
      BY <1>6, <1>7, <2>3, <3>1, <3>2
  <2> QED
    BY <2>1, <2>2, <2>3
<1>10. CASE CloseReplay(t)
  BY <1>6, <1>10 DEF CloseReplay
<1>11. CASE ResetReplay(t)
  <2>1. viewer' = {} /\ tabs' = tabs
    BY <1>11 DEF ResetReplay
  <2>2. PickInv'
    BY <1>1, <1>2, <1>3, <2>1 DEF StorageInv, PickInv, Names
  <2>3. StorageType' /\ EditInv' /\ EpisodesLostByChoice' /\ RenameInv'
    BY <1>1, <2>1 DEF StorageInv, StorageType, EditInv, EpisodesLostByChoice, RenameInv,
                      OnDisk, diskVars, skillVars
  <2> QED
    BY <2>2, <2>3 DEF StorageInv
<1> QED
  BY <1>8, <1>9, <1>10, <1>11 DEF ReplayStep

\* A step that leaves disk, tabs and viewer alone.
LEMMA SkillsOnly ==
  ASSUME StorageInv, UNCHANGED <<diskVars, tabs, viewer>>, RenameInv'
  PROVE  StorageInv'
<1>1. StorageType' /\ EditInv' /\ EpisodesLostByChoice' /\ PickInv'
  BY SMTT(30) DEF StorageInv, StorageType, EditInv, EpisodesLostByChoice, PickInv, Names, Listed,
         OnDisk, diskVars
<1> QED
  BY <1>1 DEF StorageInv

\* No step of the skills' controls loses a trajectory that is not deleted or taught
\* again: rename_skill refuses a name in use and unlinks last.
LEMMA SkillControls ==
  ASSUME OneOperator, StorageInv, NEW t \in Tabs, SkillStep(t)
  PROVE  StorageInv' /\ SkillsLostByChoice
<1>1. UNCHANGED <<diskVars, tabs, viewer>>
  BY DEF SkillStep, Teach, RenameSkill, RenameUnlinks, DeleteSkill
<1>2. ASSUME NEW i, Teach(t, i) PROVE StorageInv' /\ SkillsLostByChoice
  <2>1. skills' = Bind(skills, i, Listed[i]) /\ renaming = {} /\ renaming' = {}
    BY <1>2, FreeFacts DEF Teach
  <2>2. RenameInv'
    BY <2>1 DEF RenameInv
  <2>3. ASSUME NEW n \in DOMAIN skills, n # i PROVE skills[n] \in Range(skills')
    <3>1. n \in DOMAIN skills' /\ skills'[n] = skills[n]
      BY <2>1, <2>3 DEF Bind
    <3> QED
      BY <3>1 DEF Range
  <2>4. SkillsLostByChoice
    BY <1>2, <2>3 DEF SkillsLostByChoice
  <2> QED
    BY <1>1, <2>2, <2>4, SkillsOnly
<1>3. ASSUME NEW old, NEW new, RenameSkill(t, old, new) PROVE StorageInv' /\ SkillsLostByChoice
  <2>1. /\ skills' = Bind(skills, new, skills[old]) /\ renaming' = {<<t, old>>}
        /\ old \in DOMAIN skills /\ old # new /\ new \notin DOMAIN skills
    BY <1>3 DEF RenameSkill
  <2>2. /\ DOMAIN skills' = DOMAIN skills \cup {new} /\ skills'[new] = skills[old]
        /\ \A n \in DOMAIN skills : skills'[n] = skills[n]
    BY <2>1 DEF Bind
  <2>3. RenameInv'
    BY <2>1, <2>2 DEF RenameInv
  <2>4. SkillsLostByChoice
    BY <2>2 DEF SkillsLostByChoice, Range
  <2> QED
    BY <1>1, <2>3, <2>4, SkillsOnly
<1>4. CASE RenameUnlinks
  <2>1. PICK r \in renaming : skills' = Restrict(skills, DOMAIN skills \ {r[2]})
    BY <1>4 DEF RenameUnlinks
  <2>2. renaming' = {} /\ RenameInv'
    BY <1>4 DEF RenameUnlinks, RenameInv
  <2>3. PICK m \in DOMAIN skills : m # r[2] /\ skills[m] = skills[r[2]]
    BY DEF StorageInv, RenameInv
  <2>4. \A n \in DOMAIN skills \ {r[2]} : n \in DOMAIN skills' /\ skills'[n] = skills[n]
    BY <2>1 DEF Restrict
  <2>5. ASSUME NEW n \in DOMAIN skills PROVE skills[n] \in Range(skills')
    <3>1. PICK k \in DOMAIN skills \ {r[2]} : skills[k] = skills[n]
      BY <2>3
    <3> QED
      BY <2>4, <3>1 DEF Range
  <2>6. SkillsLostByChoice
    BY <2>5 DEF SkillsLostByChoice
  <2> QED
    BY <1>1, <2>2, <2>6, SkillsOnly
<1>5. ASSUME NEW n, DeleteSkill(t, n) PROVE StorageInv' /\ SkillsLostByChoice
  <2>1. skills' = Restrict(skills, DOMAIN skills \ {n}) /\ renaming' = {}
    BY <1>5 DEF DeleteSkill
  <2>2. RenameInv'
    BY <2>1 DEF RenameInv
  <2>3. ASSUME NEW k \in DOMAIN skills, k # n PROVE skills[k] \in Range(skills')
    <3>1. k \in DOMAIN skills' /\ skills'[k] = skills[k]
      BY <2>1, <2>3 DEF Restrict
    <3> QED
      BY <3>1 DEF Range
  <2>4. SkillsLostByChoice
    BY <1>5, <2>3 DEF SkillsLostByChoice
  <2> QED
    BY <1>1, <2>2, <2>4, SkillsOnly
<1> QED
  BY <1>2, <1>3, <1>4, <1>5 DEF SkillStep

\* A step that leaves the skills alone loses none.
LEMMA SkillsStay == skills' = skills => SkillsLostByChoice
BY DEF SkillsLostByChoice, Range

\* The dashboard dies: the tabs start afresh, and the disk is as it was.
LEMMA CrashStep == OneOperator /\ StorageInv /\ Crash => StorageInv'
<1> SUFFICES ASSUME OneOperator, StorageInv, Crash PROVE StorageInv'
  OBVIOUS
<1>1. /\ UNCHANGED <<dirs, recorded, collecting, chosen, swept>>
      /\ edit' = NoEdit /\ renaming' = {} /\ tabs' = [t \in Tabs |-> FreshTab]
  BY DEF Crash
<1>2. NoEdit \in [phase : EditPhases, tab : Tabs, drop : SUBSET Nat] /\ NoEdit.phase = "none"
  BY DEF NoEdit, EditPhases, OneOperator
<1>3. StorageType'
  BY <1>1, <1>2, FreshFacts DEF StorageInv, StorageType
<1>4. EditInv' /\ RenameInv'
  BY <1>1, <1>2 DEF EditInv, RenameInv
<1>5. EpisodesLostByChoice'
  BY <1>1 DEF StorageInv, EpisodesLostByChoice, OnDisk
<1>6. PickInv'
  BY <1>1, FreshFacts, ClearedStep
<1> QED
  BY <1>3, <1>4, <1>5, <1>6 DEF StorageInv

\* The dataset holds both its episodes, and nothing was picked.
LEMMA StorageInitInv == OneOperator /\ StorageInit => StorageInv
<1> SUFFICES ASSUME OneOperator, StorageInit PROVE StorageInv
  OBVIOUS
<1>1. DOMAIN dirs = {"ds"} /\ dirs["ds"] = <<1, 2>>
  BY DEF StorageInit
<1>2. NoEdit \in [phase : EditPhases, tab : Tabs, drop : SUBSET Nat] /\ NoEdit.phase = "none"
  BY DEF NoEdit, EditPhases, OneOperator
<1>3. StorageType
  <2>1. <<1, 2>> \in Seq(Nat)
    OBVIOUS
  <2>2. tabs \in [Tabs -> TabStates]
    BY FreshFacts DEF StorageInit
  <2> QED
    BY <1>1, <1>2, <2>1, <2>2 DEF StorageInit, StorageType, Folders
<1>4. EditInv /\ RenameInv
  BY <1>2 DEF StorageInit, EditInv, RenameInv
<1>5. EpisodesLostByChoice
  BY <1>1 DEF StorageInit, EpisodesLostByChoice, OnDisk, Range
<1>6. PickInv
  BY FreshFacts, PicksFacts DEF StorageInit, PickInv, Names
<1> QED
  BY <1>3, <1>4, <1>5, <1>6 DEF StorageInv

\* The rebuilt copy is a dataset, and every row that is not dropped is in it.
LEMMA KeptFacts ==
  ASSUME StorageType, NEW drop
  PROVE  Kept(drop) \in Seq(Nat) /\ \A i \in DOMAIN Listed \ drop : Listed[i] \in Range(Kept(drop))
<1> DEFINE rows == DOMAIN Listed \ drop
           upTo(i) == {j \in rows : j <= i}
           place(i) == Cardinality(upTo(i))
           size == Cardinality(rows)
           f == [i \in rows |-> place(i)]
<1>1. Len(Listed) \in Nat /\ rows \subseteq 1 .. Len(Listed) /\ \A i \in rows : Listed[i] \in Nat
  BY ListedFacts
<1>2. IsFiniteSet(rows) /\ size \in Nat
  <2>1. IsFiniteSet(1 .. Len(Listed))
    BY <1>1, FS_Interval
  <2>2. IsFiniteSet(rows)
    BY <1>1, <2>1, FS_Subset
  <2> QED
    BY <2>2, FS_CardinalityType
<1>3. ASSUME NEW i \in rows PROVE IsFiniteSet(upTo(i)) /\ place(i) \in 1 .. size
  <2>1. upTo(i) \in SUBSET rows
    OBVIOUS
  <2>2. IsFiniteSet(upTo(i)) /\ place(i) <= size /\ place(i) \in Nat
    BY <1>2, <2>1, FS_Subset, FS_CardinalityType
  <2>3. place(i) # 0
    BY <1>1, <2>2, FS_EmptySet
  <2> QED
    BY <1>2, <2>2, <2>3
<1>4. ASSUME NEW i \in rows, NEW k \in rows, i < k PROVE place(i) # place(k)
  <2>1. upTo(i) \in SUBSET upTo(k) /\ k \in upTo(k) /\ k \notin upTo(i)
    BY <1>1, <1>4
  <2>2. IsFiniteSet(upTo(k))
    BY <1>3
  <2> HIDE DEF upTo
  <2> QED
    BY <2>1, <2>2, FS_Subset
<1>5. f \in Injection(rows, 1 .. size)
  <2>1. f \in [rows -> 1 .. size]
    BY <1>3
  <2>2. ASSUME NEW i \in rows, NEW k \in rows, f[i] = f[k] PROVE i = k
    <3>1. place(i) = place(k) /\ i \in Int /\ k \in Int
      BY <1>1, <2>2
    <3> QED
      BY <1>4, <3>1
  <2> HIDE DEF f, rows, size
  <2> QED
    BY <2>1, <2>2 DEF Injection, IsInjective
<1>6. f \in Surjection(rows, 1 .. size)
  <2>1. IsFiniteSet(1 .. size) /\ Cardinality(1 .. size) = size
    BY <1>2, FS_Interval
  <2> HIDE DEF f
  <2> QED
    BY <1>5, <2>1, FS_Injection
<1>7. \A n \in 1 .. size : \E i \in rows : place(i) = n
  <2>1. \A n \in 1 .. size : \E i \in rows : f[i] = n
    <3> HIDE DEF f, rows, size
    <3> QED
      BY <1>6 DEF Surjection
  <2> QED
    BY <2>1
<1> DEFINE at(n) == CHOOSE i \in rows : place(i) = n
<1>8. \A n \in 1 .. size : at(n) \in rows /\ place(at(n)) = n
  BY <1>7
<1>9. Kept(drop) = [n \in 1 .. size |-> Listed[at(n)]]
  BY DEF Kept
<1>10. Kept(drop) \in Seq(Nat)
  <2>1. Kept(drop) \in [1 .. size -> Nat]
    <3> HIDE DEF at, rows, size
    <3> QED
      BY <1>1, <1>8, <1>9
  <2> HIDE DEF size
  <2> QED
    BY <1>2, <2>1
<1>11. ASSUME NEW i \in rows PROVE Listed[i] \in Range(Kept(drop))
  <2>1. place(i) \in 1 .. size
    BY <1>3
  <2>2. at(place(i)) = i
    <3>1. at(place(i)) \in rows /\ place(at(place(i))) = place(i)
      BY <1>8, <2>1
    <3>2. at(place(i)) \in Int /\ i \in Int
      BY <1>1, <3>1
    <3> HIDE DEF at, place
    <3> QED
      BY <1>4, <3>1, <3>2
  <2>3. place(i) \in DOMAIN Kept(drop) /\ Kept(drop)[place(i)] = Listed[i]
    <3> HIDE DEF at, place
    <3> QED
      BY <1>9, <2>1, <2>2
  <2> QED
    BY <2>3 DEF Range
<1> QED
  BY <1>10, <1>11

\* Confirming removes the folder, whose every episode was chosen ...
LEMMA RemovesStep ==
  ASSUME OneOperator, StorageInv, NEW t \in Tabs, Confirm(t), RemovesFolder(t),
         tabs[t].pending.whole \/ Cardinality(DOMAIN tabs[t].pending.picks) >= Len(Listed)
  PROVE  StorageInv'
<1> DEFINE picks == tabs[t].pending.picks
<1>1. edit.phase = "none" /\ renaming = {} /\ Free(t)
  BY FreeFacts DEF Confirm
<1>2. tabs \in [Tabs -> TabStates] /\ tabs' = [tabs EXCEPT ![t] = AfterDelete(tabs[t])]
  BY DEF StorageInv, StorageType, RemovesFolder
<1>3. AfterDelete(tabs[t]) \in TabStates
  BY <1>2, AfterDeleteFacts
<1>4. PickInv'
  <2>1. \A u \in Tabs : u = t
    BY DEF OneOperator
  <2>2. tabs'[t] = AfterDelete(tabs[t])
    BY <1>2
  <2> QED
    BY <1>2, <2>1, <2>2, AfterDeleteFacts, ClearedStep
<1>5. /\ dirs' = Restrict(dirs, DOMAIN dirs \ {"ds"})
      /\ chosen' = chosen \cup Range(IF tabs[t].pending.whole THEN Listed ELSE picks)
      /\ UNCHANGED <<recorded, collecting, edit, swept, skills, renaming>>
  BY DEF Confirm, RemovesFolder, Without, skillVars
<1>6. StorageType'
  BY <1>2, <1>3, <1>5, SMTT(30) DEF StorageInv, StorageType, Restrict
<1>7. EditInv' /\ RenameInv'
  BY <1>1, <1>5 DEF StorageInv, EditInv, RenameInv
<1>8. Range(Listed) \subseteq chosen'
  <2>1. CASE ~tabs[t].pending.whole
    <3>1. DOMAIN picks \subseteq DOMAIN Listed /\ Names(picks)
      BY <1>1 DEF Confirm, StorageInv, PickInv
    <3>2. IsFiniteSet(DOMAIN Listed) /\ Cardinality(DOMAIN Listed) = Len(Listed)
      BY ListedFacts, FS_Interval DEF StorageInv
    <3>3. DOMAIN picks = DOMAIN Listed
      <4>1. Cardinality(DOMAIN picks) <= Cardinality(DOMAIN Listed) /\ IsFiniteSet(DOMAIN picks)
        BY <3>1, <3>2, FS_Subset
      <4>2. Cardinality(DOMAIN picks) \in Nat /\ Len(Listed) \in Nat
        BY <4>1, FS_CardinalityType, ListedFacts DEF StorageInv
      <4> QED
        BY <2>1, <3>1, <3>2, <4>1, <4>2, FS_Subset
    <3> QED
      BY <1>5, <2>1, <3>1, <3>3, SMTT(30) DEF Names, Range
  <2> QED
    BY <1>5, <2>1, SMTT(30)
<1>9. EpisodesLostByChoice'
  <2>1. ASSUME NEW e \in OnDisk PROVE e \in OnDisk' \/ e \in chosen'
    <3>1. PICK d \in DOMAIN dirs : e \in Range(dirs[d])
      BY DEF OnDisk
    <3>2. CASE d = "ds"
      BY <1>8, <3>1, <3>2 DEF Listed
    <3>3. CASE d # "ds"
      <4>1. d \in DOMAIN dirs' /\ dirs'[d] = dirs[d]
        BY <1>5, <3>3 DEF Restrict
      <4> QED
        BY <3>1, <4>1 DEF OnDisk
    <3> QED
      BY <3>2, <3>3
  <2> QED
    BY <1>5, <2>1 DEF StorageInv, EpisodesLostByChoice
<1> QED
  BY <1>4, <1>6, <1>7, <1>9 DEF StorageInv

\* A step of an edit keeps the edit's tab to itself and nothing is picked meanwhile.
LEMMA EditStep ==
  ASSUME OneOperator, StorageInv, Build \/ MoveAside \/ Promote \/ EndsEdit
  PROVE  StorageInv'
<1>1. /\ edit.phase # "none" /\ ~collecting
      /\ UNCHANGED <<recorded, collecting, chosen, swept, skills, renaming, viewer>>
  BY DEF Build, MoveAside, Promote, EndsEdit, Editing, skillVars, StorageInv, EditInv
<1>2. RenameInv'
  BY <1>1 DEF StorageInv, RenameInv
<1>3. NoEdit \in [phase : EditPhases, tab : Tabs, drop : SUBSET Nat] /\ NoEdit.phase = "none"
  BY DEF NoEdit, EditPhases, OneOperator
<1>4. \A e \in [phase : EditPhases, tab : Tabs, drop : SUBSET Nat], p \in EditPhases :
         /\ [e EXCEPT !.phase = p] \in [phase : EditPhases, tab : Tabs, drop : SUBSET Nat]
         /\ [e EXCEPT !.phase = p].phase = p
  OBVIOUS
<1>5. edit \in [phase : EditPhases, tab : Tabs, drop : SUBSET Nat]
  BY DEF StorageInv, StorageType
<1>6. CASE Build
  <2>1. edit.phase = "build" /\ DOMAIN dirs = {"ds"} /\ UNCHANGED tabs
    BY <1>6 DEF Build, Editing, StorageInv, EditInv
  <2>2. Listed = dirs["ds"] /\ dirs["ds"] \in Seq(Nat)
    BY <2>1 DEF Listed, StorageInv, StorageType
  <2>3. CASE edit' = [edit EXCEPT !.phase = "aside"] /\ dirs' = Bind(dirs, "editing", Kept(edit.drop))
    <3>1. /\ DOMAIN dirs' = {"ds", "editing"} /\ dirs'["ds"] = dirs["ds"]
          /\ dirs'["editing"] = Kept(edit.drop)
      BY <2>1, <2>3 DEF Bind
    <3>2. Listed' = Listed
      BY <2>2, <3>1 DEF Listed
    <3>3. edit' \in [phase : EditPhases, tab : Tabs, drop : SUBSET Nat] /\ edit'.phase = "aside"
      BY <1>4, <1>5, <2>3 DEF EditPhases
    <3>4. /\ Kept(edit.drop) \in Seq(Nat)
          /\ \A i \in DOMAIN Listed \ edit.drop : Listed[i] \in Range(Kept(edit.drop))
      BY KeptFacts DEF StorageInv
    <3>5. StorageType'
      BY <1>1, <2>1, <2>2, <3>1, <3>3, <3>4 DEF StorageInv, StorageType, Folders
    <3>6. EditInv'
      <4>1. Range(dirs["ds"]) \subseteq Range(Kept(edit.drop)) \cup chosen
        <5>1. ASSUME NEW i \in DOMAIN Listed PROVE Listed[i] \in Range(Kept(edit.drop)) \cup chosen
          BY <2>1, <2>2, <3>4 DEF StorageInv, EditInv
        <5> QED
          BY <2>2, <5>1 DEF Range
      <4> QED
        BY <1>1, <3>1, <3>3, <4>1 DEF EditInv
    <3>7. PickInv'
      BY <1>1, <2>1, <3>2 DEF StorageInv, PickInv, Names
    <3>8. EpisodesLostByChoice'
      <4>1. OnDisk \subseteq OnDisk'
        BY <2>1, <3>1 DEF OnDisk
      <4> QED
        BY <1>1, <4>1 DEF StorageInv, EpisodesLostByChoice
    <3> QED
      BY <1>2, <3>5, <3>6, <3>7, <3>8 DEF StorageInv
  <2>4. CASE edit' = NoEdit /\ Finally
    <3>1. DOMAIN dirs' = {"ds"} /\ dirs'["ds"] = dirs["ds"]
      BY <2>1, <2>4 DEF Finally, Without, Restrict
    <3>2. Listed' = Listed
      BY <2>2, <3>1 DEF Listed
    <3>3. StorageType'
      BY <1>1, <1>3, <2>1, <2>2, <2>4, <3>1 DEF StorageInv, StorageType, Folders
    <3>4. EditInv'
      BY <1>3, <2>4 DEF EditInv
    <3>5. PickInv'
      BY <1>1, <2>1, <3>2 DEF StorageInv, PickInv, Names
    <3>6. EpisodesLostByChoice'
      <4>1. OnDisk \subseteq OnDisk'
        BY <2>1, <3>1 DEF OnDisk
      <4> QED
        BY <1>1, <4>1 DEF StorageInv, EpisodesLostByChoice
    <3> QED
      BY <1>2, <3>3, <3>4, <3>5, <3>6 DEF StorageInv
  <2> QED
    BY <1>6, <2>3, <2>4 DEF Build
<1>7. CASE MoveAside
  <2>1. /\ edit.phase = "aside" /\ DOMAIN dirs = {"ds", "editing"} /\ UNCHANGED tabs
        /\ Range(dirs["ds"]) \subseteq Range(dirs["editing"]) \cup chosen
    BY <1>7 DEF MoveAside, Editing, StorageInv, EditInv
  <2>2. /\ edit' = [edit EXCEPT !.phase = "promote"]
        /\ dirs' = Bind(Without({"ds"}), "old", dirs["ds"])
    BY <1>7, <2>1 DEF MoveAside
  <2>3. /\ DOMAIN dirs' = {"editing", "old"} /\ dirs'["old"] = dirs["ds"]
        /\ dirs'["editing"] = dirs["editing"]
    BY <2>1, <2>2, SMTT(30) DEF Bind, Without, Restrict
  <2>4. edit' \in [phase : EditPhases, tab : Tabs, drop : SUBSET Nat] /\ edit'.phase = "promote"
    BY <1>4, <1>5, <2>2 DEF EditPhases
  <2>5. StorageType'
    BY <1>1, <2>1, <2>3, <2>4 DEF StorageInv, StorageType, Folders
  <2>6. EditInv'
    BY <1>1, <2>1, <2>3, <2>4 DEF EditInv
  <2>7. PickInv'
    BY <2>4 DEF PickInv
  <2>8. EpisodesLostByChoice'
    <3>1. OnDisk \subseteq OnDisk'
      BY <2>1, <2>3 DEF OnDisk
    <3> QED
      BY <1>1, <3>1 DEF StorageInv, EpisodesLostByChoice
  <2> QED
    BY <1>2, <2>5, <2>6, <2>7, <2>8 DEF StorageInv
<1>8. CASE Promote
  <2>1. /\ edit.phase = "promote" /\ DOMAIN dirs = {"editing", "old"} /\ UNCHANGED tabs
        /\ Range(dirs["old"]) \subseteq Range(dirs["editing"]) \cup chosen
    BY <1>8 DEF Promote, Editing, StorageInv, EditInv
  <2>2. /\ edit' = [edit EXCEPT !.phase = "clean"]
        /\ dirs' = Bind(Without({"editing"}), "ds", dirs["editing"])
    BY <1>8, <2>1 DEF Promote
  <2>3. /\ DOMAIN dirs' = {"ds", "old"} /\ dirs'["ds"] = dirs["editing"]
        /\ dirs'["old"] = dirs["old"]
    BY <2>1, <2>2, SMTT(30) DEF Bind, Without, Restrict
  <2>4. edit' \in [phase : EditPhases, tab : Tabs, drop : SUBSET Nat] /\ edit'.phase = "clean"
    BY <1>4, <1>5, <2>2 DEF EditPhases
  <2>5. StorageType'
    BY <1>1, <2>1, <2>3, <2>4 DEF StorageInv, StorageType, Folders
  <2>6. EditInv'
    BY <1>1, <2>1, <2>3, <2>4 DEF EditInv
  <2>7. PickInv'
    BY <2>4 DEF PickInv
  <2>8. EpisodesLostByChoice'
    <3>1. OnDisk \subseteq OnDisk'
      BY <2>1, <2>3 DEF OnDisk
    <3> QED
      BY <1>1, <3>1 DEF StorageInv, EpisodesLostByChoice
  <2> QED
    BY <1>2, <2>5, <2>6, <2>7, <2>8 DEF StorageInv
<1>9. CASE EndsEdit
  <2>1. /\ edit.phase = "clean" /\ DOMAIN dirs = {"ds", "old"} /\ edit' = NoEdit
        /\ Range(dirs["old"]) \subseteq Range(dirs["ds"]) \cup chosen
        /\ dirs' = Restrict(dirs, DOMAIN dirs \ {"editing", "old"})
        /\ tabs' = [tabs EXCEPT ![edit.tab] = AfterDelete(tabs[edit.tab])]
    BY <1>9 DEF EndsEdit, Editing, Finally, Without, StorageInv, EditInv
  <2>2. DOMAIN dirs' = {"ds"} /\ dirs'["ds"] = dirs["ds"]
    BY <2>1 DEF Restrict
  <2>3. edit.tab \in Tabs /\ \A u \in Tabs : u = edit.tab
    BY <1>5 DEF OneOperator
  <2>4. tabs \in [Tabs -> TabStates]
    BY DEF StorageInv, StorageType
  <2>5. AfterDelete(tabs[edit.tab]) \in TabStates
    BY <2>3, <2>4, AfterDeleteFacts
  <2>6. StorageType'
    BY <1>1, <1>3, <2>1, <2>2, <2>4, <2>5 DEF StorageInv, StorageType, Folders
  <2>7. EditInv'
    BY <1>3, <2>1 DEF EditInv
  <2>8. PickInv'
    <3>1. tabs'[edit.tab] = AfterDelete(tabs[edit.tab])
      BY <2>1, <2>3, <2>4
    <3> QED
      BY <2>3, <2>4, <3>1, AfterDeleteFacts, ClearedStep
  <2>9. EpisodesLostByChoice'
    <3>1. OnDisk \subseteq OnDisk' \cup chosen
      BY <2>1, <2>2 DEF OnDisk
    <3> QED
      BY <1>1, <3>1 DEF StorageInv, EpisodesLostByChoice
  <2> QED
    BY <1>2, <2>6, <2>7, <2>8, <2>9 DEF StorageInv
<1> QED
  BY <1>6, <1>7, <1>8, <1>9

\* Every step of the Storage tab, in whichever way it is used, keeps the invariant
\* and loses no skill unasked.
LEMMA StorageStep ==
  ASSUME OneOperator, StorageInv, NEW habit, StorageNext(habit)
  PROVE  StorageInv' /\ SkillsLostByChoice
<1>1. ASSUME NEW t \in Tabs, SelectionStep(t) \/ AskDeleteDataset(t) \/ CancelDelete(t)
                             \/ \E i \in 1 .. MaxEpisodes : AskDeleteRow(t, i)
      PROVE  StorageInv' /\ SkillsLostByChoice
  <2>1. skills' = skills
    BY <1>1 DEF SelectionStep, Tick, SelectAll, ClearSelection, AskDelete, AskDeleteRow,
                AskDeleteDataset, CancelDelete, Gate, Choosing, skillVars
  <2>2. StorageInv'
    BY <1>1, ChooseStep DEF SelectionStep
  <2> QED
    BY <2>1, <2>2, SkillsStay
<1>2. ASSUME NEW t \in Tabs, Confirm(t) PROVE StorageInv' /\ SkillsLostByChoice
  <2>1. skills' = skills
    BY <1>2 DEF Confirm, skillVars
  <2>2. StorageInv'
    BY <1>2, RemovesStep, BeginsStep DEF Confirm
  <2> QED
    BY <2>1, <2>2, SkillsStay
<1>3. ASSUME NEW t \in Tabs, ReplayStep(t) PROVE StorageInv' /\ SkillsLostByChoice
  <2>1. skills' = skills
    BY <1>3 DEF ReplayStep, PickReplay, RenderReplay, CloseReplay, ResetReplay, skillVars
  <2> QED
    BY <1>3, <2>1, ReplayPanelStep, SkillsStay
<1>4. CASE DiskStep \/ \E t \in Tabs : StartCollection(t)
  <2>1. skills' = skills
    BY <1>4 DEF DiskStep, Build, MoveAside, Promote, EndsEdit, Editing, SaveEpisode,
                EndCollection, Crash, StartCollection, skillVars
  <2>2. StorageInv'
    BY <1>4, EditStep, RecorderStep, CrashStep DEF DiskStep
  <2> QED
    BY <2>1, <2>2, SkillsStay
<1> QED
  BY <1>1, <1>2, <1>3, <1>4, SkillControls DEF StorageNext, DeleteStep

\* No step of the Storage tab breaks the invariant.
LEMMA StorageKept ==
  ASSUME OneOperator, StorageInv, [\E habit \in Habits : StorageNext(habit)]_storageVars
  PROVE  StorageInv'
<1>1. CASE \E habit \in Habits : StorageNext(habit)
  BY <1>1, StorageStep
<1>2. CASE UNCHANGED storageVars
  BY <1>2, SkillsOnly DEF storageVars, skillVars, StorageInv, RenameInv
<1> QED
  BY <1>1, <1>2

\* PanelShowsItsEpisode, with one operator: replay_target and replay_logged hold an
\* index across deletes that re-index, failed edits, recordings and crashes, and the
\* panel's heading still names the episode the viewer plays.
THEOREM PanelTheorem == ASSUME OneOperator PROVE StorageSpec => []PanelShowsItsEpisode
<1>1. StorageInit => StorageInv
  BY StorageInitInv
<1>2. StorageInv /\ [\E habit \in Habits : StorageNext(habit)]_storageVars => StorageInv'
  BY StorageKept
<1>3. StorageInv => PanelShowsItsEpisode
  BY DEF StorageInv, PickInv, PanelShowsItsEpisode
<1> QED
  BY <1>1, <1>2, <1>3, PTL DEF StorageSpec

\* NothingLostUnasked, with one operator: wherever the dashboard dies within the two
\* renames of delete_episodes or the two steps of rename_skill, an episode is on
\* disk unless it was picked or lay in a leftover, and a skill unless it was deleted
\* or taught again.
THEOREM NothingLostTheorem == ASSUME OneOperator PROVE StorageSpec => NothingLostUnasked
<1>1. StorageInit => StorageInv
  BY StorageInitInv
<1>2. StorageInv /\ [\E habit \in Habits : StorageNext(habit)]_storageVars => StorageInv'
  BY StorageKept
<1>3. StorageInv /\ [\E habit \in Habits : StorageNext(habit)]_storageVars
        => [EpisodesLostByChoice' /\ SkillsLostByChoice]_storageVars
  BY StorageStep DEF StorageInv
<1> QED
  BY <1>1, <1>2, <1>3, PTL DEF StorageSpec, NothingLostUnasked
=============================================================================
