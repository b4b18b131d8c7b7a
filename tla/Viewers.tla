------------------------------ MODULE Viewers ------------------------------
(***************************************************************************)
(* A session's producers with one of the two live viewers, chosen          *)
(* initially together with the streams it is started for.  The viewers are *)
(* separate processes that only read, so each is checked on its own, and   *)
(* streams it does not want are left out.                                  *)
(***************************************************************************)
EXTENDS ViserView, PlotPage

CONSTANTS MaxServers    \* bound: times the viewer's process is started

VARIABLES
    who,     \* "viser" or "plotly"
    slow,    \* does a process take longer to create its streams than a viewer's
             \* discovery period?  (spawning imports the packages again: seconds)
    looked   \* names that were unregistered when the viewer last discovered

vars == <<producerVars, readerVars, viserVars, plotVars, who, slow, looked>>

Init ==
    /\ ProducersInit /\ ReadersInit /\ ViserInit /\ PlotInit
    /\ \/ who = "viser" /\ wanted = {Hw, "q_horizon", "eef_horizon"}
       \/ who = "plotly" /\ wanted \in {{Hw}, {"comm"}}
    /\ slow \in BOOLEAN
    /\ looked = {}

\* With slow processes a discovery falls between two lives of a name.
GapSeen(names) == slow /\ up => names \subseteq looked
Looks(discovers) ==
    looked' = IF slow /\ discovers THEN {s \in wanted: seg[s] = 0} ELSE looked

ProducerStep ==
    /\ \/ Hw \in wanted /\ (NodeStep \/ (NodeDeclares /\ GapSeen({Hw})))
       \/ wanted # {Hw} /\ (RunStep \/ (RunAttaches(wanted) /\ GapSeen(Published(run.phase) \cap wanted)))
       \/ NewSession
    /\ looked' = {s \in looked: seg'[s] = 0}
    /\ UNCHANGED <<readerVars, viserVars, plotVars, who, slow>>

ViserStep ==
    /\ who = "viser"
    /\ \/ \E discovers \in BOOLEAN: ViserPass(discovers) /\ Looks(discovers) /\ UNCHANGED plotVars
       \/ ViserStarts /\ server < MaxServers /\ server' = server + 1
          /\ UNCHANGED <<lastSeq, policy, store, page, looked>>
       \/ ViserStops /\ looked' = {} /\ UNCHANGED plotVars
    /\ UNCHANGED <<producerVars, who, slow>>

PlotStep ==
    /\ who = "plotly"
    /\ \/ \E discovers \in BOOLEAN: PlotPass(discovers) /\ Looks(discovers)
       \/ PlotStarts /\ server < MaxServers /\ UNCHANGED looked
       \/ PlotStops /\ looked' = {}
       \/ (OpenPage \/ UpdatePlots) /\ UNCHANGED looked
    /\ UNCHANGED <<producerVars, viserVars, who, slow>>

Next == ProducerStep \/ ViserStep \/ PlotStep

Spec == Init /\ [][Next]_vars

----------------------------------------------------------------------------
\* Everything a viewer shows comes from the session it says it is attached to:
\* the samples posed in the scene, the ghost, the trace, and the point appended
\* last.  attached_run, newest, last_seq and horizon_paths are cleared at
\* different places of run(), and a replaced session reuses the stream names.
FromRun(s, segment) == segment # 0 => born[s][segment] = vrun

OneSessionOnScreen ==
    /\ FromRun(Hw, Scene.node[1]) /\ FromRun("q_horizon", Scene.ghost)
    /\ Scene.trace[1] # "none" => FromRun(Scene.trace[1], Scene.trace[2])
    /\ FromRun(Hw, lastSeq[1])
    /\ who = "plotly" => store.run = vrun

\* When processes take longer to come up than a discovery period, no reader is
\* left on a segment that was replaced under it.  _sync_readers itself cannot
\* tell: the object of a respawned node has the name of the old one, so only
\* the gap between the two gives the replacement away.
NoFrozenReader ==
    slow /\ vrun = sess => \A s \in Streams: rd[s] # 0 /\ seg[s] # 0 => rd[s] = seg[s]

\* The packet counters never count an event twice, however often the comm
\* stream falls silent, is dropped and attached again, or is replaced by the
\* next evaluation's: together they are at most the events of the session.
PacketsCountedOnce ==
    LET ofThisRun == {g \in Segments: born["comm"][g] = vrun}
    IN  vrun # 0 => policy.sent + policy.received <= MapThenSumSet(LAMBDA g: count["comm"][g], ofThisRun)

\* A page that was loaded from the running server draws points of one epoch of
\* its store only, in the order they were appended and each once, whatever the
\* interleaving of resets, evictions and callbacks.
PageDrawsOneRun ==
    page.open /\ page.server = server /\ up =>
        \A i \in DOMAIN page.drawn:
            /\ page.drawn[i].epoch = page.epoch
            /\ page.drawn[i].version <= page.cursor
            /\ i > 1 => page.drawn[i - 1].version < page.drawn[i].version
=============================================================================
