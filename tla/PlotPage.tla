------------------------------ MODULE PlotPage ------------------------------
(***************************************************************************)
(* The Plotly consumer, its PlotStore, and one browser page that polls it. *)
(* Two series are followed: the node's signal and the policy packets.  A   *)
(* point carries the server and the store epoch it was appended in.        *)
(***************************************************************************)
EXTENDS StreamReaders, Sequences, SequencesExt

CONSTANTS
    History,    \* HISTORY_LENGTH, points a series keeps
    CatchUp,    \* MAX_CATCHUP_SAMPLES, points one callback delivers
    MaxEpochs,  \* bound: resets of the store
    MaxPoints   \* bound: points appended to the series in one epoch

VARIABLES
    lastSeq,    \* the sample of the node's stream appended last: <<segment, number>>
    policy,     \* policy_state: ring, next_seq and the counters
    store,      \* the PlotStore: epoch, run, and the two series
    server,     \* the number of servers started so far
    page        \* the page: open, its server, epoch, cursor and the points drawn

plotVars == <<lastSeq, policy, store, server, page>>

NoPolicy == [ring |-> 0, next |-> 0, sent |-> 0, received |-> 0]
NoSeries == [version |-> 0, points |-> <<>>]
NewStore == [epoch |-> 0, run |-> 0, series |-> NoSeries]
\* The epoch of a page that was never answered is None.
NoEpoch == 99
ClosedPage == [open |-> FALSE, server |-> 0, epoch |-> NoEpoch, cursor |-> 0, drawn |-> <<>>]

PlotInit ==
    /\ lastSeq = <<0, 0>>
    /\ policy = NoPolicy /\ store = NewStore /\ server = 0 /\ page = ClosedPage

LastOf(s, n) == IF Len(s) <= n THEN s ELSE SubSeq(s, Len(s) - n + 1, Len(s))

----------------------------------------------------------------------------
(* The store.                                                              *)

\* PlotStore._reset
ResetStore(st, r) == [epoch |-> st.epoch + 1, run |-> r, series |-> NoSeries]

\* PlotStore.attach and detach
AttachStore(st, r) == IF st.run = r THEN st ELSE ResetStore(st, r)

\* PlotStore.append, _Series.append
Append1(st, sample) ==
    LET v == st.series.version + 1
        point == [server |-> server, epoch |-> st.epoch, version |-> v, sample |-> sample]
    IN  [st EXCEPT !.series = [version |-> v, points |-> LastOf(Append(@.points, point), History)]]

----------------------------------------------------------------------------
(* The consumer.                                                           *)

\* A ring of another name, or one shorter than what was counted.
RestartsCount(p, segment, n) == p.ring # born["comm"][segment] \/ n < p.next

\* Mutant: every pass counts the whole ring.
RecountPackets(p, segment) ==
    LET n == count["comm"][segment]
        from == IF RestartsCount(p, segment, n)
                THEN [NoPolicy EXCEPT !.ring = born["comm"][segment]] ELSE p
    IN  IF n = 0 THEN p
        ELSE [from EXCEPT !.next = n,
                          !.sent = @ + Cardinality({k \in 1..n: k % 2 = 1}),
                          !.received = @ + Cardinality({k \in 1..n: k % 2 = 0})]

\* _consume_policy: the counters start over, or the unseen events count.
CountPackets(p, segment) ==
    LET n == count["comm"][segment]
        from == IF RestartsCount(p, segment, n)
                THEN [NoPolicy EXCEPT !.ring = born["comm"][segment]] ELSE p
        fresh == (from.next + 1)..n                   \* odd events are SENT, even ones RECV
    IN  IF n = 0 THEN p
        ELSE [from EXCEPT !.next = n,
                          !.sent = @ + Cardinality({k \in fresh: k % 2 = 1}),
                          !.received = @ + Cardinality({k \in fresh: k % 2 = 0})]

\* One turn of PlotlyDashConsumer.run.
PlotPass(discovers) ==
    LET found == FoundRun
        newRun == discovers /\ found # vrun /\ found # 0
        readers == Attached(discovers)
        seen == IF Survives(discovers, Hw) THEN lastSeq ELSE <<0, 0>>
        latest == <<readers[Hw], count[Hw][readers[Hw]]>>
        isNew == readers[Hw] # 0 /\ latest[2] > 0 /\ latest # seen
        st == IF discovers THEN AttachStore(store, found) ELSE store
        pol == IF newRun THEN NoPolicy ELSE policy
    IN  /\ MayPass(discovers)
        /\ rd' = readers
        /\ vrun' = IF discovers THEN found ELSE vrun
        /\ lastSeq' = IF isNew THEN latest ELSE seen
        /\ store' = IF isNew THEN Append1(st, latest) ELSE st
        /\ policy' = IF readers["comm"] # 0 THEN CountPackets(pol, readers["comm"]) ELSE pol
        /\ store'.epoch <= MaxEpochs /\ store'.series.version <= MaxPoints
        /\ UNCHANGED <<wanted, up, server, page>>

PlotStarts ==
    /\ ~up
    /\ up' = TRUE /\ server' = server + 1
    /\ UNCHANGED <<wanted, vrun, rd, lastSeq, policy, store, page>>

PlotStops ==
    /\ up
    /\ up' = FALSE
    /\ vrun' = 0 /\ rd' = NoReaders
    /\ lastSeq' = <<0, 0>> /\ policy' = NoPolicy /\ store' = NewStore
    /\ UNCHANGED <<wanted, server, page>>

----------------------------------------------------------------------------
(* The page.  It outlives the server: its callbacks fail until one answers. *)

OpenPage ==
    /\ up /\ ~page.open
    /\ page' = [ClosedPage EXCEPT !.open = TRUE, !.server = server]
    /\ UNCHANGED <<readerVars, lastSeq, policy, store, server>>

\* Mutant: a page of another epoch takes the epoch over and keeps its points.
KeepPlots ==
    LET fresh == SelectSeq(store.series.points, LAMBDA p: p.version > page.cursor)
        sent == LastOf(fresh, CatchUp)
    IN  /\ up /\ page.open
        /\ page' = IF page.epoch # store.epoch THEN [page EXCEPT !.epoch = store.epoch, !.cursor = 0]
                   ELSE IF fresh = <<>> THEN page
                   ELSE [page EXCEPT !.cursor = Last(sent).version,
                                     !.drawn = LastOf(@ \o sent, History)]
        /\ UNCHANGED <<readerVars, lastSeq, policy, store, server>>

\* update_plots: a page of another epoch is emptied and gets its points from the
\* next callback on; otherwise the unseen points extend it.
UpdatePlots ==
    LET fresh == SelectSeq(store.series.points, LAMBDA p: p.version > page.cursor)
        sent == LastOf(fresh, CatchUp)
    IN  /\ up /\ page.open
        /\ page' = IF page.epoch # store.epoch
                   THEN [page EXCEPT !.epoch = store.epoch, !.cursor = 0, !.drawn = <<>>]
                   ELSE IF fresh = <<>> THEN page
                   ELSE [page EXCEPT !.cursor = Last(sent).version,
                                     !.drawn = LastOf(@ \o sent, History)]
        /\ UNCHANGED <<readerVars, lastSeq, policy, store, server>>
=============================================================================
