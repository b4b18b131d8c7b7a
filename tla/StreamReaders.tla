--------------------------- MODULE StreamReaders ---------------------------
(***************************************************************************)
(* How a live viewer finds and keeps its readers.  The Viser and the       *)
(* Plotly consumer hold the same code (_newest_live_run, _entry_is_live,   *)
(* _sync_readers and the head of run()): every pass reads the rings, and   *)
(* at least once a second, or on every pass while nothing is attached, a   *)
(* discovery compares the readers with the registry.                       *)
(***************************************************************************)
EXTENDS Producers

VARIABLES
    wanted,   \* stream_names: the streams this viewer was started for
    up,       \* is the viewer's process running?
    vrun,     \* attached_run: the session whose streams are read, 0 for none
    rd        \* the segment each reader has mapped, 0 where there is no reader

readerVars == <<wanted, up, vrun, rd>>

NoReaders == [s \in Streams |-> 0]

ReadersInit == up = FALSE /\ vrun = 0 /\ rd = NoReaders

\* os.kill(entry.pid, 0): is the process that registered the entry there?
PidLive(s) == seg[s] # 0 /\ (s = Hw => alive)

\* A horizon is kept as long as its producer lives; any other entry must be
\* empty or have a recent sample.
EntryLive(s) ==
    /\ PidLive(s)
    /\ s \notin {"q_horizon", "eef_horizon"} => (count[s][seg[s]] = 0 \/ silence[s] = 0)

\* _newest_live_run: of the streams a viewer wants, the live ones of the newest
\* session that has any.  An earlier session has no live process left.
LiveEntries == {s \in wanted: EntryLive(s)}

FoundRun == IF LiveEntries = {} THEN 0 ELSE sess

\* Mutant: the reader of a name that is no longer live is kept.
KeepReaders(live, held) ==
    [s \in Streams |-> IF held[s] # 0 THEN held[s] ELSE IF s \in live THEN seg[s] ELSE 0]

\* _sync_readers: a reader is dropped when its name is not live or names another
\* shared-memory object.  The object's name is derived from the session and the
\* stream, so a segment replaced within a session has the name of the old one.
SameObject(s, held) == held[s] # 0 /\ born[s][held[s]] = born[s][seg[s]]

SyncReaders(live, held) ==
    [s \in Streams |-> IF s \notin live THEN 0
                       ELSE IF SameObject(s, held) THEN held[s] ELSE seg[s]]

\* The readers after the discovery of one pass, if the pass makes one.
Attached(discovers) ==
    IF ~discovers THEN rd
    ELSE SyncReaders(LiveEntries,
                     IF FoundRun = vrun THEN rd ELSE NoReaders)

\* Mutant: what was read of a ring outlives its reader.
AlwaysSurvives(discovers, s) == TRUE

\* The streams whose reader survives: what was read of them is kept.
Survives(discovers, s) ==
    ~discovers \/ (FoundRun = vrun /\ rd[s] # 0 /\ Attached(discovers)[s] = rd[s])

\* A pass must discover when it has no reader, and may otherwise.
MayPass(discovers) == up /\ (rd = NoReaders => discovers)
=============================================================================
