---------------------------- MODULE SeqlockRing ----------------------------
(***************************************************************************)
(* The shared-memory ring behind every stream of the rig                   *)
(* (streams/ring.py): one producer calls append, any number of readers     *)
(* call last(k), no lock.  A reader sees the producer's stores in program  *)
(* order (x86-TSO), so the ring is an interleaving of single stores and    *)
(* single loads: every stamp, every word of a payload and the write count  *)
(* is a step of its own.                                                   *)
(*                                                                         *)
(* A sample's payload is its vector and its timestamp, a set Fields of     *)
(* words stored and loaded one at a time in any order (a vector copy       *)
(* promises none).  The value of a word is the index of the append that    *)
(* stored it, so a torn sample is one whose words differ from its index.   *)
(***************************************************************************)
EXTENDS Integers, FiniteSets

CONSTANTS Readers,       \* the reading processes
          Capacity,      \* slots of the ring
          Fields,        \* words of one sample, the timestamp included
          Retries,       \* _READ_RETRIES
          MaxAppends     \* bound on the samples ever appended

ASSUME RingAssumption == /\ Capacity \in Nat \ {0}
                         /\ Retries \in Nat \ {0}
                         /\ MaxAppends \in Nat
                         /\ Fields # {}

None == -1               \* an empty or dirty stamp, a word never stored
Slots == 0 .. Capacity - 1
Slot(i) == i % Capacity

\* A batch of samples keyed by sequence index (class Samples).
Empty == [rows |-> [i \in {} |-> None], overrun |-> FALSE]

VARIABLES
  wc,       \* header[_H_WRITE_COUNT]: samples published
  seq,      \* the stamp of each slot
  cell,     \* the payload words of each slot
  ppc,      \* where the producer is inside append
  ptodo,    \* payload words append still has to store
  rpc,      \* where each reader is inside last(k)
  kreq,     \* the k of the call in progress
  since,    \* history: the write count when the call began
  tries,    \* snapshots taken in the call in progress
  snap,     \* wc as the snapshot read it
  todo,     \* elements of the current copy still to load
  s1,       \* stamps before the payload copy, by sequence index
  buf,      \* the private payload copy, by sequence index
  s2,       \* stamps after the payload copy
  lastOk,   \* newest validated suffix so far
  res       \* what the reader's last finished call returned

ring == <<wc, seq, cell, ppc, ptodo>>
copies == <<snap, todo, s1, buf, s2>>
vars == <<ring, rpc, kreq, since, tries, copies, lastOk, res>>

\* min(k, capacity, wc) newest indices, oldest first.
Window(k, w) == {i \in 0 .. w - 1 : i >= w - k /\ i >= w - Capacity}
Gidx(r) == Window(kreq[r], snap[r])

Init ==
  /\ wc = 0
  /\ seq = [s \in Slots |-> None]
  /\ cell = [s \in Slots |-> [f \in Fields |-> None]]
  /\ ppc = "ready"
  /\ ptodo = {}
  /\ rpc = [r \in Readers |-> "idle"]
  /\ kreq = [r \in Readers |-> 1]
  /\ since = [r \in Readers |-> 0]
  /\ tries = [r \in Readers |-> 0]
  /\ snap = [r \in Readers |-> 0]
  /\ todo = [r \in Readers |-> {}]
  /\ s1 = [r \in Readers |-> [i \in {} |-> None]]
  /\ buf = [r \in Readers |-> [i \in {} |-> None]]
  /\ s2 = [r \in Readers |-> [i \in {} |-> None]]
  /\ lastOk = [r \in Readers |-> Empty]
  /\ res = [r \in Readers |-> Empty]

----------------------------------------------------------------------------
(* append: the four ordered stores. *)

\* 1. Invalidate the slot the new sample recycles.
AppendInvalidate ==
  /\ ppc = "ready" /\ wc < MaxAppends
  /\ seq' = [seq EXCEPT ![Slot(wc)] = None]
  /\ ppc' = "payload" /\ ptodo' = Fields
  /\ UNCHANGED <<wc, cell, rpc, kreq, since, tries, copies, lastOk, res>>

\* 2. Store one word of the payload or the timestamp.
AppendWord(f) ==
  /\ ppc = "payload" /\ f \in ptodo
  /\ cell' = [cell EXCEPT ![Slot(wc)][f] = wc]
  /\ ptodo' = ptodo \ {f}
  /\ UNCHANGED <<wc, seq, ppc, rpc, kreq, since, tries, copies, lastOk, res>>

\* 3. Publish the slot with its global index.
AppendStamp ==
  /\ ppc = "payload" /\ ptodo = {}
  /\ seq' = [seq EXCEPT ![Slot(wc)] = wc]
  /\ ppc' = "count"
  /\ UNCHANGED <<wc, cell, ptodo, rpc, kreq, since, tries, copies, lastOk, res>>

\* 4. Publish globally.
AppendCount ==
  /\ ppc = "count"
  /\ wc' = wc + 1
  /\ ppc' = "ready"
  /\ UNCHANGED <<seq, cell, ptodo, rpc, kreq, since, tries, copies, lastOk, res>>

Append == AppendInvalidate \/ (\E f \in Fields : AppendWord(f)) \/ AppendStamp \/ AppendCount

----------------------------------------------------------------------------
(* last(k): up to Retries snapshots of the newest window. *)

Call(r, k) ==
  /\ rpc[r] = "idle"
  /\ rpc' = [rpc EXCEPT ![r] = "count"]
  /\ kreq' = [kreq EXCEPT ![r] = k]
  /\ since' = [since EXCEPT ![r] = wc]
  /\ tries' = [tries EXCEPT ![r] = 0]
  /\ lastOk' = [lastOk EXCEPT ![r] = Empty]
  /\ UNCHANGED <<ring, copies, res>>

\* Load the write count; nothing published yet ends the call.
ReadCount(r) ==
  /\ rpc[r] = "count"
  /\ IF wc = 0
     THEN /\ res' = [res EXCEPT ![r] = Empty]
          /\ rpc' = [rpc EXCEPT ![r] = "idle"]
          /\ UNCHANGED <<tries, copies>>
     ELSE LET G == Window(kreq[r], wc) IN
          /\ snap' = [snap EXCEPT ![r] = wc]
          /\ todo' = [todo EXCEPT ![r] = G]
          /\ s1' = [s1 EXCEPT ![r] = [i \in G |-> None]]
          /\ s2' = [s2 EXCEPT ![r] = [i \in G |-> None]]
          /\ buf' = [buf EXCEPT ![r] = [i \in G |-> [f \in Fields |-> None]]]
          /\ tries' = [tries EXCEPT ![r] = @ + 1]
          /\ rpc' = [rpc EXCEPT ![r] = "s1"]
          /\ UNCHANGED res
  /\ UNCHANGED <<ring, kreq, since, lastOk>>

\* s1 = seq[slots], one stamp at a time; then the payload copy begins.
ReadStampBefore(r) ==
  /\ rpc[r] = "s1"
  /\ \E i \in todo[r] :
       /\ s1' = [s1 EXCEPT ![r][i] = seq[Slot(i)]]
       /\ IF todo[r] = {i}
          THEN /\ todo' = [todo EXCEPT ![r] = Gidx(r) \X Fields]
               /\ rpc' = [rpc EXCEPT ![r] = "data"]
          ELSE /\ todo' = [todo EXCEPT ![r] = @ \ {i}]
               /\ UNCHANGED rpc
  /\ UNCHANGED <<ring, kreq, since, tries, snap, buf, s2, lastOk, res>>

\* data[slots] and t_ns[slots], one word at a time.
ReadWord(r) ==
  /\ rpc[r] = "data"
  /\ \E i \in Gidx(r), f \in Fields :
       /\ <<i, f>> \in todo[r]
       /\ buf' = [buf EXCEPT ![r][i][f] = cell[Slot(i)][f]]
       /\ IF todo[r] = {<<i, f>>}
          THEN /\ todo' = [todo EXCEPT ![r] = Gidx(r)]
               /\ rpc' = [rpc EXCEPT ![r] = "s2"]
          ELSE /\ todo' = [todo EXCEPT ![r] = @ \ {<<i, f>>}]
               /\ UNCHANGED rpc
  /\ UNCHANGED <<ring, kreq, since, tries, snap, s1, s2, lastOk, res>>

\* s2 = seq[slots], one stamp at a time.
ReadStampAfter(r) ==
  /\ rpc[r] = "s2"
  /\ \E i \in todo[r] :
       /\ s2' = [s2 EXCEPT ![r][i] = seq[Slot(i)]]
       /\ todo' = [todo EXCEPT ![r] = @ \ {i}]
       /\ rpc' = [rpc EXCEPT ![r] = IF todo[r] = {i} THEN "check" ELSE @]
  /\ UNCHANGED <<ring, kreq, since, tries, snap, s1, buf, lastOk, res>>

\* Mutant: the stamps are not compared again after the copy.
ValidatedBefore(r) == {i \in Gidx(r) : s1[r][i] = i}
Validated(r) == {i \in Gidx(r) : s1[r][i] = i /\ s2[r][i] = i}
\* Mutant: every validated row, gaps included.
SuffixWithGaps(r) == Validated(r)
\* The newest contiguous run that validated.
Suffix(r) == {i \in Gidx(r) : \A j \in Gidx(r) : j >= i => j \in Validated(r)}
Batch(r, I, over) == [rows |-> [i \in I |-> buf[r][i]], overrun |-> over]

\* All stamps matched: return the whole window.
ReturnWindow(r) ==
  /\ rpc[r] = "check"
  /\ Validated(r) = Gidx(r)
  /\ res' = [res EXCEPT ![r] = Batch(r, Gidx(r), FALSE)]
  /\ rpc' = [rpc EXCEPT ![r] = "idle"]
  /\ UNCHANGED <<ring, kreq, since, tries, copies, lastOk>>

\* Mutant: spin until the window validates.
RetryForever(r) ==
  /\ rpc[r] = "check"
  /\ Validated(r) # Gidx(r)
  /\ tries' = [tries EXCEPT ![r] = 0]
  /\ rpc' = [rpc EXCEPT ![r] = "count"]
  /\ UNCHANGED <<ring, kreq, since, copies, lastOk, res>>

\* Some stamp moved: keep the valid suffix, then snapshot again or give up.
RetryOrGiveUp(r) ==
  /\ rpc[r] = "check"
  /\ Validated(r) # Gidx(r)
  /\ LET ok == IF Suffix(r) # {} THEN Batch(r, Suffix(r), TRUE) ELSE lastOk[r] IN
       /\ lastOk' = [lastOk EXCEPT ![r] = ok]
       /\ IF tries[r] < Retries
          THEN /\ rpc' = [rpc EXCEPT ![r] = "count"]
               /\ UNCHANGED res
          ELSE /\ res' = [res EXCEPT ![r] = ok]
               /\ rpc' = [rpc EXCEPT ![r] = "idle"]
  /\ UNCHANGED <<ring, kreq, since, tries, copies>>

Read(r) ==
  \/ \E k \in 1 .. Capacity : Call(r, k)
  \/ ReadCount(r)
  \/ ReadStampBefore(r)
  \/ ReadWord(r)
  \/ ReadStampAfter(r)
  \/ ReturnWindow(r)
  \/ RetryOrGiveUp(r)

Next == Append \/ \E r \in Readers : Read(r)
Spec == Init /\ [][Next]_vars

Step(r) ==
  ReadCount(r) \/ ReadStampBefore(r) \/ ReadWord(r) \/ ReadStampAfter(r)
    \/ ReturnWindow(r) \/ RetryOrGiveUp(r)
\* A process that has entered last() keeps executing it; nothing is assumed of
\* the producer, which may be stopped or killed inside append.
FairSpec == Spec /\ \A r \in Readers : WF_vars(Step(r))

----------------------------------------------------------------------------
(* Properties *)

Copying(r) == rpc[r] \in {"s1", "data", "s2", "check"}
\* Every field of the ring and of the readers keeps its shape: a stamp is None
\* or the index of an append (append), and while last() copies, its buffers are
\* keyed by the window it snapshot, which lies below the write count.
TypeOK ==
  /\ wc \in 0 .. MaxAppends
  /\ seq \in [Slots -> -1 .. MaxAppends]
  /\ cell \in [Slots -> [Fields -> -1 .. MaxAppends]]
  /\ ppc \in {"ready", "payload", "count"}
  /\ ptodo \in SUBSET Fields
  /\ ppc # "ready" => wc < MaxAppends
  /\ rpc \in [Readers -> {"idle", "count", "s1", "data", "s2", "check"}]
  /\ kreq \in [Readers -> 1 .. Capacity]
  /\ since \in [Readers -> 0 .. MaxAppends]
  /\ tries \in [Readers -> 0 .. Retries]
  /\ snap \in [Readers -> 0 .. MaxAppends]
  /\ \A v \in {DOMAIN todo, DOMAIN s1, DOMAIN s2, DOMAIN buf} : v = Readers
  /\ \A v \in {DOMAIN lastOk, DOMAIN res} : v = Readers
  /\ \A r \in Readers : since[r] <= wc /\ (rpc[r] = "count" => tries[r] < Retries)
  /\ \A r \in Readers : Copying(r) =>
       /\ s1[r] \in [Gidx(r) -> -1 .. MaxAppends]
       /\ s2[r] \in [Gidx(r) -> -1 .. MaxAppends]
       /\ buf[r] \in [Gidx(r) -> [Fields -> -1 .. MaxAppends]]
       /\ since[r] <= snap[r] /\ 0 < snap[r] /\ snap[r] <= wc
       /\ rpc[r] \in {"s1", "s2"} => todo[r] \subseteq Gidx(r)

\* Samples that a read hands out are whole: every word of the row at sequence
\* index i was stored by append i ("a concurrent reader either see[s] a fully
\* written sample or not see it at all", append).  It holds of the suffix kept
\* across retries as well as of the returned batch.
NoTornSample ==
  \A r \in Readers : \A b \in {res[r], lastOk[r]} :
    \A i \in DOMAIN b.rows : \A f \in Fields : b.rows[i][f] = i

\* Appends completed or begun.
Begun == IF ppc = "ready" THEN wc ELSE wc + 1
\* A window loses a sample only to a producer that has used up the headroom
\* behind it: every index of the window that is not yet older than the oldest
\* slot in use still carries its stamp, and an attempt that failed saw the
\* producer begin more than Capacity - n appends after the snapshot ("as long
\* as the producer does not write capacity - k more samples ... nothing the
\* reader touches is recycled").
HeadroomSuffices ==
  \A r \in Readers : rpc[r] = "check" =>
    \A i \in Gidx(r) : i \notin Validated(r) => Begun > i + Capacity

Newest(b) == IF DOMAIN b.rows = {} THEN None
             ELSE CHOOSE i \in DOMAIN b.rows : \A j \in DOMAIN b.rows : j <= i
\* A reader never travels back in time: a batch is never older than the batch
\* the same reader was given before, retries and kept suffixes included (the
\* deadman ages the newest sample, the command cursor advances to it).
MonotoneReads ==
  [][\A r \in Readers :
       (res'[r] # res[r] /\ DOMAIN res'[r].rows # {}) => Newest(res'[r]) >= Newest(res[r])]_vars

\* The ring implements the stream its clients are written against: each answer
\* is a gap-free run of whole samples ending at the newest sample of a moment
\* inside the call.
Stream == INSTANCE AtomicStream WITH
            count <- wc, pending <- {r \in Readers : rpc[r] # "idle"}
ImplementsStream == Stream!ASpec

\* last() is wait-free: a call returns after at most Retries snapshots however
\* the producer behaves, even when it dies between two stores of an append.
CallReturns == \A r \in Readers : rpc[r] # "idle" ~> rpc[r] = "idle"

=============================================================================
