------------------------- MODULE SeqlockRingProofs -------------------------
(***************************************************************************)
(* What SeqlockRing guarantees for every capacity, payload size, number of *)
(* readers and number of retries.                                          *)
(***************************************************************************)
EXTENDS SeqlockRing, TLAPS

----------------------------------------------------------------------------
(* Indices and slots. *)

\* A sample index falls on a slot of the ring (slot = idx % capacity).
LEMMA SlotType == \A i \in Nat : Slot(i) \in Slots
  BY RingAssumption DEF Slot, Slots

\* Two indices share a slot only if they are at least a capacity apart: the
\* append that recycles sample i is the one with index i + Capacity or later.
LEMMA SlotApart ==
  ASSUME NEW i \in Nat, NEW j \in Nat, i < j, Slot(i) = Slot(j)
  PROVE  j >= i + Capacity
  <1> DEFINE qi == i \div Capacity
             qj == j \div Capacity
  <1>1. /\ qi \in Int /\ qj \in Int
        /\ i = Capacity * qi + Slot(i)
        /\ j = Capacity * qj + Slot(j)
        /\ Capacity \in Nat \ {0}
        /\ Slot(i) \in Int
    BY RingAssumption, SlotType DEF Slot, Slots
  <1>2. j - i = Capacity * (qj - qi)
    BY <1>1
  <1>3. qj - qi > 0
    BY <1>1, <1>2
  <1>4. Capacity * (qj - qi) >= Capacity
    BY <1>1, <1>3
  <1> QED
    BY <1>1, <1>2, <1>4

\* The window of a snapshot holds indices below the write count it read.
LEMMA WindowBelow ==
  ASSUME NEW k \in Nat, NEW w \in Nat
  PROVE  /\ Window(k, w) \subseteq 0 .. w - 1
         /\ k > 0 /\ w > 0 => w - 1 \in Window(k, w)
         /\ \A i \in Window(k, w) : i .. w - 1 \subseteq Window(k, w)
  BY RingAssumption DEF Window

----------------------------------------------------------------------------
(* Shapes. *)

\* The initial state is well typed.
LEMMA TypeInit == Init => TypeOK
  BY RingAssumption DEF Init, TypeOK, Copying, Empty, None, Slots

\* Every store and every load keeps the types.
LEMMA TypeStep == TypeOK /\ [Next]_vars => TypeOK'
<1> SUFFICES ASSUME TypeOK, [Next]_vars PROVE TypeOK'
  OBVIOUS
<1> USE RingAssumption
<1>1. CASE AppendInvalidate
  BY <1>1, SlotType DEF AppendInvalidate, TypeOK, Copying, Gidx, None, copies
<1>2. CASE \E f \in Fields : AppendWord(f)
  BY <1>2, SlotType DEF AppendWord, TypeOK, Copying, Gidx, None, copies
<1>3. CASE AppendStamp
  BY <1>3, SlotType DEF AppendStamp, TypeOK, Copying, Gidx, None, copies
<1>4. CASE AppendCount
  BY <1>4 DEF AppendCount, TypeOK, Copying, Gidx, None, copies
<1>5. CASE \E r \in Readers : \E k \in 1 .. Capacity : Call(r, k)
  BY <1>5 DEF Call, TypeOK, Copying, Gidx, None, copies, ring
<1>6. CASE \E r \in Readers : ReadCount(r)
  <2>1. PICK r \in Readers : ReadCount(r)
    BY <1>6
  <2>2. CASE wc = 0
    BY <2>1, <2>2 DEF ReadCount, TypeOK, Copying, Gidx, copies, ring
  <2>3. CASE wc # 0
    <3> DEFINE G == Window(kreq[r], wc)
    <3>1. /\ snap' = [snap EXCEPT ![r] = wc]
          /\ todo' = [todo EXCEPT ![r] = G]
          /\ s1' = [s1 EXCEPT ![r] = [i \in G |-> None]]
          /\ s2' = [s2 EXCEPT ![r] = [i \in G |-> None]]
          /\ buf' = [buf EXCEPT ![r] = [i \in G |-> [f \in Fields |-> None]]]
          /\ tries' = [tries EXCEPT ![r] = @ + 1]
          /\ rpc' = [rpc EXCEPT ![r] = "s1"]
          /\ rpc[r] = "count"
          /\ UNCHANGED <<res, ring, kreq, since, lastOk>>
      BY <2>1, <2>3 DEF ReadCount
    <3> HIDE DEF G
    <3>2. /\ [i \in G |-> None] \in [G -> -1 .. MaxAppends]
          /\ [i \in G |-> [f \in Fields |-> None]] \in [G -> [Fields -> -1 .. MaxAppends]]
      BY DEF None
    <3>3. Gidx(r)' = G /\ \A x \in Readers \ {r} : Gidx(x)' = Gidx(x)
      BY <3>1 DEF Gidx, G, TypeOK
    <3>4. \A x \in Readers : Copying(x)' =>
            /\ s1'[x] \in [Gidx(x)' -> -1 .. MaxAppends]
            /\ s2'[x] \in [Gidx(x)' -> -1 .. MaxAppends]
            /\ buf'[x] \in [Gidx(x)' -> [Fields -> -1 .. MaxAppends]]
            /\ rpc'[x] \in {"s1", "s2"} => todo'[x] \subseteq Gidx(x)'
      BY <3>1, <3>2, <3>3 DEF TypeOK, Copying
    <3>5. \A x \in Readers : Copying(x)' =>
            since'[x] <= snap'[x] /\ 0 < snap'[x] /\ snap'[x] <= wc'
      BY <2>3, <3>1 DEF TypeOK, Copying, ring
    <3> QED
      BY <3>1, <3>4, <3>5 DEF TypeOK, ring
  <2> QED
    BY <2>2, <2>3
<1>7. CASE \E r \in Readers : ReadStampBefore(r)
  <2>1. PICK r \in Readers : ReadStampBefore(r)
    BY <1>7
  <2>2. PICK i \in todo[r] :
          /\ s1' = [s1 EXCEPT ![r][i] = seq[Slot(i)]]
          /\ \/ todo' = [todo EXCEPT ![r] = @ \ {i}]
             \/ rpc' = [rpc EXCEPT ![r] = "data"] /\ \A x \in Readers \ {r} : todo'[x] = todo[x]
    BY <2>1 DEF ReadStampBefore, TypeOK
  <2>3. /\ rpc[r] = "s1" /\ DOMAIN todo' = Readers
        /\ rpc' = rpc \/ rpc' = [rpc EXCEPT ![r] = "data"]
        /\ UNCHANGED <<ring, kreq, since, tries, snap, buf, s2, lastOk, res>>
    BY <2>1 DEF ReadStampBefore, TypeOK
  <2>4. \A x \in Readers : Gidx(x)' = Gidx(x)
    BY <2>3 DEF Gidx
  <2>5. \A x \in Readers : Copying(x) => s1'[x] \in [Gidx(x) -> -1 .. MaxAppends]
    <3>1. s1[r] \in [Gidx(r) -> -1 .. MaxAppends] /\ i \in Gidx(r)
      BY <2>3 DEF TypeOK, Copying
    <3>2. seq[Slot(i)] \in -1 .. MaxAppends
      BY <3>1, SlotType DEF TypeOK, Gidx, Window
    <3> QED
      BY <2>2, <3>1, <3>2 DEF TypeOK
  <2>6. \A x \in Readers : Copying(x)' =>
          /\ Copying(x)
          /\ rpc'[x] \in {"s1", "s2"} => todo'[x] \subseteq Gidx(x)
    <3> SUFFICES ASSUME NEW x \in Readers, Copying(x)'
                 PROVE  Copying(x) /\ (rpc'[x] \in {"s1", "s2"} => todo'[x] \subseteq Gidx(x))
      OBVIOUS
    <3>1. CASE x = r
      BY <2>2, <2>3, <3>1 DEF TypeOK, Copying
    <3>2. CASE x # r
      BY <2>2, <2>3, <3>2 DEF TypeOK, Copying
    <3> QED
      BY <3>1, <3>2
  <2>7. rpc' \in [Readers -> {"idle", "count", "s1", "data", "s2", "check"}]
    BY <2>2, <2>3 DEF TypeOK
  <2>8. \A x \in Readers : rpc'[x] = "count" => rpc[x] = "count"
    BY <2>2, <2>3 DEF TypeOK
  <2>9. \A v \in {DOMAIN todo', DOMAIN s1', DOMAIN s2', DOMAIN buf'} : v = Readers
    BY <2>2, <2>3 DEF TypeOK
  <2> QED
    BY <2>3, <2>4, <2>5, <2>6, <2>7, <2>8, <2>9 DEF TypeOK, ring
<1>8. CASE \E r \in Readers : ReadWord(r)
  <2>1. PICK r \in Readers : ReadWord(r)
    BY <1>8
  <2>2. PICK i \in Gidx(r), f \in Fields :
          /\ buf' = [buf EXCEPT ![r][i][f] = cell[Slot(i)][f]]
          /\ \/ /\ todo' = [todo EXCEPT ![r] = Gidx(r)]
                /\ rpc' = [rpc EXCEPT ![r] = "s2"]
             \/ /\ rpc' = rpc
                /\ \A x \in Readers \ {r} : todo'[x] = todo[x]
    BY <2>1 DEF ReadWord, TypeOK
  <2>3. /\ rpc[r] = "data" /\ DOMAIN todo' = Readers
        /\ UNCHANGED <<ring, kreq, since, tries, snap, s1, s2, lastOk, res>>
    BY <2>1 DEF ReadWord, TypeOK
  <2>4. \A x \in Readers : Gidx(x)' = Gidx(x)
    BY <2>3 DEF Gidx
  <2>5. \A x \in Readers : Copying(x) => buf'[x] \in [Gidx(x) -> [Fields -> -1 .. MaxAppends]]
    <3>1. buf[r] \in [Gidx(r) -> [Fields -> -1 .. MaxAppends]]
      BY <2>3 DEF TypeOK, Copying
    <3>2. cell[Slot(i)][f] \in -1 .. MaxAppends
      BY SlotType DEF TypeOK, Gidx, Window
    <3> QED
      BY <2>2, <3>1, <3>2 DEF TypeOK
  <2>6. \A x \in Readers : Copying(x)' =>
          /\ Copying(x)
          /\ rpc'[x] \in {"s1", "s2"} => todo'[x] \subseteq Gidx(x)
    BY <2>2, <2>3 DEF TypeOK, Copying
  <2>7. rpc' \in [Readers -> {"idle", "count", "s1", "data", "s2", "check"}]
    BY <2>2, <2>3 DEF TypeOK
  <2>8. \A x \in Readers : rpc'[x] = "count" => rpc[x] = "count"
    BY <2>2, <2>3 DEF TypeOK
  <2>9. \A v \in {DOMAIN todo', DOMAIN s1', DOMAIN s2', DOMAIN buf'} : v = Readers
    BY <2>2, <2>3 DEF TypeOK
  <2> QED
    BY <2>3, <2>4, <2>5, <2>6, <2>7, <2>8, <2>9 DEF TypeOK, ring
<1>9. CASE \E r \in Readers : ReadStampAfter(r)
  <2>1. PICK r \in Readers : ReadStampAfter(r)
    BY <1>9
  <2>2. PICK i \in todo[r] : /\ s2' = [s2 EXCEPT ![r][i] = seq[Slot(i)]]
                             /\ todo' = [todo EXCEPT ![r] = @ \ {i}]
    BY <2>1 DEF ReadStampAfter
  <2>3. /\ rpc[r] = "s2" /\ DOMAIN todo' = Readers
        /\ rpc' = rpc \/ rpc' = [rpc EXCEPT ![r] = "check"]
        /\ UNCHANGED <<ring, kreq, since, tries, snap, buf, s1, lastOk, res>>
    BY <2>1 DEF ReadStampAfter, TypeOK
  <2>4. \A x \in Readers : Gidx(x)' = Gidx(x)
    BY <2>3 DEF Gidx
  <2>5. \A x \in Readers : Copying(x) => s2'[x] \in [Gidx(x) -> -1 .. MaxAppends]
    <3>1. s2[r] \in [Gidx(r) -> -1 .. MaxAppends] /\ i \in Gidx(r)
      BY <2>3 DEF TypeOK, Copying
    <3>2. seq[Slot(i)] \in -1 .. MaxAppends
      BY <3>1, SlotType DEF TypeOK, Gidx, Window
    <3> QED
      BY <2>2, <3>1, <3>2 DEF TypeOK
  <2>6. \A x \in Readers : Copying(x)' =>
          /\ Copying(x)
          /\ rpc'[x] \in {"s1", "s2"} => todo'[x] \subseteq Gidx(x)
    BY <2>2, <2>3 DEF TypeOK, Copying
  <2>7. rpc' \in [Readers -> {"idle", "count", "s1", "data", "s2", "check"}]
    BY <2>2, <2>3 DEF TypeOK
  <2>8. \A x \in Readers : rpc'[x] = "count" => rpc[x] = "count"
    BY <2>2, <2>3 DEF TypeOK
  <2>9. \A v \in {DOMAIN todo', DOMAIN s1', DOMAIN s2', DOMAIN buf'} : v = Readers
    BY <2>2, <2>3 DEF TypeOK
  <2> QED
    BY <2>3, <2>4, <2>5, <2>6, <2>7, <2>8, <2>9 DEF TypeOK, ring
<1>10. CASE \E r \in Readers : ReturnWindow(r)
  BY <1>10 DEF ReturnWindow, TypeOK, Copying, Gidx, None, copies, ring
<1>11. CASE \E r \in Readers : RetryOrGiveUp(r)
  <2>1. PICK r \in Readers : RetryOrGiveUp(r)
    BY <1>11
  <2>2. /\ \/ rpc' = [rpc EXCEPT ![r] = "count"] /\ tries[r] < Retries
           \/ rpc' = [rpc EXCEPT ![r] = "idle"]
        /\ DOMAIN lastOk' = DOMAIN lastOk
        /\ DOMAIN res' = DOMAIN res
        /\ UNCHANGED <<ring, kreq, since, tries, copies>>
    BY <2>1 DEF RetryOrGiveUp
  <2> QED
    BY <2>2 DEF TypeOK, Copying, Gidx, copies, ring
<1>12. CASE UNCHANGED vars
  BY <1>12 DEF vars, ring, copies, TypeOK, Copying, Gidx
<1> QED
  BY <1>1, <1>2, <1>3, <1>4, <1>5, <1>6, <1>7, <1>8, <1>9, <1>10, <1>11, <1>12
  DEF Next, Append, Read

\* The ring and its readers keep their shapes.
THEOREM TypeCorrect == Spec => []TypeOK
  BY TypeInit, TypeStep, PTL DEF Spec

----------------------------------------------------------------------------
(* The producer's side: a stamp tells the truth about its slot. *)

\* A stamped slot holds exactly the words of the sample it is stamped with; the
\* slot being written is unstamped until its last word is in place; and no
\* published sample loses its stamp before the append one capacity later begins.
RingInv ==
  /\ \A s \in Slots, f \in Fields : seq[s] # None => cell[s][f] = seq[s]
  /\ \A s \in Slots : seq[s] <= wc /\ (seq[s] = wc => ppc = "count")
  /\ ppc = "payload" =>
       seq[Slot(wc)] = None /\ \A f \in Fields \ ptodo : cell[Slot(wc)][f] = wc
  /\ ppc = "count" => seq[Slot(wc)] = wc
  /\ \A i \in 0 .. wc - 1 : Begun <= i + Capacity => seq[Slot(i)] = i

\* An empty ring satisfies the ring invariant.
LEMMA RingInit == Init => RingInv
  BY RingAssumption DEF Init, RingInv, None, Slots, Begun

\* Only the four stores of an append touch the ring, and they keep its invariant.
LEMMA RingStep == TypeOK /\ RingInv /\ [Next]_vars => RingInv'
<1> SUFFICES ASSUME TypeOK, RingInv, [Next]_vars PROVE RingInv'
  OBVIOUS
<1> USE RingAssumption DEF TypeOK, RingInv
<1>0. wc \in Nat /\ Slot(wc) \in Slots
  BY SlotType
<1>1. CASE AppendInvalidate
  <2>1. \A i \in 0 .. wc - 1 : wc + 1 <= i + Capacity => Slot(i) # Slot(wc)
    BY SlotApart
  <2> QED
    BY <1>0, <1>1, <2>1, SlotType DEF AppendInvalidate, None, Begun
<1>2. CASE \E f \in Fields : AppendWord(f)
  BY <1>0, <1>2, SlotType DEF AppendWord, None, Begun
<1>3. CASE AppendStamp
  <2>1. \A i \in 0 .. wc - 1 : wc + 1 <= i + Capacity => Slot(i) # Slot(wc)
    BY SlotApart
  <2> QED
    BY <1>0, <1>3, <2>1, SlotType DEF AppendStamp, None, Begun
<1>4. CASE AppendCount
  <2>1. /\ wc' = wc + 1 /\ ppc = "count" /\ ppc' = "ready" /\ seq' = seq /\ cell' = cell
    BY <1>4 DEF AppendCount
  <2>2. \A s \in Slots : seq[s] \in Int /\ seq[s] < wc + 1
    BY <1>0
  <2>3. \A i \in 0 .. wc : wc + 1 <= i + Capacity => seq[Slot(i)] = i
    <3>1. Begun = wc + 1 /\ seq[Slot(wc)] = wc
      BY <2>1 DEF Begun
    <3>2. \A i \in 0 .. wc : i = wc \/ i \in 0 .. wc - 1
      BY <1>0
    <3> QED
      BY <3>1, <3>2
  <2> QED
    BY <1>0, <2>1, <2>2, <2>3 DEF Begun
<1>5. CASE UNCHANGED ring
  BY <1>5 DEF ring, Begun
<1>6. ASSUME NEW r \in Readers, Read(r) PROVE UNCHANGED ring
  BY <1>6 DEF Read, Call, ReadCount, ReadStampBefore, ReadWord, ReadStampAfter,
              ReturnWindow, RetryOrGiveUp
<1> QED
  BY <1>1, <1>2, <1>3, <1>4, <1>5, <1>6 DEF Next, Append, vars

\* A step of one reader leaves the ring and the other readers' copies alone.
LEMMA ReadFrame ==
  ASSUME TypeOK, NEW r \in Readers, Read(r)
  PROVE  /\ UNCHANGED ring
         /\ \A x \in Readers \ {r} :
              /\ rpc'[x] = rpc[x] /\ kreq'[x] = kreq[x] /\ since'[x] = since[x]
              /\ snap'[x] = snap[x] /\ todo'[x] = todo[x]
              /\ s1'[x] = s1[x] /\ s2'[x] = s2[x] /\ buf'[x] = buf[x]
              /\ lastOk'[x] = lastOk[x] /\ res'[x] = res[x]
<1> USE DEF TypeOK, copies
<1>1. CASE \E k \in 1 .. Capacity : Call(r, k)
  BY <1>1 DEF Call
<1>2. CASE ReadCount(r)
  BY <1>2 DEF ReadCount
<1>3. CASE ReadStampBefore(r)
  BY <1>3 DEF ReadStampBefore
<1>4. CASE ReadWord(r)
  BY <1>4 DEF ReadWord
<1>5. CASE ReadStampAfter(r)
  BY <1>5 DEF ReadStampAfter
<1>6. CASE ReturnWindow(r)
  BY <1>6 DEF ReturnWindow
<1>7. CASE RetryOrGiveUp(r)
  BY <1>7 DEF RetryOrGiveUp
<1> QED
  BY <1>1, <1>2, <1>3, <1>4, <1>5, <1>6, <1>7 DEF Read

----------------------------------------------------------------------------
(* The reader's side: what a pair of equal stamps proves. *)

Loaded(r, i, f) ==
  rpc[r] \in {"s2", "check"} \/ (rpc[r] = "data" /\ <<i, f>> \notin todo[r])
\* Between its two stamp loads a reader knows nothing yet, except this: if the
\* first stamp matched and the slot still carries it, then the words loaded so
\* far are the sample's own, because a stamp that was lost never comes back.
CopyInv ==
  \A r \in Readers : Copying(r) => \A i \in Gidx(r) :
    /\ rpc[r] \in {"s1", "data"} => s2[r][i] = None
    /\ s1[r][i] = i /\ seq[Slot(i)] = i =>
         \A f \in Fields : Loaded(r, i, f) => buf[r][i][f] = i
    /\ s1[r][i] = i /\ s2[r][i] = i => \A f \in Fields : buf[r][i][f] = i

\* Nobody copies at the start.
LEMMA CopyInit == Init => CopyInv
  BY DEF Init, CopyInv, Copying

\* The indices of a window are natural numbers.
LEMMA GidxBelow == TypeOK => \A r \in Readers : Gidx(r) \subseteq Nat
  BY WindowBelow DEF TypeOK, Gidx

\* Every step keeps what the readers have copied so far consistent.
LEMMA CopyStep == TypeOK /\ RingInv /\ CopyInv /\ [Next]_vars => CopyInv'
<1> SUFFICES ASSUME TypeOK, RingInv, CopyInv, [Next]_vars PROVE CopyInv'
  OBVIOUS
<1>1. CASE Append
  <2>1. UNCHANGED <<rpc, kreq, since, tries, copies, lastOk, res>>
    BY <1>1 DEF Append, AppendInvalidate, AppendWord, AppendStamp, AppendCount
  <2>2. ASSUME NEW r \in Readers, Copying(r), NEW i \in Gidx(r), seq'[Slot(i)] = i
        PROVE  seq[Slot(i)] = i
    <3>1. i \in Nat /\ i < wc /\ wc \in Nat /\ Slot(i) \in Slots /\ Slot(wc) \in Slots
      BY <2>2, WindowBelow, SlotType DEF TypeOK, Gidx
    <3>2. \/ seq' = seq
          \/ seq' = [seq EXCEPT ![Slot(wc)] = None]
          \/ seq' = [seq EXCEPT ![Slot(wc)] = wc]
      BY <1>1 DEF Append, AppendInvalidate, AppendWord, AppendStamp, AppendCount
    <3> QED
      BY <2>2, <3>1, <3>2 DEF TypeOK, None
  <2> QED
    BY <2>1, <2>2 DEF CopyInv, Copying, Gidx, Loaded, copies
<1>2. ASSUME NEW r \in Readers, Read(r) PROVE CopyInv'
  <2> DEFINE Inv(x, i) ==
        /\ rpc[x] \in {"s1", "data"} => s2[x][i] = None
        /\ s1[x][i] = i /\ seq[Slot(i)] = i =>
             \A f \in Fields : Loaded(x, i, f) => buf[x][i][f] = i
        /\ s1[x][i] = i /\ s2[x][i] = i => \A f \in Fields : buf[x][i][f] = i
  <2>1. UNCHANGED ring
    BY <1>2, ReadFrame
  <2>2. ASSUME NEW x \in Readers \ {r}, Copying(x)', NEW i \in Gidx(x)'
        PROVE  Inv(x, i)'
    <3>1. /\ rpc'[x] = rpc[x] /\ kreq'[x] = kreq[x] /\ snap'[x] = snap[x]
          /\ todo'[x] = todo[x] /\ s1'[x] = s1[x] /\ s2'[x] = s2[x] /\ buf'[x] = buf[x]
      BY <1>2, ReadFrame
    <3> QED
      BY <2>1, <2>2, <3>1 DEF CopyInv, Copying, Gidx, Loaded, ring
  <2>3. ASSUME Copying(r)', NEW i \in Gidx(r)' PROVE Inv(r, i)'
    <3>1. CASE \E k \in 1 .. Capacity : Call(r, k)
      BY <2>3, <3>1 DEF Call, Copying, TypeOK
    <3>2. CASE ReadCount(r)
      <4>1. wc # 0 /\ rpc'[r] = "s1" /\ snap'[r] = wc /\ kreq' = kreq
        BY <2>3, <3>2 DEF ReadCount, Copying, TypeOK
      <4>2. i \in Window(kreq[r], wc) /\ i \in Nat
        BY <2>3, <4>1, WindowBelow DEF Gidx, TypeOK
      <4>3. s1'[r][i] = None /\ s2'[r][i] = None
        BY <3>2, <4>1, <4>2 DEF ReadCount, TypeOK
      <4> QED
        BY <4>1, <4>2, <4>3 DEF None, Loaded
    <3>3. CASE ReadStampBefore(r)
      <4>1. /\ rpc[r] = "s1" /\ Gidx(r)' = Gidx(r) /\ s2' = s2 /\ i \in Nat
            /\ rpc'[r] = "s1" \/ (rpc'[r] = "data" /\ todo'[r] = Gidx(r) \X Fields)
        BY <2>3, <3>3, GidxBelow DEF ReadStampBefore, Gidx, TypeOK
      <4>2. s2'[r][i] = None
        BY <2>3, <4>1 DEF CopyInv, Copying
      <4>3. \A f \in Fields : ~ Loaded(r, i, f)'
        BY <2>3, <4>1 DEF Loaded
      <4> QED
        BY <4>1, <4>2, <4>3 DEF None
    <3>4. CASE ReadWord(r)
      <4>1. /\ rpc[r] = "data" /\ Gidx(r)' = Gidx(r) /\ s1' = s1 /\ s2' = s2 /\ i \in Nat
            /\ rpc'[r] \in {"data", "s2"}
        BY <2>3, <3>4, GidxBelow DEF ReadWord, Gidx, TypeOK
      <4>2. s2'[r][i] = None /\ Slot(i) \in Slots
        BY <2>3, <4>1, SlotType DEF CopyInv, Copying
      <4>3. PICK j \in Gidx(r), g \in Fields :
              /\ buf' = [buf EXCEPT ![r][j][g] = cell[Slot(j)][g]]
              /\ \/ rpc' = [rpc EXCEPT ![r] = "s2"] /\ todo[r] = {<<j, g>>}
                 \/ rpc' = rpc /\ todo' = [todo EXCEPT ![r] = @ \ {<<j, g>>}]
        BY <3>4, Zenon DEF ReadWord
      <4>4. \/ rpc'[r] = "s2" /\ todo[r] = {<<j, g>>}
            \/ rpc'[r] = "data" /\ todo'[r] = todo[r] \ {<<j, g>>}
        BY <4>1, <4>3 DEF TypeOK
      <4>5. ASSUME s1[r][i] = i, seq[Slot(i)] = i, NEW f \in Fields, Loaded(r, i, f)'
            PROVE  buf'[r][i][f] = i
        <5>1. buf[r] \in [Gidx(r) -> [Fields -> -1 .. MaxAppends]]
          BY <4>1 DEF TypeOK, Copying
        <5>2. CASE i = j /\ f = g
          BY <2>3, <4>1, <4>2, <4>3, <4>5, <5>1, <5>2 DEF RingInv, None, TypeOK
        <5>3. CASE ~ (i = j /\ f = g)
          <6>1. Loaded(r, i, f)
            BY <4>1, <4>4, <4>5, <5>3 DEF Loaded
          <6>2. buf'[r][i][f] = buf[r][i][f]
            BY <2>3, <4>1, <4>3, <5>1, <5>3 DEF TypeOK
          <6> QED
            BY <2>3, <4>1, <4>5, <6>1, <6>2 DEF CopyInv, Copying
        <5> QED
          BY <5>2, <5>3
      <4> QED
        BY <2>1, <4>1, <4>2, <4>5 DEF None, ring
    <3>5. CASE ReadStampAfter(r)
      <4>1. /\ rpc[r] = "s2" /\ Gidx(r)' = Gidx(r) /\ s1' = s1 /\ buf' = buf
            /\ rpc'[r] \in {"s2", "check"}
        BY <3>5 DEF ReadStampAfter, Gidx, TypeOK
      <4>2. PICK j \in todo[r] : s2' = [s2 EXCEPT ![r][j] = seq[Slot(j)]]
        BY <3>5 DEF ReadStampAfter
      <4>3. s2'[r][i] = IF i = j THEN seq[Slot(i)] ELSE s2[r][i]
        BY <2>3, <4>1, <4>2 DEF TypeOK, Copying
      <4>4. \A f \in Fields : Loaded(r, i, f)
        BY <4>1 DEF Loaded
      <4> QED
        BY <2>1, <2>3, <4>1, <4>3, <4>4 DEF CopyInv, Copying, ring
    <3>6. CASE ReturnWindow(r) \/ RetryOrGiveUp(r)
      <4>1. rpc' = [rpc EXCEPT ![r] = "idle"] \/ rpc' = [rpc EXCEPT ![r] = "count"]
        BY <3>6 DEF ReturnWindow, RetryOrGiveUp
      <4> QED
        BY <2>3, <4>1 DEF Copying, TypeOK
    <3> QED
      BY <1>2, <3>1, <3>2, <3>3, <3>4, <3>5, <3>6 DEF Read
  <2> QED
    BY <2>2, <2>3 DEF CopyInv
<1>3. CASE UNCHANGED vars
  BY <1>3 DEF vars, ring, copies, CopyInv, Copying, Gidx, Loaded
<1> QED
  BY <1>1, <1>2, <1>3 DEF Next

----------------------------------------------------------------------------
(* Headroom: who can take a sample away from a window. *)

\* A stamp that a reader found changed belonged to a sample that an append at
\* least one capacity younger has begun to overwrite.
HeadInv ==
  \A r \in Readers : Copying(r) => \A i \in Gidx(r) :
    /\ rpc[r] # "s1" \/ i \notin todo[r] => s1[r][i] = i \/ Begun > i + Capacity
    /\ rpc[r] = "check" \/ (rpc[r] = "s2" /\ i \notin todo[r]) =>
         s2[r][i] = i \/ Begun > i + Capacity

\* No stamp has been read at the start.
LEMMA HeadInit == Init => HeadInv
  BY DEF Init, HeadInv, Copying

\* Every step keeps the account of why a stamp did not match.
LEMMA HeadStep == TypeOK /\ RingInv /\ HeadInv /\ [Next]_vars => HeadInv'
<1> SUFFICES ASSUME TypeOK, RingInv, HeadInv, [Next]_vars PROVE HeadInv'
  OBVIOUS
<1>0. ASSUME NEW r \in Readers, Copying(r), NEW i \in Gidx(r)
      PROVE  i \in Nat /\ (seq[Slot(i)] = i \/ Begun > i + Capacity)
  <2>1. i \in 0 .. wc - 1 /\ i \in Nat
    <3>1. /\ kreq[r] \in 1 .. Capacity /\ snap[r] \in 0 .. MaxAppends
          /\ snap[r] <= wc /\ wc \in 0 .. MaxAppends
      BY <1>0 DEF TypeOK
    <3>2. i \in 0 .. snap[r] - 1
      BY <1>0, <3>1, WindowBelow DEF Gidx
    <3> QED
      BY <3>1, <3>2, RingAssumption
  <2>2. Begun <= i + Capacity => seq[Slot(i)] = i
    BY <2>1 DEF RingInv
  <2>3. Begun \in Nat /\ Capacity \in Nat
    BY RingAssumption DEF Begun, TypeOK
  <2> QED
    BY <2>1, <2>2, <2>3
<1>1. CASE Append
  <2>1. /\ UNCHANGED <<rpc, kreq, since, tries, copies, lastOk, res>>
        /\ Begun' >= Begun /\ Begun \in Nat /\ Begun' \in Nat
    BY <1>1 DEF Append, AppendInvalidate, AppendWord, AppendStamp, AppendCount, Begun, TypeOK
  <2> QED
    BY <1>0, <2>1, RingAssumption DEF HeadInv, Copying, Gidx, copies
<1>2. ASSUME NEW r \in Readers, Read(r) PROVE HeadInv'
  <2> DEFINE Inv(x, i) ==
        /\ rpc[x] # "s1" \/ i \notin todo[x] => s1[x][i] = i \/ Begun > i + Capacity
        /\ rpc[x] = "check" \/ (rpc[x] = "s2" /\ i \notin todo[x]) =>
             s2[x][i] = i \/ Begun > i + Capacity
  <2>1. UNCHANGED ring /\ Begun' = Begun
    BY <1>2, ReadFrame DEF ring, Begun
  <2>2. ASSUME NEW x \in Readers \ {r}, Copying(x)', NEW i \in Gidx(x)'
        PROVE  Inv(x, i)'
    <3>1. /\ rpc'[x] = rpc[x] /\ kreq'[x] = kreq[x] /\ snap'[x] = snap[x]
          /\ todo'[x] = todo[x] /\ s1'[x] = s1[x] /\ s2'[x] = s2[x]
      BY <1>2, ReadFrame
    <3> QED
      BY <2>1, <2>2, <3>1 DEF HeadInv, Copying, Gidx
  <2>3. ASSUME Copying(r)', NEW i \in Gidx(r)' PROVE Inv(r, i)'
    <3>1. CASE \E k \in 1 .. Capacity : Call(r, k)
      BY <2>3, <3>1 DEF Call, Copying, TypeOK
    <3>2. CASE ReadCount(r)
      <4>1. rpc'[r] = "s1" /\ todo'[r] = Window(kreq[r], wc) /\ snap'[r] = wc /\ kreq' = kreq
        BY <2>3, <3>2 DEF ReadCount, Copying, TypeOK
      <4> QED
        BY <2>3, <4>1 DEF Gidx
    <3>3. CASE ReadStampBefore(r)
      <4>1. rpc[r] = "s1" /\ Gidx(r)' = Gidx(r) /\ rpc'[r] \in {"s1", "data"}
        BY <3>3 DEF ReadStampBefore, Gidx, TypeOK
      <4>2. PICK j \in todo[r] :
              /\ s1' = [s1 EXCEPT ![r][j] = seq[Slot(j)]]
              /\ todo[r] = {j} \/ (todo' = [todo EXCEPT ![r] = @ \ {j}] /\ rpc' = rpc)
        BY <3>3 DEF ReadStampBefore
      <4>3. s1'[r][i] = IF i = j THEN seq[Slot(i)] ELSE s1[r][i]
        BY <2>3, <4>1, <4>2 DEF TypeOK, Copying
      <4>4. i \notin todo[r] \/ i = j \/ (i \in todo'[r] /\ rpc'[r] = "s1")
        BY <2>3, <4>1, <4>2 DEF TypeOK
      <4> QED
        BY <1>0, <2>1, <2>3, <4>1, <4>3, <4>4 DEF HeadInv, Copying
    <3>4. CASE ReadWord(r)
      <4>1. /\ rpc[r] = "data" /\ Gidx(r)' = Gidx(r) /\ s1' = s1
            /\ rpc'[r] = "data" \/ (rpc'[r] = "s2" /\ todo'[r] = Gidx(r))
        BY <3>4 DEF ReadWord, Gidx, TypeOK
      <4> QED
        BY <2>1, <2>3, <4>1 DEF HeadInv, Copying
    <3>5. CASE ReadStampAfter(r)
      <4>1. /\ rpc[r] = "s2" /\ Gidx(r)' = Gidx(r) /\ s1' = s1
        BY <3>5 DEF ReadStampAfter, Gidx, TypeOK
      <4>2. PICK j \in todo[r] :
              /\ s2' = [s2 EXCEPT ![r][j] = seq[Slot(j)]]
              /\ todo' = [todo EXCEPT ![r] = @ \ {j}]
              /\ rpc' = [rpc EXCEPT ![r] = IF todo[r] = {j} THEN "check" ELSE @]
        BY <3>5 DEF ReadStampAfter
      <4>3. s2'[r][i] = IF i = j THEN seq[Slot(i)] ELSE s2[r][i]
        BY <2>3, <4>1, <4>2 DEF TypeOK, Copying
      <4>4. i \notin todo[r] \/ i = j \/ (i \in todo'[r] /\ rpc'[r] = "s2")
        BY <2>3, <4>1, <4>2 DEF TypeOK
      <4> QED
        BY <1>0, <2>1, <2>3, <4>1, <4>3, <4>4 DEF HeadInv, Copying
    <3>6. CASE ReturnWindow(r) \/ RetryOrGiveUp(r)
      <4>1. rpc' = [rpc EXCEPT ![r] = "idle"] \/ rpc' = [rpc EXCEPT ![r] = "count"]
        BY <3>6 DEF ReturnWindow, RetryOrGiveUp
      <4> QED
        BY <2>3, <4>1 DEF Copying, TypeOK
    <3> QED
      BY <1>2, <3>1, <3>2, <3>3, <3>4, <3>5, <3>6 DEF Read
  <2> QED
    BY <2>2, <2>3 DEF HeadInv
<1>3. CASE UNCHANGED vars
  BY <1>3 DEF vars, ring, copies, HeadInv, Copying, Gidx, Begun
<1> QED
  BY <1>1, <1>2, <1>3 DEF Next

\* A read is cut short only by a producer that used up the headroom behind it,
\* for every capacity and every k (the third assumption documented in ring.py).
THEOREM HeadroomTheorem == Spec => []HeadroomSuffices
<1>1. HeadInv => HeadroomSuffices
  BY DEF HeadInv, HeadroomSuffices, Validated, Copying
<1> QED
  BY <1>1, TypeInit, TypeStep, RingInit, RingStep, HeadInit, HeadStep, PTL DEF Spec

----------------------------------------------------------------------------
(* Batches: what a call hands out. *)

\* b is nothing, or a gap-free run of whole samples whose newest one was the
\* newest of a moment at which the write count lay in lo .. w.
Answered(b, lo, w) ==
  \/ b = Empty
  \/ \E hi \in lo .. w : \E I \in SUBSET (0 .. hi - 1), over \in BOOLEAN :
       Stream!RunTo(I, hi) /\ b = Stream!Whole(I, over)

\* The kept suffix answers the call in progress; the last returned batch
\* answered an earlier one.
BatchInv ==
  \A r \in Readers :
    /\ Answered(res[r], 0, wc) /\ Answered(lastOk[r], 0, wc)
    /\ rpc[r] # "idle" =>
         Answered(lastOk[r], since[r], wc) /\ Answered(res[r], 0, since[r])

\* An answer to a call is also one to a call that began earlier or ends later.
LEMMA AnsweredWiden ==
  ASSUME NEW b, NEW lo \in Nat, NEW w \in Nat, NEW lo2 \in Nat, NEW w2 \in Nat,
         Answered(b, lo, w), lo2 <= lo, w <= w2
  PROVE  Answered(b, lo2, w2)
  BY DEF Answered

\* Copies that validated are the samples themselves.
LEMMA BatchWhole ==
  ASSUME TypeOK, CopyInv, NEW r \in Readers, rpc[r] = "check",
         NEW I \in SUBSET Validated(r), NEW over \in BOOLEAN
  PROVE  Batch(r, I, over) = Stream!Whole(I, over)
<1>1. ASSUME NEW i \in I PROVE buf[r][i] = [f \in Fields |-> i]
  <2>1. /\ i \in Gidx(r) /\ s1[r][i] = i /\ s2[r][i] = i
        /\ buf[r] \in [Gidx(r) -> [Fields -> -1 .. MaxAppends]]
    BY <1>1 DEF Validated, TypeOK, Copying
  <2>2. \A f \in Fields : buf[r][i][f] = i
    BY <2>1 DEF CopyInv, Copying
  <2> QED
    BY <2>1, <2>2
<1>2. [i \in I |-> buf[r][i]] = [i \in I |-> [f \in Fields |-> i]]
  BY <1>1
<1> QED
  BY <1>2 DEF Batch, Stream!Whole

\* The window, and the validated suffix last() keeps of it, are gap-free runs that
\* end at the newest sample of the snapshot.
LEMMA WindowRun ==
  ASSUME TypeOK, NEW r \in Readers, Copying(r)
  PROVE  /\ Stream!RunTo(Gidx(r), snap[r])
         /\ Gidx(r) \in SUBSET (0 .. snap[r] - 1)
         /\ Suffix(r) # {} => Stream!RunTo(Suffix(r), snap[r])
         /\ Suffix(r) \subseteq Validated(r)
<1>1. kreq[r] \in Nat /\ kreq[r] > 0 /\ snap[r] \in Nat /\ snap[r] > 0
  BY RingAssumption DEF TypeOK
<1>2. /\ Gidx(r) \subseteq 0 .. snap[r] - 1
      /\ snap[r] - 1 \in Gidx(r)
      /\ \A i \in Gidx(r) : i .. snap[r] - 1 \subseteq Gidx(r)
  BY <1>1, WindowBelow DEF Gidx
<1>3. Suffix(r) \subseteq Validated(r)
  BY <1>2 DEF Suffix
<1>4. ASSUME NEW i \in Suffix(r) PROVE i .. snap[r] - 1 \subseteq Suffix(r)
  <2>1. i \in Gidx(r) /\ \A j \in Gidx(r) : j >= i => j \in Validated(r)
    BY <1>4 DEF Suffix
  <2>2. \A x \in i .. snap[r] - 1 : x \in Gidx(r) /\ \A j \in Gidx(r) : j >= x => j >= i
    BY <1>1, <1>2, <2>1
  <2> QED
    BY <2>1, <2>2 DEF Suffix
<1>5. ASSUME NEW i \in Suffix(r) PROVE snap[r] - 1 \in Suffix(r)
  <2>1. snap[r] - 1 \in i .. snap[r] - 1
    BY <1>1, <1>2, <1>5 DEF Suffix
  <2> QED
    BY <1>4, <2>1
<1> QED
  BY <1>2, <1>3, <1>4, <1>5 DEF Stream!RunTo

\* What the two steps that end an attempt hand out or keep.
LEMMA AttemptAnswered ==
  ASSUME TypeOK, CopyInv, NEW r \in Readers, rpc[r] = "check"
  PROVE  /\ Validated(r) = Gidx(r) => Answered(Batch(r, Gidx(r), FALSE), since[r], wc)
         /\ Suffix(r) # {} => Answered(Batch(r, Suffix(r), TRUE), since[r], wc)
<1>1. /\ Stream!RunTo(Gidx(r), snap[r])
      /\ Gidx(r) \in SUBSET (0 .. snap[r] - 1)
      /\ Suffix(r) # {} => Stream!RunTo(Suffix(r), snap[r])
      /\ Suffix(r) \in SUBSET Validated(r)
      /\ Suffix(r) \in SUBSET Gidx(r)
  BY WindowRun DEF Copying, Suffix
<1>2. snap[r] \in since[r] .. wc
  BY DEF TypeOK, Copying
<1>3. ASSUME Validated(r) = Gidx(r) PROVE Answered(Batch(r, Gidx(r), FALSE), since[r], wc)
  <2>1. Batch(r, Gidx(r), FALSE) = Stream!Whole(Gidx(r), FALSE)
    BY <1>3, BatchWhole
  <2> QED
    BY <1>1, <1>2, <2>1 DEF Answered
<1>4. ASSUME Suffix(r) # {} PROVE Answered(Batch(r, Suffix(r), TRUE), since[r], wc)
  <2>1. Batch(r, Suffix(r), TRUE) = Stream!Whole(Suffix(r), TRUE)
    BY <1>1, BatchWhole
  <2>2. Suffix(r) \in SUBSET (0 .. snap[r] - 1)
    BY <1>1
  <2> QED
    BY <1>1, <1>2, <1>4, <2>1, <2>2 DEF Answered
<1> QED
  BY <1>3, <1>4

\* The batches are empty at the start.
LEMMA BatchInit == Init => BatchInv
  BY DEF Init, BatchInv, Answered

\* Every step keeps the batches answers to their calls.
LEMMA BatchStep == TypeOK /\ CopyInv /\ BatchInv /\ [Next]_vars => BatchInv'
<1> SUFFICES ASSUME TypeOK, CopyInv, BatchInv, [Next]_vars PROVE BatchInv'
  OBVIOUS
<1>0. wc \in Nat /\ \A r \in Readers : since[r] \in Nat /\ since[r] <= wc
  BY DEF TypeOK
<1>w. ASSUME NEW r \in Readers, NEW b, Answered(b, since[r], wc) PROVE Answered(b, 0, wc)
  <2>1. since[r] \in Nat /\ 0 <= since[r] /\ 0 \in Nat /\ wc <= wc
    BY <1>0
  <2> QED
    BY <1>0, <1>w, <2>1, AnsweredWiden
<1>1. CASE Append
  <2>1. /\ UNCHANGED <<rpc, since, lastOk, res>>
        /\ wc' \in Nat /\ wc <= wc'
    BY <1>0, <1>1 DEF Append, AppendInvalidate, AppendWord, AppendStamp, AppendCount
  <2>2. ASSUME NEW b, NEW lo \in Nat, Answered(b, lo, wc) PROVE Answered(b, lo, wc')
    BY <1>0, <2>1, <2>2, AnsweredWiden
  <2> QED
    BY <1>0, <2>1, <2>2 DEF BatchInv
<1>2. ASSUME NEW r \in Readers, Read(r) PROVE BatchInv'
  <2> DEFINE Inv(x) ==
        /\ Answered(res[x], 0, wc) /\ Answered(lastOk[x], 0, wc)
        /\ rpc[x] # "idle" =>
             Answered(lastOk[x], since[x], wc) /\ Answered(res[x], 0, since[x])
  <2>1. wc' = wc
    BY <1>2, ReadFrame DEF ring
  <2>2. ASSUME NEW x \in Readers \ {r} PROVE Inv(x)'
    <3>1. rpc'[x] = rpc[x] /\ since'[x] = since[x] /\ lastOk'[x] = lastOk[x] /\ res'[x] = res[x]
      BY <1>2, ReadFrame
    <3>2. Inv(x)
      BY DEF BatchInv
    <3> QED
      BY <2>1, <3>1, <3>2
  <2>3. Inv(r)'
    <3>1. CASE \E k \in 1 .. Capacity : Call(r, k)
      <4>1. /\ since'[r] = wc /\ lastOk'[r] = Empty /\ res' = res
        BY <3>1 DEF Call, TypeOK
      <4> QED
        BY <2>1, <4>1 DEF BatchInv, Answered
    <3>2. CASE ReadCount(r)
      <4>1. /\ rpc[r] # "idle" /\ since' = since /\ lastOk' = lastOk
            /\ res' = res \/ (res'[r] = Empty)
        BY <3>2 DEF ReadCount, TypeOK
      <4> QED
        BY <2>1, <4>1 DEF BatchInv, Answered
    <3>3. CASE ReadStampBefore(r) \/ ReadWord(r) \/ ReadStampAfter(r)
      <4>1. rpc[r] # "idle" /\ UNCHANGED <<since, lastOk, res>>
        BY <3>3 DEF ReadStampBefore, ReadWord, ReadStampAfter
      <4> QED
        BY <2>1, <4>1 DEF BatchInv
    <3>4. CASE ReturnWindow(r)
      <4>1. /\ rpc[r] = "check" /\ rpc'[r] = "idle" /\ lastOk' = lastOk
            /\ Validated(r) = Gidx(r)
            /\ res'[r] = Batch(r, Gidx(r), FALSE)
        BY <3>4 DEF ReturnWindow, TypeOK
      <4>2. Answered(res'[r], 0, wc)
        BY <1>w, <4>1, AttemptAnswered
      <4> QED
        BY <2>1, <4>1, <4>2 DEF BatchInv
    <3>5. CASE RetryOrGiveUp(r)
      <4> DEFINE ok == IF Suffix(r) # {} THEN Batch(r, Suffix(r), TRUE) ELSE lastOk[r]
      <4>1. /\ rpc[r] = "check" /\ lastOk'[r] = ok /\ since' = since
            /\ res' = res \/ (rpc'[r] = "idle" /\ res'[r] = ok)
        BY <3>5 DEF RetryOrGiveUp, TypeOK
      <4>2. Answered(ok, since[r], wc)
        BY <4>1, AttemptAnswered DEF BatchInv
      <4>3. Answered(ok, 0, wc)
        BY <1>w, <4>2
      <4> HIDE DEF ok
      <4> QED
        BY <2>1, <4>1, <4>2, <4>3 DEF BatchInv
    <3> QED
      BY <1>2, <3>1, <3>2, <3>3, <3>4, <3>5 DEF Read
  <2> QED
    BY <2>2, <2>3 DEF BatchInv
<1>3. CASE UNCHANGED vars
  BY <1>3 DEF vars, ring, BatchInv
<1> QED
  BY <1>1, <1>2, <1>3 DEF Next

\* A batch that answers a call holds whole samples only.
LEMMA BatchNoTorn == BatchInv => NoTornSample
<1> SUFFICES ASSUME BatchInv, NEW r \in Readers, NEW b \in {res[r], lastOk[r]},
                    NEW i \in DOMAIN b.rows, NEW f \in Fields
             PROVE  b.rows[i][f] = i
  BY DEF NoTornSample
<1>1. Answered(b, 0, wc)
  BY DEF BatchInv
<1> QED
  BY <1>1 DEF Answered, Empty, Stream!Whole

\* No reader, however slow, is ever handed a torn sample: for every capacity,
\* payload size and number of readers, with retries and kept suffixes.
THEOREM NoTornTheorem == Spec => []NoTornSample
  BY TypeInit, TypeStep, RingInit, RingStep, CopyInit, CopyStep, BatchInit, BatchStep,
     BatchNoTorn, PTL DEF Spec

----------------------------------------------------------------------------
(* The ring implements the atomic stream. *)

Pending == {r \in Readers : rpc[r] # "idle"}

\* An empty ring is an empty stream.
LEMMA StreamInit == Init => Stream!AInit
  BY DEF Init, Stream!AInit, Stream!NoRows, Empty, None

\* A call that returns answers as the atomic stream may.
LEMMA ReturnAnswers ==
  ASSUME TypeOK, NEW r \in Readers, r \in Pending, rpc' = [rpc EXCEPT ![r] = "idle"],
         UNCHANGED <<wc, since>>, NEW b, Answered(b, since[r], wc),
         res' = [res EXCEPT ![r] = b]
  PROVE  Stream!Answer(r)
<1>1. Pending' = Pending \ {r}
  BY DEF Pending, TypeOK
<1>2. \/ res' = [res EXCEPT ![r] = Stream!NoRows]
      \/ \E hi \in since[r] .. wc : \E I \in SUBSET (0 .. hi - 1), over \in BOOLEAN :
           /\ Stream!RunTo(I, hi)
           /\ res' = [res EXCEPT ![r] = Stream!Whole(I, over)]
  BY DEF Answered, Empty, None, Stream!NoRows
<1> QED
  BY <1>1, <1>2 DEF Stream!Answer, Pending

\* A step of the ring is a step of the stream or leaves it alone.
LEMMA StreamStep ==
  TypeOK /\ CopyInv /\ BatchInv /\ [Next]_vars => [Stream!ANext]_(Stream!avars)
<1> SUFFICES ASSUME TypeOK, CopyInv, BatchInv, [Next]_vars
             PROVE  [Stream!ANext]_(Stream!avars)
  OBVIOUS
<1>s. ASSUME UNCHANGED <<wc, since, res>>, Pending' = Pending
      PROVE  UNCHANGED Stream!avars
  BY <1>s DEF Stream!avars, Pending
<1>1. CASE AppendCount
  BY <1>1 DEF AppendCount, Stream!Publish, Stream!ANext
<1>2. CASE AppendInvalidate \/ (\E f \in Fields : AppendWord(f)) \/ AppendStamp
  <2>1. UNCHANGED <<wc, since, res, rpc>>
    BY <1>2 DEF AppendInvalidate, AppendWord, AppendStamp
  <2> QED
    BY <1>s, <2>1 DEF Pending
<1>3. ASSUME NEW r \in Readers, Read(r) PROVE [Stream!ANext]_(Stream!avars)
  <2>1. CASE \E k \in 1 .. Capacity : Call(r, k)
    <3>1. /\ rpc[r] = "idle" /\ rpc' = [rpc EXCEPT ![r] = "count"]
          /\ since' = [since EXCEPT ![r] = wc] /\ res' = res /\ wc' = wc
      BY <2>1 DEF Call, ring
    <3>2. Pending' = Pending \cup {r} /\ r \notin Pending
      BY <3>1 DEF Pending, TypeOK
    <3> QED
      BY <3>1, <3>2 DEF Stream!Begin, Stream!ANext, Pending
  <2>2. CASE ReadCount(r)
    <3>1. rpc[r] = "count" /\ UNCHANGED <<wc, since>>
      BY <2>2 DEF ReadCount, ring
    <3>2. CASE wc = 0
      <4>1. res' = [res EXCEPT ![r] = Empty] /\ rpc' = [rpc EXCEPT ![r] = "idle"]
        BY <2>2, <3>2 DEF ReadCount
      <4>2. Answered(Empty, since[r], wc) /\ r \in Pending
        BY <3>1 DEF Answered, Pending
      <4> QED
        BY <3>1, <4>1, <4>2, ReturnAnswers DEF Stream!ANext
    <3>3. CASE wc # 0
      <4>1. res' = res /\ rpc' = [rpc EXCEPT ![r] = "s1"]
        BY <2>2, <3>3 DEF ReadCount
      <4>2. Pending' = Pending
        BY <3>1, <4>1 DEF Pending, TypeOK
      <4> QED
        BY <1>s, <3>1, <4>1, <4>2
    <3> QED
      BY <3>2, <3>3
  <2>3. CASE ReadStampBefore(r) \/ ReadWord(r) \/ ReadStampAfter(r)
    <3>0. rpc[r] # "idle" /\ UNCHANGED <<wc, since, res>>
      BY <2>3 DEF ReadStampBefore, ReadWord, ReadStampAfter, ring
    <3>a. rpc' = rpc \/ \E pc \in {"data", "s2", "check"} : rpc' = [rpc EXCEPT ![r] = pc]
      <4>1. CASE ReadStampBefore(r)
        BY <4>1, Zenon DEF ReadStampBefore
      <4>2. CASE ReadWord(r)
        BY <4>2, Zenon DEF ReadWord
      <4>3. CASE ReadStampAfter(r)
        <5>1. \/ rpc' = [rpc EXCEPT ![r] = "check"]
              \/ rpc' = [rpc EXCEPT ![r] = rpc[r]]
          BY <4>3 DEF ReadStampAfter
        <5> QED
          BY <5>1 DEF TypeOK
      <4> QED
        BY <2>3, <4>1, <4>2, <4>3
    <3>1. rpc[r] # "idle" /\ rpc'[r] # "idle" /\ UNCHANGED <<wc, since, res>>
          /\ \A x \in Readers \ {r} : rpc'[x] = rpc[x]
      BY <3>0, <3>a DEF TypeOK
    <3>2. Pending' = Pending
      BY <3>1 DEF Pending, TypeOK
    <3> QED
      BY <1>s, <3>1, <3>2
  <2>4. CASE ReturnWindow(r)
    <3>1. /\ rpc[r] = "check" /\ rpc' = [rpc EXCEPT ![r] = "idle"] /\ Validated(r) = Gidx(r)
          /\ res' = [res EXCEPT ![r] = Batch(r, Gidx(r), FALSE)] /\ UNCHANGED <<wc, since>>
      BY <2>4 DEF ReturnWindow, ring
    <3>2. r \in Pending /\ Answered(Batch(r, Gidx(r), FALSE), since[r], wc)
      BY <3>1, AttemptAnswered DEF Pending
    <3> QED
      BY <3>1, <3>2, ReturnAnswers DEF Stream!ANext
  <2>5. CASE RetryOrGiveUp(r)
    <3> DEFINE ok == IF Suffix(r) # {} THEN Batch(r, Suffix(r), TRUE) ELSE lastOk[r]
    <3>1. /\ rpc[r] = "check" /\ UNCHANGED <<wc, since>>
          /\ \/ rpc' = [rpc EXCEPT ![r] = "count"] /\ res' = res
             \/ rpc' = [rpc EXCEPT ![r] = "idle"] /\ res' = [res EXCEPT ![r] = ok]
      BY <2>5 DEF RetryOrGiveUp, ring
    <3>2. r \in Pending /\ Answered(ok, since[r], wc)
      BY <3>1, AttemptAnswered DEF Pending, BatchInv
    <3> HIDE DEF ok
    <3>3. CASE rpc' = [rpc EXCEPT ![r] = "count"] /\ res' = res
      <4>1. Pending' = Pending
        BY <3>1, <3>3 DEF Pending, TypeOK
      <4> QED
        BY <1>s, <3>1, <3>3, <4>1
    <3>4. CASE rpc' = [rpc EXCEPT ![r] = "idle"] /\ res' = [res EXCEPT ![r] = ok]
      BY <3>1, <3>2, <3>4, ReturnAnswers DEF Stream!ANext
    <3> QED
      BY <3>1, <3>3, <3>4
  <2> QED
    BY <1>3, <2>1, <2>2, <2>3, <2>4, <2>5 DEF Read
<1>4. CASE UNCHANGED vars
  BY <1>4 DEF vars, ring, Stream!avars
<1> QED
  BY <1>1, <1>2, <1>3, <1>4 DEF Next, Append

\* For every capacity, payload size, number of readers and number of retries the
\* lock-free ring implements the atomic stream its clients are written against.
THEOREM RingImplementsStream == Spec => ImplementsStream
  BY TypeInit, TypeStep, RingInit, RingStep, CopyInit, CopyStep, BatchInit, BatchStep,
     StreamInit, StreamStep, PTL DEF Spec, ImplementsStream, Stream!ASpec

----------------------------------------------------------------------------
(* Reads move forward in time. *)

\* The newest sample of an answer is the last one of its run.
LEMMA NewestOfRun ==
  ASSUME NEW hi \in Nat, NEW I \in SUBSET (0 .. hi - 1), NEW over \in BOOLEAN,
         Stream!RunTo(I, hi), NEW b, b = Stream!Whole(I, over)
  PROVE  Newest(b) = hi - 1
<1>1. DOMAIN b.rows = I /\ hi - 1 \in I /\ \A j \in I : j \in Int /\ j <= hi - 1
  BY DEF Stream!RunTo, Stream!Whole
<1>2. \A i \in I : (\A j \in I : j <= i) => i = hi - 1
  BY <1>1
<1> QED
  BY <1>1, <1>2 DEF Newest

\* An answer ends no earlier than the answer to the reader's call before it.
LEMMA MonotoneStep ==
  ASSUME TypeOK, BatchInv, NEW r \in Readers, Stream!Answer(r), DOMAIN res'[r].rows # {}
  PROVE  Newest(res'[r]) >= Newest(res[r])
<1>0. r \in {x \in Readers : rpc[x] # "idle"}
  BY Zenon DEF Stream!Answer
<1>1. Answered(res[r], 0, since[r]) /\ since[r] \in Nat /\ wc \in Nat
  <2>1. rpc[r] # "idle"
    BY <1>0
  <2>2. Answered(res[r], 0, since[r])
    BY <2>1, Zenon DEF BatchInv
  <2>3. since[r] \in Nat /\ wc \in Nat
    BY RingAssumption DEF TypeOK
  <2> QED
    BY <2>2, <2>3
<1>a. PICK hi \in since[r] .. wc : \E I \in SUBSET (0 .. hi - 1), over \in BOOLEAN :
        Stream!RunTo(I, hi) /\ res'[r] = Stream!Whole(I, over)
  BY DEF Stream!Answer, Stream!NoRows, TypeOK
<1>2. PICK I \in SUBSET (0 .. hi - 1), over \in BOOLEAN :
        Stream!RunTo(I, hi) /\ res'[r] = Stream!Whole(I, over)
  BY <1>a
<1>3. Newest(res'[r]) = hi - 1 /\ hi >= since[r] /\ hi \in Nat /\ hi > 0
  <2>1. hi \in Nat /\ hi >= since[r] /\ hi - 1 \in I
    BY <1>1, <1>2 DEF Stream!RunTo
  <2> QED
    BY <1>2, <2>1, NewestOfRun
<1>4. CASE res[r] = Empty
  BY <1>3, <1>4 DEF Newest, Empty, None
<1>5. CASE res[r] # Empty
  <2>a. PICK h \in 0 .. since[r] : \E J \in SUBSET (0 .. h - 1), o \in BOOLEAN :
          Stream!RunTo(J, h) /\ res[r] = Stream!Whole(J, o)
    BY <1>1, <1>5 DEF Answered
  <2>1. PICK J \in SUBSET (0 .. h - 1), o \in BOOLEAN :
          Stream!RunTo(J, h) /\ res[r] = Stream!Whole(J, o)
    BY <2>a
  <2>2. h \in Nat /\ Newest(res[r]) = h - 1
    BY <1>1, <2>1, NewestOfRun
  <2> QED
    BY <1>1, <1>3, <2>1, <2>2
<1> QED
  BY <1>4, <1>5

\* Only an answer changes a batch.
LEMMA MonotoneNext ==
  TypeOK /\ CopyInv /\ BatchInv /\ [Next]_vars =>
    [\A r \in Readers : (res'[r] # res[r] /\ DOMAIN res'[r].rows # {})
                          => Newest(res'[r]) >= Newest(res[r])]_vars
<1> SUFFICES ASSUME TypeOK, CopyInv, BatchInv, [Next]_vars, NEW r \in Readers,
                    res'[r] # res[r], DOMAIN res'[r].rows # {}
             PROVE  Newest(res'[r]) >= Newest(res[r])
  OBVIOUS
<1>1. [Stream!ANext]_(Stream!avars)
  BY StreamStep
<1>2. PICK x \in Readers : Stream!Answer(x)
  BY <1>1 DEF Stream!ANext, Stream!avars, Stream!Publish, Stream!Begin
<1>3. x = r
  BY <1>2 DEF Stream!Answer, TypeOK
<1> QED
  BY <1>2, <1>3, MonotoneStep

\* No reader is ever given a batch that ends before the batch it was given
\* before, whatever the producer does between and during its calls of last().
THEOREM MonotoneTheorem == Spec => MonotoneReads
  BY TypeInit, TypeStep, RingInit, RingStep, CopyInit, CopyStep, BatchInit, BatchStep,
     MonotoneNext, PTL DEF Spec, MonotoneReads

=============================================================================
