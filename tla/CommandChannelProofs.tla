------------------------ MODULE CommandChannelProofs ------------------------
(***************************************************************************)
(* Proofs about the path of an operator's commands: the ring that carries  *)
(* them (CommandChannel), for every capacity and any number of commands,   *)
(* and the page that surfaces how their runs ended (OperatorPage), for any *)
(* number of daemons and runs.                                             *)
(***************************************************************************)
EXTENDS CommandChannel, OperatorPage, SequenceTheorems, TLAPS

----------------------------------------------------------------------------
(* Bounds, answers and rows. *)

\* The larger of two and of three integers.
LEMMA MaxOfTwo ==
  ASSUME NEW a \in Int, NEW b \in Int
  PROVE  Max({a, b}) \in {a, b} /\ Max({a, b}) >= a /\ Max({a, b}) >= b
<1>1. \E x \in {a, b} : \A y \in {a, b} : x >= y
  <2>1. CASE a >= b
    BY <2>1
  <2>2. CASE b >= a
    BY <2>2
  <2> QED
    BY <2>1, <2>2
<1> QED
  BY <1>1 DEF Max

LEMMA MaxOfThree ==
  ASSUME NEW a \in Int, NEW b \in Int, NEW c \in Int
  PROVE  /\ Max({a, b, c}) \in {a, b, c}
         /\ Max({a, b, c}) >= a /\ Max({a, b, c}) >= b /\ Max({a, b, c}) >= c
<1>1. \E x \in {a, b, c} : \A y \in {a, b, c} : x >= y
  <2>1. CASE a >= b /\ a >= c
    BY <2>1
  <2>2. CASE b >= a /\ b >= c
    BY <2>2
  <2>3. CASE c >= a /\ c >= b
    BY <2>3
  <2> QED
    BY <2>1, <2>2, <2>3
<1> QED
  BY <1>1 DEF Max

\* An append in progress or done: the brain has begun at least wc of them.
LEMMA BegunFacts ==
  ASSUME TypeOK PROVE Begun \in Nat /\ Begun >= wc /\ Begun <= wc + 1 /\ wc \in Nat
BY DEF TypeOK, Begun, wc

\* A read answers with commands below a count of some moment inside the call, and
\* a command of the last k that is missing from the answer has been lapped.
LEMMA AnswerFacts ==
  ASSUME TypeOK, NEW k \in 1 .. Capacity, NEW a \in Answers(k)
  PROVE  /\ a[1] \in 0 .. wc /\ a[2] \in since .. wc /\ a[1] <= a[2]
         /\ \A i \in 0 .. a[1] - 1 : i >= a[2] - k => Lapped(i)
<1> DEFINE lo == a[1]
           hi == a[2]
           first == WindowStart(k, hi)
<1>1. /\ lo \in 0 .. wc /\ hi \in since .. wc /\ lo <= hi
      /\ lo > first => Lapped(lo - 1)
  BY DEF Answers
<1>2. wc \in Nat /\ since \in Nat /\ Capacity \in Nat /\ Begun \in Nat
  BY BegunFacts, ChannelAssumption DEF TypeOK
<1> HIDE DEF lo, hi
<1>3. first \in {0, hi - k, hi - Capacity} /\ hi - Capacity <= hi - k /\ first \in Int
  <2>1. 0 \in Int /\ hi - k \in Int /\ hi - Capacity \in Int
    BY <1>1, <1>2
  <2>2. Max({0, hi - k, hi - Capacity}) \in {0, hi - k, hi - Capacity}
    BY <2>1, MaxOfThree
  <2> QED
    BY <1>1, <1>2, <2>1, <2>2 DEF WindowStart
<1> HIDE DEF first
<1>4. ASSUME NEW i \in 0 .. lo - 1, i >= hi - k PROVE Lapped(i)
  <2>1. lo > first
    BY <1>1, <1>2, <1>3, <1>4
  <2>2. Begun > lo - 1 + Capacity
    BY <1>1, <2>1 DEF Lapped
  <2> QED
    BY <1>1, <1>2, <1>4, <2>2 DEF Lapped
<1> QED
  BY <1>1, <1>4 DEF lo, hi

\* The new rows of a batch are the consecutive commands from .. hi - 1.
LEMMA RowsFacts ==
  ASSUME NEW lo \in Nat, NEW hi \in Nat, cursor \in Int, cursor + 1 >= 0, lo <= hi, cursor < hi
  PROVE  \E from \in Nat :
           /\ NewRows(lo, hi) \in Seq(Int) /\ Len(NewRows(lo, hi)) = hi - from
           /\ \A n \in 1 .. hi - from : NewRows(lo, hi)[n] = from + n - 1
           /\ from >= lo /\ from >= cursor + 1 /\ from \in {lo, cursor + 1} /\ from <= hi
<1> DEFINE from == Max({lo, cursor + 1})
<1>1. from \in {lo, cursor + 1} /\ from >= lo /\ from >= cursor + 1
  BY MaxOfTwo
<1>2. NewRows(lo, hi) = [n \in 1 .. hi - from |-> from + n - 1]
  BY DEF NewRows
<1> HIDE DEF from
<1>3. from \in Nat /\ from <= hi
  BY <1>1
<1>4. NewRows(lo, hi) \in Seq(Int) /\ Len(NewRows(lo, hi)) = hi - from
  BY <1>2, <1>3
<1>5. \A n \in 1 .. hi - from : NewRows(lo, hi)[n] = from + n - 1
  BY <1>2, <1>3
<1> QED
  BY <1>1, <1>3, <1>4, <1>5

----------------------------------------------------------------------------
(* The invariant. *)

\* Which calls each consumer makes, and where its cursor stands: nothing handed
\* out lies beyond it, a drain begins at or after it, and once the baseline is
\* taken it is past everything posted before, short of the startup race.
CursorInv ==
  /\ posting # "NONE" => wc < MaxPosts
  /\ mode = "detached" => rpc = "rest" /\ cursor = -1 /\ out = <<>>
  /\ rpc = "baseline" => mode = "python" /\ cursor = -1 /\ out = <<>> /\ since = base
  /\ rpc = "drain" => mode = "python" /\ cursor < since
  /\ rpc = "scan" <=> mode = "native" /\ rpc # "rest"
  /\ mode = "stopped" => rpc = "rest"
  /\ \A n \in DOMAIN out : out[n] <= cursor
  /\ mode = "python" /\ rpc # "baseline" =>
       cursor >= base - 1 \/ ready >= base + Capacity - 1

IInv == TypeOK /\ CursorInv /\ InOrder /\ NothingSkipped /\ NoReplay

\* Nothing is posted yet.
LEMMA InvInit == Init => IInv
BY ChannelAssumption DEF Init, IInv, TypeOK, CursorInv, InOrder, NothingSkipped, NoReplay, wc,
   Kinds

\* What one drain does to the consumer, in the terms of the invariant: the cursor
\* moves from c to hi - 1, everything in between is handed out or lapped.
LEMMA DrainFacts ==
  ASSUME TypeOK, CursorInv, InOrder, rpc = "drain",
         NEW a \in Answers(Capacity), a[1] # a[2]
  PROVE  LET s == out \o NewRows(a[1], a[2]) IN
         /\ s \in Seq(0 .. wc - 1)
         /\ a[2] - 1 \in cursor .. wc - 1
         /\ \A n \in DOMAIN s : s[n] <= a[2] - 1
         /\ \A n \in DOMAIN s : (n \in DOMAIN out /\ s[n] = out[n]) \/ s[n] > cursor
         /\ \A n \in DOMAIN out : n \in DOMAIN s /\ s[n] = out[n]
         /\ \A m, n \in DOMAIN s : m < n => s[m] < s[n]
         /\ \A i \in cursor + 1 .. a[2] - 1 : Lapped(i) \/ \E n \in DOMAIN s : s[n] = i
<1> DEFINE lo == a[1]
           hi == a[2]
<1>1. /\ wc \in Nat /\ since \in 0 .. wc /\ cursor \in -1 .. wc - 1 /\ cursor < since
      /\ Begun \in Nat /\ Begun >= wc
      /\ Capacity \in Nat \ {0} /\ out \in Seq(0 .. wc - 1)
  BY BegunFacts, ChannelAssumption DEF TypeOK, CursorInv
<1>2. /\ lo \in 0 .. wc /\ hi \in since .. wc /\ lo <= hi
      /\ \A i \in 0 .. lo - 1 : i >= hi - Capacity => Lapped(i)
  <2>1. Capacity \in 1 .. Capacity
    BY <1>1
  <2> QED
    BY <2>1, AnswerFacts
<1> HIDE DEF lo, hi
<1>3. PICK from \in Nat :
        /\ NewRows(lo, hi) \in Seq(Int) /\ Len(NewRows(lo, hi)) = hi - from
        /\ \A n \in 1 .. hi - from : NewRows(lo, hi)[n] = from + n - 1
        /\ from >= lo /\ from >= cursor + 1 /\ from \in {lo, cursor + 1} /\ from <= hi
  <2>1. lo \in Nat /\ hi \in Nat /\ cursor \in Int /\ cursor + 1 >= 0 /\ lo <= hi /\ cursor < hi
    BY <1>1, <1>2
  <2> QED
    BY <2>1, RowsFacts
<1> DEFINE s == out \o NewRows(lo, hi)
<1>4. out \in Seq(Int) /\ \A n \in DOMAIN out : out[n] \in 0 .. wc - 1 /\ out[n] <= cursor
  <2>1. \A n \in DOMAIN out : out[n] \in 0 .. wc - 1
    BY <1>1
  <2>2. out \in Seq(Int)
    BY <1>1, SeqMonotonic
  <2> QED
    BY <2>1, <2>2 DEF CursorInv
<1>5. /\ s \in Seq(Int)
      /\ \A n \in DOMAIN s : (n \in DOMAIN out /\ s[n] = out[n]) \/ s[n] \in from .. hi - 1
      /\ \A n \in DOMAIN out : n \in DOMAIN s /\ s[n] = out[n]
      /\ \A i \in from .. hi - 1 : \E n \in DOMAIN s : s[n] = i
      /\ \A m, n \in DOMAIN s : m < n => s[m] < s[n]
  <2> DEFINE r == NewRows(lo, hi)
             l == Len(out)
  <2>1. hi \in Nat /\ \A n \in DOMAIN out : out[n] < from
    BY <1>1, <1>2, <1>3, <1>4
  <2>2. /\ s \in Seq(Int) /\ Len(s) = l + Len(r)
        /\ \A i \in 1 .. l + Len(r) : s[i] = IF i <= l THEN out[i] ELSE r[i - l]
    BY <1>3, <1>4, ConcatProperties
  <2>3. /\ l \in Nat /\ Len(r) = hi - from /\ \A n \in 1 .. hi - from : r[n] = from + n - 1
        /\ DOMAIN s = 1 .. l + (hi - from) /\ DOMAIN out = 1 .. l
    BY <1>3, <1>4, <2>2, LenProperties
  <2> HIDE DEF s, r, l
  <2>4. ASSUME NEW n \in 1 .. l + (hi - from), n > l PROVE s[n] = from + (n - l) - 1
    <3>1. n - l \in 1 .. hi - from /\ n \in 1 .. l + Len(r) /\ ~(n <= l)
      BY <1>3, <2>1, <2>3, <2>4
    <3> QED
      BY <2>2, <2>3, <3>1
  <2>5. ASSUME NEW n \in DOMAIN out PROVE n \in DOMAIN s /\ s[n] = out[n]
    BY <1>3, <2>1, <2>2, <2>3
  <2>6. ASSUME NEW i \in from .. hi - 1 PROVE \E n \in DOMAIN s : s[n] = i
    <3> DEFINE n == l + (i - from) + 1
    <3>1. n \in 1 .. l + (hi - from) /\ n > l /\ from + (n - l) - 1 = i
      BY <1>3, <2>1, <2>3
    <3> QED
      BY <2>3, <2>4, <3>1
  <2>7. ASSUME NEW n \in 1 .. l + (hi - from)
         PROVE  (n \in DOMAIN out /\ s[n] = out[n]) \/ s[n] \in from .. hi - 1
    <3>1. CASE n <= l
      BY <2>1, <2>3, <2>5, <3>1
    <3>2. CASE n > l
      BY <1>3, <2>1, <2>3, <2>4, <3>2
    <3> QED
      BY <1>3, <2>1, <2>3, <3>1, <3>2
  <2>8. ASSUME NEW m \in 1 .. l + (hi - from), NEW n \in 1 .. l + (hi - from), m < n PROVE s[m] < s[n]
    <3>1. CASE n <= l
      <4>1. m \in DOMAIN out /\ n \in DOMAIN out
        BY <1>3, <2>1, <2>3, <2>8, <3>1
      <4> QED
        BY <2>5, <2>8, <4>1 DEF InOrder
    <3>2. CASE m <= l /\ n > l
      <4>1. s[n] = from + (n - l) - 1
        BY <2>4, <3>2
      <4>2. m \in DOMAIN out
        BY <1>3, <2>1, <2>3, <3>2
      <4>3. s[m] = out[m] /\ out[m] < from /\ out[m] \in Int
        BY <1>4, <2>1, <2>5, <4>2
      <4> QED
        BY <1>3, <2>1, <2>3, <3>2, <4>1, <4>3
    <3>3. CASE m > l
      <4>1. s[n] = from + (n - l) - 1 /\ s[m] = from + (m - l) - 1
        BY <1>3, <2>1, <2>3, <2>4, <2>8, <3>3
      <4> QED
        BY <1>3, <2>1, <2>3, <2>8, <4>1
    <3> QED
      BY <1>3, <2>1, <2>3, <3>1, <3>2, <3>3
  <2> QED
    BY <2>2, <2>3, <2>5, <2>6, <2>7, <2>8
<1> HIDE DEF s
<1>6. \A n \in DOMAIN s : s[n] \in 0 .. wc - 1 /\ s[n] <= hi - 1
  <2> SUFFICES ASSUME NEW n \in DOMAIN s PROVE s[n] \in 0 .. wc - 1 /\ s[n] <= hi - 1
    OBVIOUS
  <2>1. CASE n \in DOMAIN out /\ s[n] = out[n]
    BY <1>1, <1>2, <1>4, <2>1
  <2>2. CASE s[n] \in from .. hi - 1
    BY <1>1, <1>2, <1>3, <2>2
  <2> QED
    BY <1>5, <2>1, <2>2
<1>7. s \in Seq(0 .. wc - 1)
  <2>1. s \in [1 .. Len(s) -> 0 .. wc - 1] /\ Len(s) \in Nat
    BY <1>5, <1>6, LenProperties
  <2> QED
    BY <2>1, SeqDef
<1>8. \A n \in DOMAIN s : (n \in DOMAIN out /\ s[n] = out[n]) \/ s[n] > cursor
  BY <1>1, <1>2, <1>3, <1>5, SMTT(30)
<1>9. ASSUME NEW i \in cursor + 1 .. hi - 1 PROVE Lapped(i) \/ \E n \in DOMAIN s : s[n] = i
  <2>1. CASE i >= from
    BY <1>1, <1>2, <1>3, <1>5, <2>1
  <2>2. CASE i < from /\ i >= hi - Capacity
    BY <1>1, <1>2, <1>3, <1>9, <2>2
  <2>3. CASE i < hi - Capacity
    BY <1>1, <1>2, <2>3 DEF Lapped
  <2> QED
    BY <1>1, <1>2, <1>3, <2>1, <2>2, <2>3
<1>10. hi - 1 \in cursor .. wc - 1
  BY <1>1, <1>2
<1> QED
  BY <1>5, <1>6, <1>7, <1>8, <1>9, <1>10, Zenon DEF s, lo, hi

\* The brain only adds commands: what was lapped stays lapped.
LEMMA BrainStep == IInv /\ Brain => IInv'
<1> SUFFICES ASSUME IInv, Brain PROVE IInv'
  OBVIOUS
<1>1. /\ UNCHANGED <<mode, rpc, since, cursor, out, base, ready>>
      /\ posted' \in Seq(Kinds) /\ wc' \in Nat /\ wc' <= MaxPosts /\ wc' >= wc
      /\ posting' \in Kinds \cup {"NONE"} /\ (posting' # "NONE" => wc' < MaxPosts)
      /\ Begun' \in Nat /\ Begun' >= Begun
  <2>1. ASSUME NEW k \in Kinds, BeginPost(k) PROVE <1>1!:
    BY <2>1, ChannelAssumption DEF BeginPost, IInv, TypeOK, CursorInv, wc, Begun, Kinds
  <2>2. CASE EndPost
    <3>1. /\ posted' \in Seq(Kinds) /\ Len(posted') = Len(posted) + 1 /\ posting \in Kinds
          /\ posting' = "NONE"
      BY <2>2, AppendProperties DEF EndPost, IInv, TypeOK
    <3> QED
      BY <2>2, <3>1, ChannelAssumption DEF EndPost, IInv, TypeOK, CursorInv, wc, Begun, Kinds
  <2> QED
    BY <2>1, <2>2 DEF Brain
<1>2. wc \in Nat /\ Begun \in Nat /\ Capacity \in Nat
  BY BegunFacts, ChannelAssumption DEF IInv
<1>3. \A j \in Int : Lapped(j) => Lapped(j)'
  BY <1>1, <1>2 DEF Lapped
<1>4. TypeOK'
  <2> DEFINE v == wc
             w == wc'
  <2>1. v \in Nat /\ w \in Nat /\ v <= w
    BY <1>1, <1>2
  <2>2. /\ since \in 0 .. v /\ base \in 0 .. v /\ ready \in 0 .. v
        /\ cursor \in -1 .. v - 1 /\ out \in Seq(0 .. v - 1)
    BY DEF IInv, TypeOK
  <2> HIDE DEF v, w
  <2>3. 0 .. v - 1 \subseteq 0 .. w - 1
    BY <2>1
  <2>4. out \in Seq(0 .. w - 1)
    BY <2>2, <2>3, SeqMonotonic
  <2>5. since \in 0 .. w /\ base \in 0 .. w /\ ready \in 0 .. w /\ cursor \in -1 .. w - 1
    BY <2>1, <2>2
  <2> QED
    BY <1>1, <2>4, <2>5 DEF IInv, TypeOK, w
<1>5. CursorInv'
  BY <1>1 DEF IInv, CursorInv
<1>6. InOrder' /\ NoReplay'
  BY <1>1 DEF IInv, InOrder, NoReplay
<1>7. NothingSkipped'
  BY <1>1, <1>3 DEF IInv, TypeOK, NothingSkipped
<1> QED
  BY <1>4, <1>5, <1>6, <1>7 DEF IInv

\* CommandCursor is created: its first read only ends with no command when there
\* is none, or when a whole ring was posted meanwhile.
LEMMA BaselineStep == IInv /\ (Baseline \/ SetBaseline) => IInv'
<1> SUFFICES ASSUME IInv, Baseline \/ SetBaseline PROVE IInv'
  OBVIOUS
<1>1. wc \in Nat /\ Begun \in Nat /\ Begun <= wc + 1 /\ Capacity \in Nat \ {0}
  BY BegunFacts, ChannelAssumption DEF IInv
<1>2. CASE Baseline
  BY <1>1, <1>2
     DEF Baseline, IInv, TypeOK, CursorInv, InOrder, NothingSkipped, NoReplay, brain, wc
<1>3. CASE SetBaseline
  <2>1. PICK a \in Answers(1) : cursor' = IF a[1] = a[2] THEN -1 ELSE a[2] - 1
    BY <1>3 DEF SetBaseline
  <2>2. /\ a[1] \in 0 .. wc /\ a[2] \in since .. wc /\ a[1] <= a[2]
        /\ \A i \in 0 .. a[1] - 1 : i >= a[2] - 1 => Lapped(i)
    <3>1. 1 \in 1 .. Capacity
      BY <1>1
    <3> QED
      BY <3>1, AnswerFacts DEF IInv
  <2>3. /\ rpc = "baseline" /\ rpc' = "rest" /\ ready' = wc
        /\ UNCHANGED <<posted, posting, mode, since, out, base>>
        /\ mode = "python" /\ cursor = -1 /\ out = <<>> /\ since = base /\ base \in 0 .. wc
    BY <1>3 DEF SetBaseline, IInv, TypeOK, CursorInv, brain
  <2>4. cursor' \in -1 .. wc - 1
    BY <1>1, <2>1, <2>2, <2>3
  <2>5. cursor' >= base - 1 \/ ready' >= base + Capacity - 1
    <3>1. CASE a[1] # a[2]
      BY <1>1, <2>1, <2>2, <2>3, <3>1
    <3>2. CASE a[1] = a[2] /\ a[2] = 0
      BY <1>1, <2>1, <2>2, <2>3, <3>2
    <3>3. CASE a[1] = a[2] /\ a[2] > 0
      <4>1. Lapped(a[2] - 1)
        BY <1>1, <2>2, <2>3, <3>3
      <4> QED
        BY <1>1, <2>2, <2>3, <3>3, <4>1 DEF Lapped
    <3> QED
      BY <1>1, <2>2, <2>3, <3>1, <3>2, <3>3
  <2>6. TypeOK'
    BY <1>1, <2>3, <2>4 DEF IInv, TypeOK, wc
  <2>7. CursorInv' /\ InOrder' /\ NoReplay'
    BY <1>1, <2>3, <2>4, <2>5 DEF IInv, CursorInv, InOrder, NoReplay, wc
  <2>8. NothingSkipped'
    BY <1>1, <2>3, <2>4 DEF NothingSkipped
  <2> QED
    BY <2>6, <2>7, <2>8 DEF IInv
<1> QED
  BY <1>2, <1>3

\* A drain hands out what lies between the cursor and the newest command.
LEMMA DrainStep == IInv /\ (DrainNew \/ ApplyCommands) => IInv'
<1> SUFFICES ASSUME IInv, DrainNew \/ ApplyCommands PROVE IInv'
  OBVIOUS
<1>1. wc \in Nat /\ Begun \in Nat /\ Capacity \in Nat \ {0}
  BY BegunFacts, ChannelAssumption DEF IInv
<1>2. CASE DrainNew
  BY <1>1, <1>2 DEF DrainNew, IInv, TypeOK, CursorInv, InOrder, NothingSkipped, NoReplay, brain,
     wc, Lapped, Begun
<1>3. CASE ApplyCommands
  <2>1. PICK a \in Answers(Capacity) :
          IF a[1] = a[2]
          THEN UNCHANGED <<mode, cursor, out>>
          ELSE /\ out' = out \o NewRows(a[1], a[2])
               /\ cursor' = a[2] - 1
               /\ mode' \in {mode, "stopped"}
    BY <1>3 DEF ApplyCommands
  <2>2. /\ rpc = "drain" /\ rpc' = "rest" /\ mode = "python"
        /\ UNCHANGED <<posted, posting, since, base, ready>>
        /\ wc' = wc /\ Begun' = Begun /\ \A i \in Int : Lapped(i)' = Lapped(i)
    BY <1>3 DEF ApplyCommands, IInv, CursorInv, brain, wc, Begun, Lapped
  <2>3. CASE a[1] = a[2]
    BY <1>1, <2>1, <2>2, <2>3
       DEF IInv, TypeOK, CursorInv, InOrder, NothingSkipped, NoReplay
  <2>4. CASE a[1] # a[2]
    <3>1. /\ out' \in Seq(0 .. wc - 1) /\ cursor' \in cursor .. wc - 1 /\ cursor' = a[2] - 1
          /\ \A n \in DOMAIN out' : out'[n] <= cursor'
          /\ \A n \in DOMAIN out' : (n \in DOMAIN out /\ out'[n] = out[n]) \/ out'[n] > cursor
          /\ \A n \in DOMAIN out : n \in DOMAIN out' /\ out'[n] = out[n]
          /\ \A m, n \in DOMAIN out' : m < n => out'[m] < out'[n]
          /\ \A i \in cursor + 1 .. cursor' : Lapped(i) \/ \E n \in DOMAIN out' : out'[n] = i
      <4>1. out' = out \o NewRows(a[1], a[2]) /\ cursor' = a[2] - 1
        BY <2>1, <2>4
      <4> QED
        BY <2>2, <2>4, <4>1, DrainFacts, Zenon DEF IInv
    <3>2. cursor \in -1 .. wc - 1 /\ base \in 0 .. wc /\ ready \in 0 .. wc
      BY DEF IInv, TypeOK
    <3>3. TypeOK'
      BY <1>1, <2>1, <2>2, <2>4, <3>1, <3>2 DEF IInv, TypeOK
    <3>4. CursorInv'
      BY <1>1, <2>1, <2>2, <2>4, <3>1, <3>2 DEF IInv, CursorInv
    <3>5. InOrder'
      BY <3>1 DEF InOrder
    <3>6. NothingSkipped'
      <4> SUFFICES ASSUME NEW i \in ready .. cursor', mode' = "python"
                   PROVE  Lapped(i) \/ \E n \in DOMAIN out' : out'[n] = i
        BY <2>1, <2>2, <2>4 DEF NothingSkipped
      <4>1. CASE i > cursor
        BY <1>1, <3>1, <3>2, <4>1
      <4>2. CASE i <= cursor
        <5>1. Lapped(i) \/ \E n \in DOMAIN out : out[n] = i
          BY <1>1, <2>2, <3>1, <3>2, <4>2 DEF IInv, NothingSkipped
        <5> QED
          BY <3>1, <5>1
      <4> QED
        BY <1>1, <3>1, <3>2, <4>1, <4>2
    <3>7. NoReplay'
      <4> SUFFICES ASSUME NEW n \in DOMAIN out'
                   PROVE  out'[n] >= base \/ ready >= base + Capacity - 1
        BY <2>2 DEF NoReplay
      <4>1. CASE n \in DOMAIN out /\ out'[n] = out[n]
        BY <2>2, <4>1 DEF IInv, NoReplay
      <4>2. CASE out'[n] > cursor
        <5>1. out'[n] \in Int
          <6>1. out' \in Seq(0 .. wc - 1)
            BY <3>1
          <6>2. out'[n] \in 0 .. wc - 1
            BY <6>1, ElementOfSeq, LenProperties
          <6> QED
            BY <1>1, <6>2
        <5>2. cursor >= base - 1 \/ ready >= base + Capacity - 1
          BY <2>2 DEF IInv, CursorInv
        <5> QED
          BY <1>1, <3>2, <4>2, <5>1, <5>2
      <4> QED
        BY <3>1, <4>1, <4>2
    <3> QED
      BY <3>3, <3>4, <3>5, <3>6, <3>7 DEF IInv
  <2> QED
    BY <2>3, <2>4
<1> QED
  BY <1>2, <1>3

\* The native controller's cursor skips only lapped commands and stays on one it
\* could not read.
LEMMA NativeStep == IInv /\ (Handoff \/ LoadCount \/ ReadNext \/ ScanDone) => IInv'
<1> SUFFICES ASSUME IInv, Handoff \/ LoadCount \/ ReadNext \/ ScanDone PROVE IInv'
  OBVIOUS
<1>1. /\ wc \in Nat /\ Begun \in Nat /\ Begun >= wc /\ Capacity \in Nat \ {0}
      /\ cursor \in -1 .. wc - 1 /\ since \in 0 .. wc
  BY BegunFacts, ChannelAssumption DEF IInv, TypeOK
<1>2. /\ UNCHANGED <<posted, posting, base, ready>>
      /\ wc' = wc /\ Begun' = Begun /\ \A i \in Int : Lapped(i)' = Lapped(i)
  BY DEF Handoff, LoadCount, ReadNext, ScanDone, brain, wc, Begun, Lapped
<1>3. CASE Handoff
  BY <1>1, <1>2, <1>3
     DEF Handoff, IInv, TypeOK, CursorInv, InOrder, NothingSkipped, NoReplay
<1>4. CASE LoadCount
  <2>1. /\ cursor' \in {cursor, wc - Capacity - 1}
        /\ cursor' >= cursor /\ cursor' >= wc - Capacity - 1
    <3>1. cursor \in Int /\ wc - Capacity - 1 \in Int
      BY <1>1
    <3> QED
      BY <1>4, <3>1, MaxOfTwo DEF LoadCount
  <2>2. cursor' \in cursor .. wc - 1 /\ \A i \in cursor + 1 .. cursor' : Lapped(i)
    BY <1>1, <2>1 DEF Lapped
  <2>3. mode = "native" /\ mode' = mode /\ rpc' = "scan" /\ since' = wc /\ out' = out
    BY <1>4 DEF LoadCount
  <2>4. TypeOK' /\ InOrder' /\ NoReplay'
    BY <1>1, <1>2, <2>2, <2>3 DEF IInv, TypeOK, InOrder, NoReplay
  <2>5. \A n \in DOMAIN out : out[n] \in Int /\ out[n] <= cursor
    BY <1>1 DEF IInv, TypeOK, CursorInv
  <2>6. CursorInv'
    BY <1>1, <1>2, <2>2, <2>3, <2>5 DEF IInv, CursorInv
  <2>7. NothingSkipped'
    BY <1>1, <1>2, <2>2, <2>3 DEF IInv, NothingSkipped, CursorInv
  <2> QED
    BY <2>4, <2>6, <2>7 DEF IInv
<1>5. CASE ReadNext
  <2>1. CASE Lapped(cursor + 1)
    BY <1>1, <1>2, <1>5, <2>1
       DEF ReadNext, IInv, TypeOK, CursorInv, InOrder, NothingSkipped, NoReplay
  <2>2. CASE ~Lapped(cursor + 1)
    <3>1. /\ mode = "native" /\ mode' \in {"native", "stopped"} /\ rpc' \in {"scan", "rest"}
          /\ mode' = "stopped" <=> rpc' = "rest"
          /\ cursor' = cursor + 1 /\ cursor' < since /\ since' = since
          /\ out' = Append(out, cursor + 1)
      BY <1>5, <2>2 DEF ReadNext, IInv, CursorInv
    <3>2. /\ out \in Seq(0 .. wc - 1) /\ cursor' \in 0 .. wc - 1 /\ Len(out) \in Nat
          /\ DOMAIN out = 1 .. Len(out)
      BY <1>1, <3>1 DEF IInv, TypeOK
    <3>3. /\ out' \in Seq(0 .. wc - 1) /\ DOMAIN out' = 1 .. Len(out) + 1
          /\ \A n \in 1 .. Len(out) : out'[n] = out[n]
          /\ out'[Len(out) + 1] = cursor'
      BY <3>1, <3>2, AppendProperties
    <3>4. \A n \in 1 .. Len(out) : out[n] \in Int /\ out[n] <= cursor
      BY <1>1, <3>2 DEF IInv, CursorInv
    <3>5. TypeOK'
      BY <1>1, <1>2, <3>1, <3>2, <3>3 DEF IInv, TypeOK
    <3>6. CursorInv'
      <4>1. \A n \in DOMAIN out' : out'[n] <= cursor'
        BY <1>1, <3>1, <3>2, <3>3, <3>4
      <4> QED
        BY <1>2, <3>1, <4>1 DEF IInv, CursorInv
    <3>7. InOrder'
      <4> SUFFICES ASSUME NEW m \in 1 .. Len(out) + 1, NEW n \in 1 .. Len(out) + 1, m < n
                   PROVE  out'[m] < out'[n]
        BY <3>3 DEF InOrder
      <4>1. CASE n <= Len(out)
        <5>1. m \in 1 .. Len(out) /\ n \in 1 .. Len(out)
          BY <3>2, <4>1
        <5> QED
          BY <3>2, <3>3, <5>1 DEF IInv, InOrder
      <4>2. CASE n = Len(out) + 1
        BY <1>1, <3>1, <3>2, <3>3, <3>4, <4>2
      <4> QED
        BY <3>2, <4>1, <4>2
    <3>8. NothingSkipped'
      <4> SUFFICES ASSUME NEW i \in 0 .. cursor'
                   PROVE  Lapped(i) \/ \E n \in 1 .. Len(out) + 1 : out'[n] = i
        BY <1>2, <3>1, <3>3 DEF NothingSkipped
      <4>1. CASE i = cursor'
        BY <3>2, <3>3, <4>1
      <4>2. CASE i \in 0 .. cursor
        <5>1. Lapped(i) \/ \E n \in DOMAIN out : out[n] = i
          BY <3>1, <4>2 DEF IInv, NothingSkipped, CursorInv
        <5> QED
          BY <3>2, <3>3, <5>1
      <4> QED
        BY <1>1, <3>1, <4>1, <4>2
    <3>9. NoReplay'
      BY <3>1 DEF NoReplay
    <3> QED
      BY <3>5, <3>6, <3>7, <3>8, <3>9 DEF IInv
  <2> QED
    BY <2>1, <2>2
<1>6. CASE ScanDone
  BY <1>1, <1>2, <1>6
     DEF ScanDone, IInv, TypeOK, CursorInv, InOrder, NothingSkipped, NoReplay
<1> QED
  BY <1>3, <1>4, <1>5, <1>6

----------------------------------------------------------------------------
(* The theorem. *)

\* Every step of the brain and of either consumer keeps the invariant.
THEOREM Inductive == Spec => []IInv
<1>1. IInv /\ [Next]_vars => IInv'
  <2>1. IInv /\ UNCHANGED vars => IInv'
    BY DEF vars, brain, IInv, TypeOK, CursorInv, InOrder, NothingSkipped, NoReplay, wc, Begun,
       Lapped
  <2> QED
    BY <2>1, BrainStep, BaselineStep, DrainStep, NativeStep DEF Next, Consume
<1> QED
  BY <1>1, InvInit, PTL DEF Spec

\* For every capacity and any number of commands, both consumers are handed every
\* command once and in order, pass over none that the brain did not lap, and the
\* Python one replays nothing from before it was created, short of the startup
\* race (CommandCursor.drain_new, StopCommandPending).
THEOREM ExactlyOnce == Spec => []CommandsExactlyOnce
<1>1. IInv => CommandsExactlyOnce
  BY DEF IInv, CommandsExactlyOnce
<1> QED
  BY <1>1, Inductive, PTL

----------------------------------------------------------------------------
(* The alerts of the Experiment controls.                                  *)

Outcomes == [boot : Nat, seq : Nat, kind : {"info", "error"}, phase : Phases \cup {"none"}]

PageCommands == [op : {"start", "switch", "stop", "shutdown"}, phase : Phases \cup {"none"}]

OperatorType ==
  /\ boot \in Nat \ {0} /\ seq \in Nat /\ seen \in Nat
  /\ outcome \in SUBSET Outcomes
  /\ history \in Seq(Outcomes)
  /\ surfaced \in Seq(Nat \X Nat)
  /\ phase \in Phases \cup {"none"}
  /\ next \in SUBSET (Phases \cup {"none"})
  /\ queue \in Seq(PageCommands)

\* There is one outcome at a time, of this daemon; a run that is active is newer.
OutcomeInv ==
  /\ \A o \in outcome : o.boot = boot /\ o.seq <= seq /\ (RunActive => o.seq < seq)
  /\ \A o, r \in outcome : o = r

\* What was surfaced, and what the history lists, has increasing numbers up to the
\* registry's newest one ...
SurfacedInv ==
  /\ \A i \in 1 .. Len(surfaced) : surfaced[i][2] <= seen
  /\ \A i, j \in 1 .. Len(surfaced) : i < j => surfaced[i][2] < surfaced[j][2]
  /\ \A i \in 1 .. Len(history) : history[i].seq <= seen
  /\ \A i, j \in 1 .. Len(history) : i < j => history[i].seq < history[j].seq

\* ... and that one is of a run of the first daemon, as long as there is no other.
FirstDaemonInv ==
  boot = 1 =>
    /\ seen <= seq /\ (RunActive => seen < seq)
    /\ \A o \in outcome : o.seq > seen \/ \E i \in 1 .. Len(surfaced) : surfaced[i] = <<1, o.seq>>

AlertInv == OperatorType /\ OutcomeInv /\ SurfacedInv /\ FirstDaemonInv

\* No alert was shown and no run ended before the first daemon is up.
LEMMA AlertInit == OperatorInit => AlertInv
BY DEF OperatorInit, AlertInv, OperatorType, Outcomes, OutcomeInv, SurfacedInv,
       FirstDaemonInv, RunActive, Phases

\* What a step of the daemon does to its numbers and its outcome.
LEMMA DaemonStep ==
  ASSUME AlertInv, UNCHANGED pageVars, OperatorType', OutcomeInv',
         boot' = 1 => boot = 1 /\ seq <= seq' /\ (RunActive' => RunActive \/ seq < seq'),
         \A o \in outcome' : o \in outcome \/ (RunActive /\ o.seq = seq)
  PROVE  AlertInv'
<1>1. SurfacedInv'
  BY DEF AlertInv, SurfacedInv, pageVars
<1>2. boot' = 1 => seen' <= seq' /\ (RunActive' => seen' < seq')
  BY DEF AlertInv, OperatorType, FirstDaemonInv, pageVars
<1>3. ASSUME boot' = 1, NEW o \in outcome', ~(o.seq > seen')
      PROVE  \E i \in 1 .. Len(surfaced') : surfaced'[i] = <<1, o.seq>>
  <2>1. seen' = seen /\ surfaced' = surfaced /\ boot = 1
    BY <1>3 DEF pageVars
  <2>2. o \in outcome
    BY <1>3, <2>1 DEF AlertInv, FirstDaemonInv, OperatorType
  <2> QED
    BY <1>3, <2>1, <2>2 DEF AlertInv, FirstDaemonInv
<1> QED
  BY <1>1, <1>2, <1>3 DEF AlertInv, FirstDaemonInv

\* A step that leaves the daemon and what was surfaced alone keeps the invariant.
LEMMA PageStep ==
  ASSUME AlertInv, UNCHANGED <<boot, state, phase, seq, outcome, next>>, UNCHANGED <<seen, surfaced>>,
         OperatorType', history' \in {history, <<>>}
  PROVE  AlertInv'
<1>1. OutcomeInv' /\ FirstDaemonInv'
  BY DEF AlertInv, OutcomeInv, FirstDaemonInv, RunActive
<1>2. CASE history' = history
  BY <1>1, <1>2 DEF AlertInv, SurfacedInv
<1>3. CASE history' = <<>>
  <2>1. Len(history') = 0
    BY <1>3
  <2> QED
    BY <1>1, <2>1 DEF AlertInv, SurfacedInv
<1> QED
  BY <1>2, <1>3

\* Every step of the controls keeps the alerts' invariant.
LEMMA AlertStep == AlertInv /\ [OperatorNext]_operatorVars => AlertInv'
<1> SUFFICES ASSUME AlertInv, [OperatorNext]_operatorVars PROVE AlertInv'
  OBVIOUS
<1> USE DEF operatorVars, daemonVars, pageVars
<1>1. CASE DaemonReady
  <2>1. OperatorType' /\ OutcomeInv'
    BY <1>1 DEF DaemonReady, AlertInv, OperatorType, OutcomeInv, RunActive, Phases
  <2> QED
    BY <1>1, <2>1, DaemonStep DEF DaemonReady, RunActive, Phases, AlertInv, OperatorType
<1>2. ASSUME NEW p \in Phases \cup {"none"}, Starts(p), ~RunActive,
             next' \in {{}, next}, UNCHANGED <<boot, outcome, pageVars>>,
             queue' \in Seq(PageCommands)
      PROVE  AlertInv'
  <2>1. /\ seq' \in Nat /\ phase' \in Phases \cup {"none"} /\ next' \in {{}, next}
        /\ (seq' = seq + 1 \/ (seq' = seq /\ state' = state))
    BY <1>2 DEF Starts, AlertInv, OperatorType
  <2>2. OperatorType'
    BY <1>2, <2>1 DEF AlertInv, OperatorType
  <2>3. OutcomeInv'
    BY <1>2, <2>1 DEF AlertInv, OperatorType, Outcomes, OutcomeInv, RunActive
  <2> QED
    BY <1>2, <2>1, <2>2, <2>3, DaemonStep DEF RunActive, AlertInv, OperatorType
<1>3. CASE DaemonHandles
  <2> DEFINE c == Head(queue)
  <2>1. c \in PageCommands /\ queue' \in Seq(PageCommands) /\ UNCHANGED <<boot, outcome, pageVars>>
    BY <1>3 DEF DaemonHandles, AlertInv, OperatorType
  <2>a. c.phase \in Phases \cup {"none"}
    BY <2>1 DEF PageCommands
  <2>2. CASE c.op \in {"start", "switch"} /\ ~RunActive /\ Starts(c.phase)
    <3>1. next' \in {{}, next}
      BY <2>2 DEF Starts
    <3> HIDE DEF c
    <3> QED
      BY <1>2, <2>1, <2>2, <2>a, <3>1
  <2>3. CASE /\ boot' = boot /\ seq' = seq /\ (RunActive' => RunActive)
             /\ phase' \in {phase, "none"} /\ next' \in {next, {}, {c.phase}}
    <3> HIDE DEF c
    <3>1. OperatorType'
      BY <2>1, <2>3, <2>a DEF AlertInv, OperatorType
    <3>2. OutcomeInv'
      BY <2>1, <2>3 DEF AlertInv, OutcomeInv
    <3> QED
      BY <2>1, <2>3, <3>1, <3>2, DaemonStep DEF AlertInv, OperatorType
  <2> QED
    BY <1>3, <2>2, <2>3 DEF DaemonHandles, RunActive, Phases
<1>4. CASE RunEnds
  <2>1. OperatorType' /\ OutcomeInv'
    BY <1>4 DEF RunEnds, AlertInv, OperatorType, OutcomeInv, Outcomes, RunActive, Phases
  <2> QED
    BY <1>4, <2>1, DaemonStep DEF RunEnds, RunActive, Phases, AlertInv, OperatorType
<1>5. CASE QueuedStart
  <2>1. ASSUME NEW p \in next, Starts(p), next' = {} PROVE AlertInv'
    BY <1>2, <1>5, <2>1 DEF QueuedStart, AlertInv, OperatorType
  <2>2. CASE next' = {} /\ UNCHANGED <<state, phase, seq>>
    <3>1. OperatorType' /\ OutcomeInv'
      BY <1>5, <2>2 DEF QueuedStart, AlertInv, OperatorType, OutcomeInv, RunActive
    <3> QED
      BY <1>5, <2>2, <3>1, DaemonStep DEF QueuedStart, RunActive, AlertInv, OperatorType
  <2> QED
    BY <1>5, <2>1, <2>2 DEF QueuedStart
<1>6. CASE DaemonDies
  <2>1. OperatorType' /\ OutcomeInv'
    BY <1>6 DEF DaemonDies, AlertInv, OperatorType, OutcomeInv, RunActive, Phases
  <2> QED
    BY <1>6, <2>1, DaemonStep DEF DaemonDies, RunActive, Phases, AlertInv, OperatorType
<1>7. CASE EnsureSession
  <2>1. OperatorType' /\ OutcomeInv'
    BY <1>7 DEF EnsureSession, AlertInv, OperatorType, OutcomeInv
  <2>2. boot' # 1
    BY <1>7 DEF EnsureSession, AlertInv, OperatorType
  <2> QED
    BY <1>7, <2>1, <2>2, DaemonStep DEF EnsureSession
<1>8. ASSUME NEW c, c \in PageCommands,
             Sends(c), UNCHANGED <<seen, stash, surfaced>>, history' \in {history, <<>>}
      PROVE  AlertInv'
  <2>1. queue' \in Seq(PageCommands)
    <3>1. queue \in Seq(PageCommands) /\ queue' = Append(queue, c)
      BY <1>8 DEF Sends, AlertInv, OperatorType
    <3> QED
      BY <1>8, <3>1
  <2>a. history' \in Seq(Outcomes)
    <3>1. history \in Seq(Outcomes) /\ <<>> \in Seq(Outcomes)
      BY DEF AlertInv, OperatorType
    <3> QED
      BY <1>8, <3>1
  <2>2. OperatorType'
    BY <1>8, <2>1, <2>a DEF Sends, AlertInv, OperatorType
  <2> QED
    BY <1>8, <2>2, PageStep DEF Sends
<1>9. ASSUME NEW p \in {"collection", "eval"}, Launch(p) PROVE AlertInv'
  BY <1>8, <1>9 DEF Launch, RegistryLaunch, Phases, PageCommands
<1>10. CASE LaunchSkill
  BY <1>8, <1>10 DEF LaunchSkill, RegistryLaunchSkill, Phases, PageCommands
<1>11. CASE StopActive
  BY <1>8, <1>11 DEF StopActive, PageCommands
<1>12. CASE ResetServices
  BY <1>8, <1>12 DEF ResetServices, PageCommands
<1>13. ASSUME NEW t \in Operators, PollStatus(t) PROVE AlertInv'
  <2>1. PICK o \in outcome : TakeAlert(o) /\ surfaced' = Append(surfaced, <<o.boot, o.seq>>)
    BY <1>13 DEF PollStatus
  <2>2. /\ o \in Outcomes /\ o.boot = boot /\ o.seq > seen /\ seen' = o.seq
        /\ history' = Append(history, o) /\ UNCHANGED daemonVars
    BY <1>13, <2>1 DEF PollStatus, TakeAlert, Remembers, AlertInv, OperatorType, OutcomeInv
  <2>3. OperatorType'
    BY <2>1, <2>2 DEF AlertInv, OperatorType, Outcomes
  <2>4. OutcomeInv'
    BY <2>2 DEF AlertInv, OutcomeInv, RunActive
  <2> DEFINE n == Len(surfaced)
             m == Len(history)
  <2>5. /\ n \in Nat /\ Len(surfaced') = n + 1 /\ surfaced'[n + 1] = <<boot, o.seq>>
        /\ \A i \in 1 .. n : surfaced'[i] = surfaced[i] /\ surfaced[i] \in Nat \X Nat
    BY <2>1, <2>2 DEF AlertInv, OperatorType, Outcomes
  <2>6. /\ m \in Nat /\ Len(history') = m + 1 /\ history'[m + 1] = o
        /\ \A i \in 1 .. m : history'[i] = history[i] /\ history[i] \in Outcomes
    BY <2>2 DEF AlertInv, OperatorType
  <2>7. /\ seen \in Nat /\ seq \in Nat /\ o.seq \in Nat /\ boot \in Nat
        /\ \A i \in 1 .. n : surfaced[i][2] \in Nat
        /\ \A i \in 1 .. m : history[i].seq \in Nat
    BY <2>2, <2>5, <2>6 DEF AlertInv, OperatorType, Outcomes
  <2>8. SurfacedInv'
    <3>1. /\ \A i \in 1 .. n + 1 : surfaced'[i][2] <= seen'
          /\ \A i, j \in 1 .. n + 1 : i < j => surfaced'[i][2] < surfaced'[j][2]
      <4>1. \A i \in 1 .. n : surfaced'[i][2] \in Nat /\ surfaced'[i][2] <= seen
        BY <2>5, <2>7 DEF AlertInv, SurfacedInv
      <4>2. \A i, j \in 1 .. n : i < j => surfaced'[i][2] < surfaced'[j][2]
        BY <2>5 DEF AlertInv, SurfacedInv
      <4>3. surfaced'[n + 1][2] = o.seq
        BY <2>5
      <4>4. n \in Nat /\ seen \in Nat /\ seen' \in Nat /\ seen' = o.seq /\ seen < seen'
        BY <2>2, <2>5, <2>7
      <4> HIDE DEF n
      <4> QED
        BY <4>1, <4>2, <4>3, <4>4
    <3>2. /\ \A i \in 1 .. m + 1 : history'[i].seq <= seen'
          /\ \A i, j \in 1 .. m + 1 : i < j => history'[i].seq < history'[j].seq
      <4>1. \A i \in 1 .. m : history'[i].seq \in Nat /\ history'[i].seq <= seen
        BY <2>6, <2>7 DEF AlertInv, SurfacedInv
      <4>2. \A i, j \in 1 .. m : i < j => history'[i].seq < history'[j].seq
        BY <2>6 DEF AlertInv, SurfacedInv
      <4>3. history'[m + 1].seq = o.seq
        BY <2>6
      <4>4. m \in Nat /\ seen \in Nat /\ seen' \in Nat /\ seen' = o.seq /\ seen < seen'
        BY <2>2, <2>6, <2>7
      <4> HIDE DEF m
      <4> QED
        BY <4>1, <4>2, <4>3, <4>4
    <3> HIDE DEF n, m
    <3> QED
      BY <2>5, <2>6, <3>1, <3>2, SMTT(30) DEF SurfacedInv
  <2>9. FirstDaemonInv'
    <3>1. ASSUME boot = 1 PROVE seen' <= seq' /\ (RunActive' => seen' < seq')
      BY <2>2, <2>7, <3>1 DEF AlertInv, OutcomeInv, RunActive, daemonVars
    <3>2. ASSUME boot = 1, NEW r \in outcome'
          PROVE  \E i \in 1 .. Len(surfaced') : surfaced'[i] = <<1, r.seq>>
      <4>1. r = o
        BY <2>2, <3>2 DEF AlertInv, OutcomeInv, daemonVars
      <4> QED
        BY <2>5, <3>2, <4>1
    <3> QED
      BY <2>2, <3>1, <3>2 DEF FirstDaemonInv, daemonVars
  <2> QED
    BY <2>3, <2>4, <2>8, <2>9 DEF AlertInv
<1>14. ASSUME NEW t \in Operators, ShowAlert(t) \/ Dismiss(t) PROVE AlertInv'
  <2>1. OperatorType'
    BY <1>14 DEF ShowAlert, Dismiss, AlertInv, OperatorType
  <2> QED
    BY <1>14, <2>1, PageStep DEF ShowAlert, Dismiss
<1>15. CASE UNCHANGED operatorVars
  <2>1. OperatorType'
    BY <1>15 DEF AlertInv, OperatorType
  <2> QED
    BY <1>15, <2>1, PageStep
<1> QED
  BY <1>1, <1>3, <1>4, <1>5, <1>6, <1>7, <1>9, <1>10, <1>11, <1>12, <1>13, <1>14, <1>15
     DEF OperatorNext

\* Increasing numbers are distinct, and the numbers of one daemon name its runs.
LEMMA AlertsFollow == AlertInv => AlertsOnce
<1> SUFFICES ASSUME AlertInv PROVE AlertsOnce
  OBVIOUS
<1>1. DOMAIN surfaced = 1 .. Len(surfaced) /\ DOMAIN history = 1 .. Len(history)
  BY DEF AlertInv, OperatorType
<1>2. \A i, j \in DOMAIN surfaced : i < j => surfaced[i] # surfaced[j]
  <2> SUFFICES ASSUME NEW i \in 1 .. Len(surfaced), NEW j \in 1 .. Len(surfaced), i < j
               PROVE  surfaced[i] # surfaced[j]
    BY <1>1
  <2>1. surfaced[i][2] < surfaced[j][2]
    BY DEF AlertInv, SurfacedInv
  <2>2. surfaced[i][2] \in Nat /\ surfaced[j][2] \in Nat
    BY SMTT(30) DEF AlertInv, OperatorType
  <2> QED
    BY <2>1, <2>2
<1>3. \A i, j \in DOMAIN history : i < j => history[i].seq < history[j].seq
  BY <1>1 DEF AlertInv, SurfacedInv
<1>4. boot = 1 => \A o \in outcome : <<1, o.seq>> \in Range(surfaced) \/ o.seq > seen
  BY <1>1 DEF AlertInv, FirstDaemonInv, Range
<1> QED
  BY <1>2, <1>3, <1>4 DEF AlertsOnce

\* AlertsOnce for any number of tabs, daemons and runs: take_alert surfaces no
\* outcome twice, the history keeps the order of the runs, and no outcome of the
\* first daemon is passed over.
THEOREM AlertsOnceTheorem == OperatorSpec => []AlertsOnce
BY AlertInit, AlertStep, AlertsFollow, PTL DEF OperatorSpec

=============================================================================
