---------------------------- MODULE AtomicStream ----------------------------
(***************************************************************************)
(* What a stream promises its readers, with no ring in sight: the producer *)
(* publishes sample 0, 1, 2, ... and a read answers, in one step, with a   *)
(* gap-free run of whole samples that ends at the newest sample of some    *)
(* moment between its call and its return (or with nothing).               *)
(***************************************************************************)
EXTENDS Integers

CONSTANTS Readers, Fields

VARIABLES count,     \* samples published
          pending,   \* the readers with a call in progress
          since,     \* the count when the reader's last call began
          res        \* the answer to the reader's last finished call

avars == <<count, pending, since, res>>

NoRows == [rows |-> [i \in {} |-> -1], overrun |-> FALSE]
\* The indices I are a gap-free run ending at hi - 1.
RunTo(I, hi) == hi - 1 \in I /\ \A i \in I : i .. hi - 1 \subseteq I
\* The samples I, each word the one its append stored.
Whole(I, over) == [rows |-> [i \in I |-> [f \in Fields |-> i]], overrun |-> over]

AInit ==
  /\ count = 0
  /\ pending = {}
  /\ since = [r \in Readers |-> 0]
  /\ res = [r \in Readers |-> NoRows]

Publish ==
  /\ count' = count + 1
  /\ UNCHANGED <<pending, since, res>>

Begin(r) ==
  /\ r \notin pending
  /\ pending' = pending \cup {r}
  /\ since' = [since EXCEPT ![r] = count]
  /\ UNCHANGED <<count, res>>

Answer(r) ==
  /\ r \in pending
  /\ pending' = pending \ {r}
  /\ \/ res' = [res EXCEPT ![r] = NoRows]
     \/ \E hi \in since[r] .. count : \E I \in SUBSET (0 .. hi - 1), over \in BOOLEAN :
          /\ RunTo(I, hi)
          /\ res' = [res EXCEPT ![r] = Whole(I, over)]
  /\ UNCHANGED <<count, since>>

ANext == Publish \/ \E r \in Readers : Begin(r) \/ Answer(r)
ASpec == AInit /\ [][ANext]_avars

=============================================================================
