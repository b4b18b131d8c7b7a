--------------------------- MODULE CommandChannel ---------------------------
(***************************************************************************)
(* The discrete command channel from the brain to one arm: a ring the      *)
(* brain appends to and the arm consumes in order.  The arm node reads it  *)
(* with a CommandCursor (control/channel.py); with the native controller   *)
(* it then hands over to StopCommandPending (native main.cpp), which keeps *)
(* a cursor of its own.                                                    *)
(*                                                                         *)
(* The ring is used through what SeqlockRing guarantees: a read answers    *)
(* with a gap-free run ending at the newest command of some moment inside  *)
(* the call, and a command is missing from its window only when the brain  *)
(* has begun more than Capacity appends after it.                          *)
(***************************************************************************)
EXTENDS Integers, Sequences, FiniteSetsExt

CONSTANTS Capacity,      \* command_capacity
          MaxPosts       \* bound on the commands posted

ASSUME ChannelAssumption == Capacity \in Nat \ {0} /\ MaxPosts \in Nat

Kinds == {"STOP", "OTHER"}

VARIABLES
  posted,    \* the kinds of the commands posted; command i is posted[i + 1]
  posting,   \* the kind of the append in progress, or "NONE"
  mode,      \* who consumes: "detached", "python", "native", "stopped"
  rpc,       \* the consumer's call: "rest", "baseline", "drain", "scan"
  since,     \* commands posted when the call began (the count the scan loaded)
  cursor,    \* _last_seq of CommandCursor; one less than the native cursor
  out,       \* history: the commands the consumer was given, in order
  base,      \* history: commands posted before the CommandCursor was created
  ready      \* history: commands posted by the time it was

brain == <<posted, posting>>
vars == <<brain, mode, rpc, since, cursor, out, base, ready>>

wc == Len(posted)
Begun == IF posting = "NONE" THEN wc ELSE wc + 1
\* Command i may be gone from the ring.
Lapped(i) == Begun > i + Capacity
IsStop(i) == posted[i + 1] = "STOP"

Init ==
  /\ posted = <<>> /\ posting = "NONE"
  /\ mode = "detached" /\ rpc = "rest" /\ since = 0 /\ cursor = -1
  /\ out = <<>> /\ base = 0 /\ ready = 0

----------------------------------------------------------------------------
(* The brain *)

\* send_command, stop_arms: the append invalidates the slot it recycles ...
BeginPost(k) ==
  /\ posting = "NONE" /\ wc < MaxPosts
  /\ posting' = k
  /\ UNCHANGED <<posted, mode, rpc, since, cursor, out, base, ready>>

\* ... and publishes the command.
EndPost ==
  /\ posting # "NONE"
  /\ posted' = Append(posted, posting) /\ posting' = "NONE"
  /\ UNCHANGED <<mode, rpc, since, cursor, out, base, ready>>

----------------------------------------------------------------------------
(* CommandCursor *)

\* The window of last(k), at the count hi, begins here.
WindowStart(k, hi) == Max({0, hi - k, hi - Capacity})

\* What last(k) may answer: the commands a[1] .. a[2] - 1 (none when they are
\* equal).
Answers(k) ==
  {a \in (0 .. wc) \X (since .. wc) :
     /\ WindowStart(k, a[2]) <= a[1] /\ a[1] <= a[2]
     /\ a[1] > WindowStart(k, a[2]) => Lapped(a[1] - 1)}

\* __init__ calls latest() ...
Baseline ==
  /\ mode = "detached" /\ rpc = "rest"
  /\ mode' = "python" /\ rpc' = "baseline"
  /\ since' = wc /\ base' = wc
  /\ UNCHANGED <<brain, cursor, out, ready>>

\* ... and starts at the head, or at -1 when there is none.
SetBaseline ==
  /\ rpc = "baseline" /\ rpc' = "rest"
  /\ \E a \in Answers(1) : cursor' = IF a[1] = a[2] THEN -1 ELSE a[2] - 1
  /\ ready' = wc
  /\ UNCHANGED <<brain, mode, since, out, base>>

DrainNew ==
  /\ mode = "python" /\ rpc = "rest"
  /\ rpc' = "drain" /\ since' = wc
  /\ UNCHANGED <<brain, mode, cursor, out, base, ready>>

\* Mutant: the row right after the cursor is left out.
RowsAfterNext(lo, hi) ==
  LET from == Max({lo, cursor + 2}) IN [n \in 1 .. hi - from |-> from + n - 1]
\* The rows of a batch with seq > cursor.
NewRows(lo, hi) ==
  LET from == Max({lo, cursor + 1}) IN [n \in 1 .. hi - from |-> from + n - 1]

\* Mutant: only the newest new command is looked at.
NewestIsStop(rows) == rows # <<>> /\ IsStop(rows[Len(rows)])
\* _drain_commands: a STOP among the rows ends the session.
HasStop(rows) == \E n \in DOMAIN rows : IsStop(rows[n])

\* drain_new returns, and _drain_commands acts on the rows.
ApplyCommands ==
  /\ rpc = "drain" /\ rpc' = "rest"
  /\ \E a \in Answers(Capacity) :
       IF a[1] = a[2]
       THEN UNCHANGED <<mode, cursor, out>>
       ELSE LET rows == NewRows(a[1], a[2]) IN
            /\ out' = out \o rows
            /\ cursor' = a[2] - 1
            /\ mode' = IF HasStop(rows) THEN "stopped" ELSE mode
  /\ UNCHANGED <<brain, since, base, ready>>

----------------------------------------------------------------------------
(* StopCommandPending *)

\* The arm node starts the native controller and waits for it; its cursor
\* starts at 0.
Handoff ==
  /\ mode = "python" /\ rpc = "rest"
  /\ mode' = "native" /\ cursor' = -1 /\ out' = <<>>
  /\ UNCHANGED <<brain, rpc, since, base, ready>>

\* Load the count; skip what the ring no longer holds.
LoadCount ==
  /\ mode = "native" /\ rpc = "rest"
  /\ rpc' = "scan" /\ since' = wc
  /\ cursor' = Max({cursor, wc - Capacity - 1})
  /\ UNCHANGED <<brain, mode, out, base, ready>>

\* Read the next command; a read that the brain overtook is retried by the next
\* call.
ReadNext ==
  /\ rpc = "scan" /\ cursor + 1 < since
  /\ IF Lapped(cursor + 1)
     THEN rpc' = "rest" /\ UNCHANGED <<mode, cursor, out>>
     ELSE /\ cursor' = cursor + 1 /\ out' = Append(out, cursor + 1)
          /\ IF IsStop(cursor + 1) THEN mode' = "stopped" /\ rpc' = "rest"
             ELSE UNCHANGED <<mode, rpc>>
  /\ UNCHANGED <<brain, since, base, ready>>

ScanDone ==
  /\ rpc = "scan" /\ cursor + 1 >= since
  /\ rpc' = "rest"
  /\ UNCHANGED <<brain, mode, since, cursor, out, base, ready>>

----------------------------------------------------------------------------

Brain == (\E k \in Kinds : BeginPost(k)) \/ EndPost
Consume == SetBaseline \/ DrainNew \/ ApplyCommands \/ LoadCount \/ ReadNext \/ ScanDone
Next == Brain \/ Baseline \/ Handoff \/ Consume

Spec == Init /\ [][Next]_vars
\* The control loop drains in every tick, and whoever began a call finishes it.
\* (A brain killed inside an append that laps the native cursor's oldest command
\* would make its reads fail for ever; the deadman ends that session.)
FairSpec == Spec /\ WF_vars(Consume) /\ WF_vars(EndPost)

----------------------------------------------------------------------------
(* Properties *)

\* The variables keep their types; the cursor never runs ahead of the ring.
TypeOK ==
  /\ posted \in Seq(Kinds) /\ wc <= MaxPosts
  /\ posting \in Kinds \cup {"NONE"}
  /\ mode \in {"detached", "python", "native", "stopped"}
  /\ rpc \in {"rest", "baseline", "drain", "scan"}
  /\ since \in 0 .. wc /\ base \in 0 .. wc /\ ready \in 0 .. wc
  /\ cursor \in -1 .. wc - 1
  /\ out \in Seq(0 .. wc - 1)

\* Commands reach the loop in the order they were posted and none of them
\* twice, over any number of drains of overlapping windows (drain_new "Return
\* every command row with seq > cursor, oldest -> newest"; the native cursor).
InOrder == \A m, n \in DOMAIN out : m < n => out[m] < out[n]

\* The cursor passes a command it did not hand out only when the brain lapped
\* it: an overtaken read of either consumer loses nothing that is still there.
NothingSkipped ==
  \A i \in (IF mode = "python" THEN ready ELSE 0) .. cursor :
    rpc # "baseline" /\ mode # "stopped" =>
      Lapped(i) \/ \E n \in DOMAIN out : out[n] = i

\* The cursor replays nothing posted before it was created, unless a whole ring
\* of commands was posted while it was being created (the startup race).
NoReplay ==
  mode = "python" => \A n \in DOMAIN out : out[n] >= base \/ ready >= base + Capacity - 1

\* Whatever the brain posts while either consumer is reading, every command is
\* handed out once and in order, none is passed over and none is replayed
\* (CommandCursor, StopCommandPending).
CommandsExactlyOnce == TypeOK /\ InOrder /\ NothingSkipped /\ NoReplay

\* A STOP posted after the arm began to listen ends the session, unless the
\* brain itself laps it; the native controller also obeys one posted before.
StopObeyed ==
  \A i \in 0 .. MaxPosts - 1 :
    (/\ (mode = "python" /\ rpc # "baseline" /\ i >= ready) \/ mode = "native"
     /\ i < wc /\ IsStop(i))
      ~> (mode = "stopped" \/ Lapped(i))

=============================================================================
