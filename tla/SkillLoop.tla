----------------------------- MODULE SkillLoop -----------------------------
(***************************************************************************)
(* SkillNode past its streams: post the first frame until every driven arm *)
(* measures close to it, then step through the frames on the wall clock.   *)
(* A pass may be late by any amount up to MaxLate, and skips ahead then.   *)
(***************************************************************************)
EXTENDS RunConsumer

CONSTANTS NumFrames,     \* frames of the skill
          Fps,           \* frames per second of the replay
          Unit,          \* units of the clock per second
          Settle,        \* settle_s, in units
          MaxLate        \* the longest time between two passes, in units

ASSUME SkillAssumption ==
  /\ NumFrames \in Nat \ {0} /\ Fps \in Nat \ {0} /\ Unit \in Nat \ {0}
  /\ Settle \in Nat /\ MaxLate \in Nat \ {0}

VARIABLES
  kpc,       \* "out", "converge", "replay", "over"
  clock,     \* elapsed, at the pass to come
  pos        \* the frame posted last, or NoFrame

replay == <<kpc, clock, pos>>
NoFrame == -1

SkillInit == kpc = "out" /\ clock = 0 /\ pos = NoFrame
SkillGone == kpc' = "out" /\ clock' = 0 /\ pos' = NoFrame

\* Mutant: the replay is over one frame early.
OverEarly(t) == t * Fps >= (NumFrames - 2) * Unit

\* end_t.
Over(t) == t * Fps >= (NumFrames - 1) * Unit + Settle * Fps

\* The frame of a pass: int(elapsed * fps), held at the last.
Index(t) == IF (t * Fps) \div Unit < NumFrames THEN (t * Fps) \div Unit ELSE NumFrames - 1

\* The clock is not followed beyond the first unit at which the replay is over.
ClockBound == ((NumFrames - 1) * Unit + Settle * Fps + Fps - 1) \div Fps

SkillTypeOK ==
  /\ kpc \in {"out", "converge", "replay", "over"}
  /\ clock \in 0 .. ClockBound + MaxLate
  /\ pos \in -1 .. NumFrames - 1

\* The first frame again; far: an arm measures too far from it, or nothing.
ConvergePass(far) ==
  /\ con = "serve" /\ kpc = "converge" /\ ~stopping
  /\ PostSetpoint(sides) /\ pos' = 0
  /\ IF far THEN UNCHANGED <<kpc, clock>> ELSE kpc' = "replay" /\ clock' \in 0 .. MaxLate

\* One pass of the replay.
ReplayPass ==
  /\ con = "serve" /\ kpc = "replay" /\ ~stopping
  /\ PostSetpoint(sides) /\ pos' = Index(clock)
  /\ IF Over(clock)
     THEN kpc' = "over" /\ UNCHANGED clock
     ELSE /\ \E late \in 1 .. MaxLate : clock' = clock + late
          /\ UNCHANGED kpc

\* Finished, or stopped in either stage.
SkillEnds ==
  /\ kpc = "over" \/ (kpc \in {"converge", "replay"} /\ stopping)
  /\ EndLoop
  /\ UNCHANGED replay

\* start_timeout_s passed with an arm still far: RuntimeError.
StartTimesOut == kpc = "converge" /\ pos = 0 /\ EndLoop /\ UNCHANGED replay

SkillStep == (\E far \in BOOLEAN : ConvergePass(far)) \/ ReplayPass \/ SkillEnds
SkillEvent == StartTimesOut

=============================================================================
