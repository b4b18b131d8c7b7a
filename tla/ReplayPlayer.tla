---------------------------- MODULE ReplayPlayer ----------------------------
(***************************************************************************)
(* The episode replay server (ReplayView): Play starts a thread that moves *)
(* the slider frame by frame; loading another episode replaces the frames  *)
(* and the slider under it.  The threads take no lock around their check.  *)
(***************************************************************************)
EXTENDS Integers, FiniteSets

CONSTANTS
    Lengths,    \* the numbers of frames an episode can have
    MaxLoads,   \* bound: episodes loaded
    MaxPlayers  \* bound: player threads alive at once

ASSUME LengthsAreCounts == Lengths \subseteq Nat

VARIABLES
    frames,     \* number of frames loaded; 0 before the first episode
    generation,
    playing,
    slider,     \* the value of the current slider
    shown,      \* the frame posed in the scene, or -1
    players     \* the player threads: pc, their generation, the frame they read,
                \* and how often they moved the slider after their episode was replaced

replayVars == <<frames, generation, playing, slider, shown, players>>

NoPlayer == [pc |-> "none", gen |-> 0, index |-> 0, late |-> 0]
Threads == 1..MaxPlayers

ReplayInit ==
    /\ frames = 0 /\ generation = 0 /\ playing = FALSE /\ slider = 0 /\ shown = -1
    /\ players = [p \in Threads |-> NoPlayer]

\* ReplayView.show, clamped to the frames
Shows(index) ==
    shown' = IF frames = 0 THEN shown ELSE IF index > frames - 1 THEN frames - 1 ELSE index

\* log_episode and ReplayView.load
LoadEpisode(n) ==
    /\ generation < MaxLoads /\ generation' = generation + 1
    /\ playing' = FALSE /\ frames' = n /\ slider' = 0
    /\ shown' = IF n = 0 THEN -1 ELSE 0
    /\ UNCHANGED players

\* reset: a new server has a ReplayView of its own, and the old one stops playing.
\* The generation goes on, which bounds the loads.
ResetViewer ==
    /\ playing' = FALSE /\ frames' = 0 /\ slider' = 0 /\ shown' = -1
    /\ players' = [p \in Threads |-> NoPlayer]
    /\ UNCHANGED generation

\* The buttons and the slider are disabled for an episode without frames.
ClickPlay ==
    /\ frames > 0 /\ playing' = TRUE
    /\ \E p \in Threads: players[p].pc = "none"
            /\ players' = [players EXCEPT ![p] = [NoPlayer EXCEPT !.pc = "loop", !.gen = generation]]
    /\ UNCHANGED <<frames, generation, slider, shown>>

ClickPause ==
    /\ frames > 0 /\ playing' = FALSE
    /\ UNCHANGED <<frames, generation, slider, shown, players>>

Scrub(i) ==
    /\ i \in 0..(frames - 1) /\ slider' = i /\ Shows(i)
    /\ UNCHANGED <<frames, generation, playing, players>>

----------------------------------------------------------------------------
(* ReplayView._play                                                        *)

\* Mutant: the thread does not compare its generation.
WhilePlaying(p) == playing

Continues(p) == playing /\ players[p].gen = generation

\* The loop's test, the frame read, and the end of the episode.
PlayerLoops(p) ==
    /\ players[p].pc = "loop"
    /\ \/ ~(Continues(p) /\ frames > 0)
          /\ players' = [players EXCEPT ![p] = NoPlayer] /\ UNCHANGED playing
       \/ Continues(p) /\ frames > 0 /\ slider >= frames - 1
          /\ players' = [players EXCEPT ![p] = NoPlayer] /\ playing' = FALSE
       \/ Continues(p) /\ frames > 0 /\ slider < frames - 1
          /\ players' = [players EXCEPT ![p].pc = "sleep", ![p].index = slider] /\ UNCHANGED playing
    /\ UNCHANGED <<frames, generation, slider, shown>>

\* After the frame's delay the test is made again ...
PlayerWakes(p) ==
    /\ players[p].pc = "sleep"
    /\ players' = [players EXCEPT ![p].pc = IF Continues(p) THEN "move" ELSE "loop"]
    /\ UNCHANGED <<frames, generation, playing, slider, shown>>

\* ... and the slider, the one on the page now, is moved.
PlayerMoves(p) ==
    /\ players[p].pc = "move"
    /\ slider' = players[p].index + 1
    /\ Shows(players[p].index + 1)
    /\ players' = [players EXCEPT ![p].pc = "loop",
                                  ![p].late = IF @ < 2 /\ players[p].gen # generation THEN @ + 1 ELSE @]
    /\ UNCHANGED <<frames, generation, playing>>

ReplayNext ==
    \/ \E n \in Lengths: LoadEpisode(n)
    \/ ResetViewer \/ ClickPlay \/ ClickPause
    \/ \E i \in 0..(frames - 1): Scrub(i)
    \/ \E p \in Threads: PlayerLoops(p) \/ PlayerWakes(p) \/ PlayerMoves(p)

ReplaySpec == ReplayInit /\ [][ReplayNext]_replayVars

----------------------------------------------------------------------------
\* A thread whose episode was replaced moves the new one's slider at most once,
\* and the scene always poses a frame of the episode that is loaded: _play tests
\* playing and the generation without load's lock.
OldPlayerMovesOnce ==
    /\ \A p \in Threads: players[p].late <= 1
    /\ shown < frames

\* Stated by the bounds of the slider load creates: its value is a frame.
SliderInRange == frames > 0 => slider < frames

\* Playing goes forward.
PlaysForward == [][\A p \in Threads: PlayerMoves(p) => slider' >= slider]_replayVars
=============================================================================
