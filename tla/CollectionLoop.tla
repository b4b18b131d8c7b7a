--------------------------- MODULE CollectionLoop ---------------------------
(***************************************************************************)
(* CollectionNode past its channels: the LeRobot recorder is built over    *)
(* whatever dataset is on disk, then each tick reads the leaders, commands *)
(* the arms and records one frame, and the operator's keys end, discard or *)
(* stop; without a terminal the run is one episode, saved when it stops.   *)
(*                                                                         *)
(* A frame is its action and the take (attempt at an episode) it was made  *)
(* in; the dataset is what the recorder decides on: whether meta/info.json *)
(* can be read, whether tasks.parquet exists, the episodes and the schema. *)
(* LeRobot itself is external: save_episode rewrites info.json last, and   *)
(* may raise, or be killed with the process, at any point.                 *)
(***************************************************************************)
EXTENDS RunConsumer

CONSTANTS Arms,          \* every arm of the rig (record_sides)
          Leaders,       \* the arms with a FACTR leader (cfg.servers)
          Joint,         \* the control-enabled arms of kind qpos
          Poses,         \* what a leader may read
          Schemas,       \* feature specs of rigs
          NumEpisodes,   \* num_episodes
          MaxFrames,     \* bound on the frames of a take
          MaxKeys        \* bound on the keys pressed in a run

ASSUME CollectionAssumption == Joint \cup Leaders \subseteq Arms /\ Sides \subseteq Arms

VARIABLES
  cpc,       \* where the node is; "out" before the recorder and after the run
  paced,     \* _operator_paced
  schema,    \* the features this run records
  warm,      \* every subscribed stream holds a sample
  last,      \* _last_qd: the last real target of each arm, or Zero
  posted,    \* the newest setpoint of each arm this run posted, or Zero
  frame,     \* the action of the newest frame in the recorder's buffer
  buf,       \* the recorder's episode buffer: frames, and the takes they are of
  frames,    \* frames_in_ep
  take,      \* history: the takes begun in this run
  done,      \* episodes_done
  keys,      \* EpisodeControl._events
  batch,     \* the events of this pass still to be handled
  pressed,   \* history: keys pressed in this run
  disk       \* the dataset directory

Zero == 0
Nothing == [s \in Arms |-> Zero]
Empty == [n |-> 0, takes |-> {}]
Absent == [info |-> "none", tasks |-> FALSE, n |-> 0, feat |-> "none", of |-> {}]
KeyEvents == {"end", "discard", "stop"}

collection == <<cpc, paced, schema, warm, last, posted, frame, buf, frames, take, done,
          keys, batch, pressed>>

CollectionInit ==
  /\ cpc = "out" /\ paced = FALSE /\ schema = "none" /\ warm = FALSE
  /\ last = Nothing /\ posted = Nothing /\ frame = Nothing
  /\ buf = Empty /\ frames = 0 /\ take = 1 /\ done = 0
  /\ keys = <<>> /\ batch = <<>> /\ pressed = 0
  /\ disk = Absent

\* The process is gone, and what it had in memory with it.
CollectionGone ==
  /\ cpc' = "out" /\ paced' = FALSE /\ schema' = "none" /\ warm' = FALSE
  /\ last' = Nothing /\ posted' = Nothing /\ frame' = Nothing
  /\ buf' = Empty /\ frames' = 0 /\ take' = 1 /\ done' = 0
  /\ keys' = <<>> /\ batch' = <<>> /\ pressed' = 0

CollectionTypeOK ==
  /\ cpc \in {"out", "recorder", "create", "top", "events", "save", "write", "closed"}
  /\ paced \in BOOLEAN /\ warm \in BOOLEAN /\ schema \in Schemas \cup {"none"}
  /\ last \in [Arms -> Poses \cup {Zero}]
  /\ posted \in [Arms -> Poses \cup {Zero}]
  /\ frame \in [Arms -> Poses \cup {Zero}]
  /\ frames \in 0 .. MaxFrames /\ buf.n \in 0 .. MaxFrames
  /\ take \in 1 .. MaxKeys + 2 /\ buf.takes \subseteq 1 .. take
  /\ done \in 0 .. NumEpisodes /\ pressed \in 0 .. MaxKeys
  /\ keys \in Seq(KeyEvents) /\ batch \in Seq(KeyEvents)
  /\ disk.info \in {"none", "ok", "torn"} /\ disk.tasks \in BOOLEAN
  /\ disk.n \in 0 .. MaxRuns * NumEpisodes /\ disk.feat \in Schemas \cup {"none"}
  /\ disk.of \subseteq Schemas

----------------------------------------------------------------------------
(* LeRobotRecorder.__init__ *)

\* _resumable.
Resumable == disk.info = "ok" /\ disk.tasks /\ disk.n > 0

\* Mutant: resume disabled starts over.
MayRecreateAnyway(resume) == ~(resume /\ Resumable)

\* Not resumed: a complete dataset is refused, so what is cleared is not one.
MayRecreate(resume) == ~Resumable

\* _schema_mismatches finds nothing.
MayResume(resume, sc) == resume /\ Resumable /\ disk.feat = sc

\* Resume, or clear the leftover and create; the keyboard is opened next.
BuildRecorder(resume, sc, tty) ==
  /\ cpc = "recorder" /\ con = "serve"
  /\ \/ MayResume(resume, sc) /\ cpc' = "top" /\ UNCHANGED disk
     \/ MayRecreate(resume) /\ cpc' = "create" /\ disk' = Absent
  /\ schema' = sc /\ paced' = tty
  /\ UNCHANGED <<warm, last, posted, frame, buf, frames, take, done, keys, batch, pressed,
                 consumer, bus>>

CreateDataset ==
  /\ cpc = "create" /\ con = "serve"
  /\ disk' = [Absent EXCEPT !.info = "ok", !.feat = schema]
  /\ cpc' = "top"
  /\ UNCHANGED <<paced, schema, warm, last, posted, frame, buf, frames, take, done, keys,
                 batch, pressed, consumer, bus>>

\* RecorderUnavailable, or LeRobot raises: before the try, so the channels stay.
RecorderUnavailable ==
  /\ cpc \in {"recorder", "create"} /\ Crash
  /\ CollectionGone /\ UNCHANGED disk

----------------------------------------------------------------------------
(* CollectionLoop.run *)

Running == con = "serve" /\ cpc = "top" /\ ~stopping /\ done < NumEpisodes

\* Mutant: the held target is posted although a fresh one was read.
HeldTargets(real) ==
  [s \in Arms |-> IF s \in sides \cap Joint /\ last[s] # Zero THEN last[s] ELSE posted[s]]

\* The setpoints on the channels after a tick: only real targets are posted.
Targets(real) ==
  [s \in Arms |-> IF s \in sides \cap Joint /\ real[s] # Zero THEN real[s] ELSE posted[s]]

\* The recorder takes a frame.
Record(action) ==
  /\ frame' = action /\ frames' = frames + 1
  /\ buf' = [n |-> buf.n + 1, takes |-> buf.takes \cup {take}]

\* tick: the leaders that are fresh, the arms, the observation, the frame; then
\* the keys pressed so far are taken off the queue.
Tick(read) ==
  /\ Running /\ frames < MaxFrames
  /\ last' = [s \in Arms |-> IF s \in DOMAIN read THEN read[s] ELSE last[s]]
  /\ posted' = Targets(last')
  /\ PostSetpoint({s \in sides \cap Joint : last'[s] # Zero})
  /\ IF warm THEN Record(last') ELSE UNCHANGED <<frame, buf, frames>>
  /\ batch' = keys /\ keys' = <<>>
  /\ cpc' = IF keys = <<>> THEN "top" ELSE "events"
  /\ UNCHANGED <<paced, schema, warm, take, done, pressed, disk>>

\* What the loop does when it is through with the first event of the batch.
NextEvent == batch' = Tail(batch) /\ cpc' = IF Tail(batch) = <<>> THEN "top" ELSE "events"

\* discard_episode.
DropTake == frames' = 0 /\ take' = take + 1 /\ buf' = Empty /\ frame' = Nothing

Event ==
  /\ con = "serve" /\ cpc = "events"
  /\ \/ /\ Head(batch) = "end" /\ frames > 0
        /\ cpc' = "save"
        /\ UNCHANGED <<consumer, buf, frames, frame, take, batch>>
     \/ /\ Head(batch) = "end" /\ frames = 0
        /\ NextEvent /\ UNCHANGED <<consumer, buf, frames, frame, take>>
     \/ /\ Head(batch) = "discard"
        /\ DropTake /\ NextEvent /\ UNCHANGED consumer
     \/ /\ Head(batch) = "stop"
        /\ stopping' = TRUE
        /\ NextEvent
        /\ UNCHANGED <<con, runSeq, sides, watched, buf, frames, frame, take>>
  /\ UNCHANGED <<paced, schema, warm, last, posted, done, keys, pressed, disk, bus>>

----------------------------------------------------------------------------
(* _save and the finally of run *)

\* save_episode writes the data, and last of all meta/info.json.
BeginSave ==
  /\ cpc = "save" /\ con \in {"serve", "saving"}
  /\ disk' = [disk EXCEPT !.info = "torn", !.tasks = TRUE]
  /\ cpc' = "write"
  /\ UNCHANGED <<paced, schema, warm, last, posted, frame, buf, frames, take, done, keys,
                 batch, pressed, consumer, bus>>

\* The episode is on disk, the buffer is new, and the loop counts it.
EndSave ==
  /\ cpc = "write" /\ con \in {"serve", "saving"}
  /\ disk' = [disk EXCEPT !.info = "ok", !.n = @ + 1, !.of = @ \cup {schema}]
  /\ done' = done + 1
  /\ DropTake
  /\ IF con = "saving" THEN cpc' = "closed" /\ UNCHANGED batch ELSE NextEvent
  /\ UNCHANGED <<paced, schema, warm, last, posted, keys, pressed, consumer, bus>>

\* The finally: the fallback saves what it has, an operator's unended take goes.
Finally ==
  IF ~paced /\ frames > 0
  THEN cpc' = "save" /\ UNCHANGED <<buf, frames, frame, take>>
  ELSE /\ cpc' = "closed"
       /\ IF frames > 0 THEN DropTake ELSE UNCHANGED <<buf, frames, frame, take>>

\* The loop's condition fails, or a tick raises.
CollectionEnds ==
  /\ cpc = "top" /\ EndLoop /\ Finally
  /\ UNCHANGED <<paced, schema, warm, last, posted, done, keys, batch, pressed, disk>>

\* save_episode raises, in the loop (operator-paced: the finally drops the take)
\* or in the finally.
SaveRaises ==
  /\ cpc \in {"save", "write"}
  /\ \/ con = "serve" /\ EndLoop /\ cpc' = "closed" /\ DropTake
     \/ /\ con = "saving" /\ cpc' = "closed"
        /\ UNCHANGED <<buf, frames, frame, take, consumer, bus>>
  /\ \E i \in {"ok", "torn"} : disk' = [disk EXCEPT !.info = IF cpc = "write" THEN i ELSE @]
  /\ UNCHANGED <<paced, schema, warm, last, posted, done, keys, batch, pressed>>

----------------------------------------------------------------------------
(* The rest of the world *)

\* EpisodeControl._reader.
Press(k) ==
  /\ con = "serve" /\ paced /\ cpc \in {"top", "events", "save", "write"} /\ pressed < MaxKeys
  /\ keys' = Append(keys, k) /\ pressed' = pressed + 1
  /\ UNCHANGED <<cpc, paced, schema, warm, last, posted, frame, buf, frames, take, done,
                 batch, disk, consumer, bus>>

CollectionStep ==
  \/ \E resume, tty \in BOOLEAN, sc \in Schemas : BuildRecorder(resume, sc, tty)
  \/ CreateDataset
  \/ \E fresh \in SUBSET Leaders : \E read \in [fresh -> Poses] : Tick(read)
  \/ Event \/ BeginSave \/ EndSave
  \/ (stopping \/ done = NumEpisodes) /\ CollectionEnds

CollectionEvent ==
  \/ RecorderUnavailable \/ CollectionEnds \/ SaveRaises
  \/ \E k \in KeyEvents : Press(k)

=============================================================================
