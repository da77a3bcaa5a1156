------------------------------ MODULE Recorder ------------------------------
(***************************************************************************)
(* Recording of one stream (src/process/record/mod.rs): start and stop     *)
(* against the table of active sessions, the task that writes segments,    *)
(* the index in memory and the index.json it is copied to.                 *)
(*                                                                         *)
(* A segment is one entry of the index.  Writing a segment's bytes, and    *)
(* flush_active_index_if_due, which writes what is there once more, are    *)
(* steps that may fail; any failure ends the task where it stands.         *)
(***************************************************************************)
EXTENDS Integers, FiniteSets

CONSTANTS
  Operators,       \* HTTP requests that start and stop recordings
  MaxRecordings,   \* bound of the model: sessions started
  MaxCuts          \* bound of the model: segments of a session, less one
ASSUME RecorderAssumption == {MaxRecordings, MaxCuts} \subseteq Nat

Recordings == 1 .. MaxRecordings
Segments == Recordings \X (0 .. MaxCuts)
Marks == {"absent", "recording", "empty", "completed"}

VARIABLES
  asks,      \* operator -> where its start is, and the session it makes
  active,    \* the session whose stop_tx the table has, or 0
  recorder,  \* session -> its task
  index,     \* segment -> its status in memory
  file,      \* segment -> its status in index.json
  crowded,   \* history: two starts at once, or two tasks at once
  started    \* sessions started
recVars == <<asks, active, recorder, index, file, crowded, started>>

Recorders ==
  [at : {"none", "opening", "waiting", "writing", "saving", "ended", "failed"},
   then : {"waiting", "next", "cut", "ended"},   \* what follows the write of index.json
   told : BOOLEAN,                               \* the value in the session's watch channel
   cut : 0 .. MaxCuts,                           \* the segment being written
   media : {"none", "audio", "video"},           \* what is in it
   save : [Segments -> Marks]]                   \* the copy of the index it writes

Blank == [x \in Segments |-> "absent"]
RecorderInit ==
  /\ asks = [o \in Operators |-> [at |-> "idle", n |-> 0]]
  /\ active = 0 /\ started = 0 /\ index = Blank /\ file = Blank /\ crowded = FALSE
  /\ recorder = [n \in Recordings |->
       [at |-> "none", then |-> "waiting", told |-> FALSE, cut |-> 0, media |-> "none", save |-> Blank]]

Live(n) == recorder[n].at \notin {"none", "ended", "failed"}
Alone == \A o \in Operators : asks[o].at = "idle"
Asks(o, from, to, n) == asks[o].at = from /\ asks' = [asks EXCEPT ![o] = [at |-> to, n |-> n]]

\* start looks at the table, spawns the task, and enters it into the table.
StartRecording(o) ==
  /\ active = 0 /\ started < MaxRecordings
  /\ Asks(o, "idle", "spawn", 0) /\ crowded' = (crowded \/ ~Alone)
  /\ UNCHANGED <<active, recorder, index, file, started>>

Spawn(o) ==
  /\ started < MaxRecordings /\ Asks(o, "spawn", "insert", started + 1)
  /\ started' = started + 1
  /\ recorder' = [recorder EXCEPT ![started + 1].at = "opening"]
  /\ crowded' = (crowded \/ \E n \in Recordings : Live(n))
  /\ UNCHANGED <<active, index, file>>

\* Another session's entry is replaced, and its stop_tx dropped with it.
Enter(o) ==
  /\ Asks(o, "insert", "idle", 0) /\ active' = asks[o].n
  /\ UNCHANGED <<recorder, index, file, crowded, started>>

StopRecording(o) ==
  /\ asks[o].at = "idle" /\ active # 0 /\ active' = 0
  /\ recorder' = [recorder EXCEPT ![active].told = TRUE]
  /\ UNCHANGED <<asks, index, file, crowded, started>>

\* The task ---------------------------------------------------------------
RecAside == UNCHANGED <<asks, active, crowded, started>>
Task(n, task) == recorder' = [recorder EXCEPT ![n] = task]

\* persist_index: into memory under the lock, then a copy to the file.
upsert_index_entry(n, mark) == [index EXCEPT ![<<n, recorder[n].cut>>] = mark]
Persist(n, mark, then) ==
  /\ index' = upsert_index_entry(n, mark)
  /\ Task(n, [recorder[n] EXCEPT !.at = "saving", !.then = then, !.save = index'])
  /\ UNCHANGED file /\ RecAside

\* SegmentWriter::new for the next segment.
Next_Cut(task, at) == [task EXCEPT !.at = at, !.cut = @ + 1, !.media = "none"]

Saved_Never(n) == file                                           \* mutant
Saved(n) == recorder[n].save
write_index_file(n) ==
  LET task == recorder[n]
      on == [task EXCEPT !.save = Blank] IN
  /\ task.at = "saving"
  /\ file' = Saved(n)
  /\ Task(n, CASE task.then = "next" -> Next_Cut(on, "opening")   \* after a resync
               [] task.then = "cut" -> Next_Cut(on, "writing")    \* should_rotate
               [] OTHER -> [on EXCEPT !.at = task.then])
  /\ UNCHANGED index /\ RecAside

Open(n) == recorder[n].at = "opening" /\ Persist(n, "recording", "waiting")

finish_Early(n, then) == Persist(n, "recording", then)          \* mutant
finish(n, then) ==
  Persist(n, IF recorder[n].media = "video" THEN "completed" ELSE "empty", then)

\* The branch of select! that answers a stop.
Told_BeforeMedia(n) ==                                          \* mutant
  recorder[n].at = "waiting" /\ recorder[n].told /\ recorder[n].media = "none" /\ finish(n, "ended")
Told(n) == recorder[n].at = "waiting" /\ recorder[n].told /\ finish(n, "ended")

\* A batch: after a gap the segment is closed first; a segment that is old enough is
\* closed without the next one being entered in the index.
Batch(n) ==
  /\ recorder[n].at = "waiting" /\ ~crowded   \* bound: the last batch before a crowd
  /\ \/ Task(n, [recorder[n] EXCEPT !.at = "writing"]) /\ UNCHANGED <<index, file>> /\ RecAside
     \/ recorder[n].cut < MaxCuts /\ finish(n, "next")
     \/ recorder[n].cut < MaxCuts /\ recorder[n].media # "none" /\ finish(n, "cut")

\* write_frame, with a flush of the index when one is due.
write_frame(n) ==
  LET task == recorder[n] IN
  /\ task.at = "writing"
  /\ \E media \in {"audio", "video"} :
       LET wrote == [task EXCEPT !.media = IF task.media = "video" THEN "video" ELSE media] IN
       \/ Task(n, [wrote EXCEPT !.at = "waiting"]) /\ UNCHANGED <<index, file>> /\ RecAside
       \/ /\ index' = upsert_index_entry(n, "recording")
          /\ Task(n, [wrote EXCEPT !.at = "saving", !.then = "waiting", !.save = index'])
          /\ UNCHANGED file /\ RecAside

\* The disk refuses: the task ends, and the table keeps its session.
Fails(n) ==
  /\ recorder[n].at \in {"opening", "writing", "saving"}
  /\ Task(n, [recorder[n] EXCEPT !.at = "failed", !.save = Blank])
  /\ UNCHANGED <<index, file>> /\ RecAside

RecorderStep(n) == Told(n) \/ Batch(n) \/ Open(n) \/ write_frame(n) \/ write_index_file(n)
RecorderNext ==
  \/ \E o \in Operators : StartRecording(o) \/ Spawn(o) \/ Enter(o) \/ StopRecording(o)
  \/ \E n \in Recordings : RecorderStep(n) \/ Fails(n)
----------------------------------------------------------------------------
RecorderTypeOK ==
  /\ asks \in [Operators -> [at : {"idle", "spawn", "insert"}, n : 0 .. MaxRecordings]]
  /\ {active, started} \subseteq 0 .. MaxRecordings
  /\ recorder \in [Recordings -> Recorders]
  /\ index \in [Segments -> Marks] /\ file \in [Segments -> Marks]

\* A recording that runs is the one in the table, or was told to stop.
NoStrayRecorder ==
  Alone /\ ~crowded => \A n \in Recordings : Live(n) => n = active \/ recorder[n].told

\* Nothing recorded is forgotten: every segment a task has left behind is in the index
\* as completed or empty, through rotations, resyncs and stops (record/mod.rs:287-300,
\* 358-362, 431-445); only a failure leaves one as "recording".
RecordingsIndexed ==
  \A n \in Recordings :
    LET left == recorder[n].cut + (IF recorder[n].at = "ended" THEN 0 ELSE -1)
    IN  \A i \in 0 .. left : index[<<n, i>>] \in {"completed", "empty"}

\* Between writes index.json says what the index says, unless a successor recorded
\* while its predecessor still finished and the older copy came last, or a write failed
\* (record/mod.rs:409-419, 504-524).
IndexFileCurrent ==
  (\A n \in Recordings : recorder[n].at \notin {"saving", "failed"}) /\ ~crowded => file = index

\* A recording that is told to stop ends.
StopsRecording == \A n \in Recordings : recorder[n].told ~> ~Live(n)
=============================================================================
