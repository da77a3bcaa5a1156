-------------------------------- MODULE Hls --------------------------------
(***************************************************************************)
(* HLS generation for one stream (src/server/hls/mod.rs, the window of     *)
(* src/server/hls/m3u8.rs, the requests in src/server/http/mod.rs): the    *)
(* session map, the segmenter tasks and the directory they share.          *)
(*                                                                         *)
(* ensure_stream, start_stream and stop_stream take one lock after         *)
(* another, so each lock is a step of the caller.  Viewers ensure, the     *)
(* publish handlers ensure with `reset`, the reaper stops.  A session and  *)
(* the task started with it share a number; a task finds its session by    *)
(* name.  How a segment is cut is HlsSegmenter's subject.                  *)
(***************************************************************************)
EXTENDS Integers, Sequences, FiniteSets, Functions, SequencesExt

CONSTANTS
  Viewers, Publishers, Reaper,  \* who calls: HTTP handlers, publish handlers, the reaper
  MaxSegments,                  \* max_segments of the playlist
  MaxStarts, MaxSeq             \* bounds of the model: sessions, segments

HlsCallers == Viewers \cup Publishers \cup {Reaper}
ASSUME HlsAssumption ==
  /\ MaxSegments \in Nat \ {0} /\ {MaxStarts, MaxSeq} \subseteq Nat
  /\ Reaper \notin Viewers \cup Publishers

VARIABLES
  live,     \* the stream exists
  session,  \* the session in `sessions`, or 0
  handle,   \* the task in `task_aborts`, or 0
  access,   \* last_access has an entry, of whatever age
  at,       \* caller -> the lock it takes next
  mine,     \* caller -> the session it is starting
  made,     \* sessions made so far
  list,     \* session -> the sequence numbers in its playlist
  next,     \* session -> next_sequence
  task,     \* session -> its task
  disk,     \* segment files in the stream's directory
  overlap,  \* history: two calls ran at once, or the stream was deleted under one
  lingered  \* history: a session was made while an aborted task was still at work
hlsVars ==
  <<live, session, handle, access, at, mine, made, list, next, task, disk, overlap, lingered>>

Sessions == 1 .. MaxStarts
Tasks == [at : {"none", "reading", "writing", "listing", "pruning", "dead"},
          seq : 0 .. MaxSeq, aborted : BOOLEAN]

HlsInit ==
  /\ live = TRUE /\ session = 0 /\ handle = 0 /\ access = FALSE /\ made = 0
  /\ at = [c \in HlsCallers |-> "idle"] /\ mine = [c \in HlsCallers |-> 0]
  /\ list = [n \in Sessions |-> <<>>] /\ next = [n \in Sessions |-> 0]
  /\ task = [n \in Sessions |-> [at |-> "none", seq |-> 0, aborted |-> FALSE]]
  /\ disk = {} /\ overlap = FALSE /\ lingered = FALSE

AtWork(n) == task[n].at \notin {"none", "dead"}
Running(n) == AtWork(n) /\ ~task[n].aborted
Lingering == \E n \in Sessions : AtWork(n) /\ task[n].aborted
AllIdle == \A c \in HlsCallers : at[c] = "idle"
Moves(c, from, to) == at[c] = from /\ at' = [at EXCEPT ![c] = to]
\* Bound of the model: once two calls ran into each other no call or segment is begun
\* (nor a segment, once a task lingered into the next session).
Calls(c, to) == ~overlap /\ Moves(c, "idle", to) /\ overlap' = ~AllIdle /\ UNCHANGED lingered

tableVars == <<session, handle, access>>
workVars == <<list, next, task, disk>>
Only(c) == UNCHANGED <<mine, made, overlap, lingered>>

\* Callers ----------------------------------------------------------------

\* ensure_stream: a publish restarts what is there.
Ensure(c) ==
  /\ c # Reaper /\ live /\ made < MaxStarts
  /\ Calls(c, IF c \in Publishers /\ session # 0 THEN "stop" ELSE "ensure")
  /\ UNCHANGED <<live, tableVars, workVars, mine, made>>

\* has_stream, and touch when it has; start_stream looks once more.
Ensured(c) ==
  /\ IF session # 0 THEN Moves(c, "ensure", "idle") /\ access' = TRUE
     ELSE Moves(c, "ensure", "make") /\ UNCHANGED access
  /\ UNCHANGED <<live, session, handle, workVars>> /\ Only(c)

\* HlsSession::new wipes the stream's directory.
NewSession(c) ==
  /\ made < MaxStarts
  /\ IF session # 0
       THEN /\ Moves(c, "make", "idle") /\ access' = TRUE
            /\ UNCHANGED <<made, mine, disk, lingered>>
       ELSE /\ Moves(c, "make", "insert") /\ UNCHANGED access
            /\ made' = made + 1 /\ mine' = [mine EXCEPT ![c] = made + 1]
            /\ disk' = {} /\ lingered' = (lingered \/ Lingering)
  /\ UNCHANGED <<live, session, handle, list, next, task, overlap>>

Insert(c) ==
  /\ Moves(c, "insert", "subscribe") /\ session' = mine[c]
  /\ UNCHANGED <<live, handle, access, workVars>> /\ Only(c)

\* Without a hub start_stream returns, and the session stays without a task.
Subscribe(c) ==
  /\ IF ~live THEN Moves(c, "subscribe", "idle") /\ access' = TRUE /\ UNCHANGED task
     ELSE /\ Moves(c, "subscribe", "register") /\ UNCHANGED access
          /\ task' = [task EXCEPT ![mine[c]].at = "reading"]
  /\ UNCHANGED <<live, session, handle, list, next, disk>> /\ Only(c)

Register(c) ==
  /\ Moves(c, "register", "idle") /\ handle' = mine[c] /\ access' = TRUE
  /\ UNCHANGED <<live, session, workVars>> /\ Only(c)

Stop_LeavesTask(c) ==                                           \* mutant
  /\ Moves(c, "stop", "forget") /\ handle' = 0
  /\ UNCHANGED <<live, session, access, workVars>> /\ Only(c)
\* stop_stream, first lock: the task is aborted, and goes on to its next await.
Stop(c) ==
  /\ Moves(c, "stop", "forget") /\ handle' = 0
  /\ task' = IF handle = 0 THEN task ELSE [task EXCEPT ![handle].aborted = TRUE]
  /\ UNCHANGED <<live, session, access, list, next, disk>> /\ Only(c)

Forget(c) ==
  /\ Moves(c, "forget", "drop") /\ access' = FALSE
  /\ UNCHANGED <<live, session, handle, workVars>> /\ Only(c)

Drop(c) ==
  /\ Moves(c, "drop", IF c = Reaper THEN "untouch" ELSE "ensure") /\ session' = 0
  /\ UNCHANGED <<live, handle, access, workVars>> /\ Only(c)

\* The reaper lists what is stale, and looks at it afterwards.
Reap ==
  /\ access /\ Calls(Reaper, "reap")
  /\ UNCHANGED <<live, tableVars, workVars, mine, made>>
ReapLook ==
  /\ Moves(Reaper, "reap", IF session # 0 THEN "stop" ELSE "untouch")
  /\ UNCHANGED <<live, tableVars, workVars>> /\ Only(Reaper)
Untouch ==
  /\ Moves(Reaper, "untouch", "idle") /\ access' = FALSE
  /\ UNCHANGED <<live, session, handle, workVars>> /\ Only(Reaper)

\* get_playlist and get_segment_path touch whether there is a session or not.
Poll ==
  /\ ~access /\ access' = TRUE
  /\ UNCHANGED <<live, session, handle, at, workVars, mine, made, overlap, lingered>>
\* DELETE /api/stream; for good, so that the tasks get no more frames.
Delete ==
  /\ live /\ live' = FALSE /\ overlap' = (overlap \/ ~AllIdle)
  /\ UNCHANGED <<tableVars, at, mine, made, workVars, lingered>>

\* The segmenter task -----------------------------------------------------

TaskMoves(n, from, to) == task[n].at = from /\ task' = [task EXCEPT ![n].at = to]
Aside == UNCHANGED <<live, tableVars, at, mine, made, overlap, lingered>>

\* on_frame of the session of that name closes a segment; without a session only the
\* batch is left and the task reads on.  A deleted stream's hub brings no frames.
Close(n) ==
  /\ task[n].at = "reading" /\ live /\ session # 0 /\ ~overlap /\ ~lingered
  /\ next[session] < MaxSeq   \* bound: its segments, and those of any other session with them
  /\ \A m \in Sessions \ {session} : next[session] + next[m] < MaxSeq
  /\ task' = [task EXCEPT ![n].at = "writing", ![n].seq = next[session]]
  /\ UNCHANGED <<list, next, disk>> /\ Aside

\* The segment is written aside and renamed, or one of the two fails.
Write(n) ==
  /\ \/ TaskMoves(n, "writing", "listing") /\ disk' = disk \cup {task[n].seq}
     \/ TaskMoves(n, "writing", "reading") /\ UNCHANGED disk
  /\ UNCHANGED <<list, next>> /\ Aside

\* M3u8Generator::add_segment.
Window(s) == IF Len(s) > MaxSegments THEN Tail(s) ELSE s
add_segment_Stuck(n, seq) ==                                    \* mutant
  /\ list' = [list EXCEPT ![n] = Window(Append(@, seq))]
  /\ UNCHANGED next
add_segment(n, seq) ==
  /\ list' = [list EXCEPT ![n] = Window(Append(@, seq))]
  /\ next' = [next EXCEPT ![n] = seq + 1]

List(n) ==
  /\ IF session = 0 THEN TaskMoves(n, "listing", "reading") /\ UNCHANGED <<list, next>>
     ELSE TaskMoves(n, "listing", "pruning") /\ add_segment(session, task[n].seq)
  /\ UNCHANGED disk /\ Aside

\* prune_old_segments; what is younger than the window and two more is kept.
Stays_All(n) == disk \cap (task[n].seq + 1 .. MaxSeq)           \* mutant
Stays(n) == {s \in disk : s >= task[n].seq - (MaxSegments + 2)}
Prune(n) ==
  /\ TaskMoves(n, "pruning", "reading") /\ disk' = Stays(n)
  /\ UNCHANGED <<list, next>> /\ Aside

\* An aborted task ends at an await that is not ready, for frames or for a file (of which
\* an operation under way still comes to its end).  Between the rename and the listing
\* there is none (hls/mod.rs:780-815).
TaskEnds(n) ==
  /\ task[n].aborted /\ \E from \in {"reading", "writing", "pruning"} : TaskMoves(n, from, "dead")
  /\ disk' \in {disk} \cup (CASE task[n].at = "writing" -> {disk \cup {task[n].seq}}
                              [] task[n].at = "pruning" -> {Stays(n)}
                              [] OTHER -> {})
  /\ UNCHANGED <<list, next>> /\ Aside

HlsNext ==
  \/ \E c \in HlsCallers :
       Ensure(c) \/ Ensured(c) \/ NewSession(c) \/ Insert(c) \/ Subscribe(c) \/ Register(c)
       \/ Stop(c) \/ Forget(c) \/ Drop(c)
  \/ Reap \/ ReapLook \/ Untouch \/ Poll \/ Delete
  \/ \E n \in Sessions : Close(n) \/ Write(n) \/ List(n) \/ Prune(n) \/ TaskEnds(n)
----------------------------------------------------------------------------
HlsTypeOK ==
  /\ {live, overlap, lingered} \subseteq BOOLEAN
  /\ {session, handle, made} \subseteq 0 .. MaxStarts /\ access \in BOOLEAN
  /\ mine \in [HlsCallers -> 0 .. MaxStarts] /\ task \in [Sessions -> Tasks]
  /\ next \in [Sessions -> 0 .. MaxSeq] /\ disk \subseteq 0 .. MaxSeq - 1

\* Calls that do not run into each other leave no task behind: whatever runs was aborted,
\* or can be and belongs to the session of that name (hls/mod.rs:639-662, 852-856,
\* 904-920).  With an overlap a handle is overwritten and a task outlives its session.
NoStrayTask ==
  AllIdle /\ ~overlap => \A n \in Sessions : Running(n) <=> n = handle /\ n = session

\* Whatever the playlist names can be fetched: a file is written before it is listed,
\* pruned only outside the window, and the directory is wiped only when nobody lists
\* from it (hls/mod.rs:120-124, 775-822, m3u8.rs:68-96).  Not so for a session made while
\* its predecessor's task, already aborted, was at work: that one lists its own segment
\* in the new playlist, and prunes by its own number.
PlaylistOnDisk == session # 0 /\ ~overlap /\ ~lingered => ToSet(list[session]) \subseteq disk

\* A playlist never skips or repeats a segment, also when a write failed; again but for
\* calls that overlap and tasks that linger.
PlaylistGapless ==
  session # 0 /\ ~overlap /\ ~lingered =>
    \A i \in 1 .. Len(list[session]) - 1 : list[session][i + 1] = list[session][i] + 1
=============================================================================
