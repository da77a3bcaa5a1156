----------------------------- MODULE RtspPusher -----------------------------
(***************************************************************************)
(* A stream sent to another RTSP server (src/server/rtsp/pusher.rs, the    *)
(* requests of client_session.rs): the handshake, then a loop that packs   *)
(* frames until the peer closes the connection.  A frame takes one packet, *)
(* a keyframe two more for its parameter sets; each write may fail.        *)
(*                                                                         *)
(* Session ids and ports are left out.  The HTTP route that starts a pusher*)
(* drops its handle (server/http/mod.rs:803); pause, resume and stop are   *)
(* those of the StreamPusher trait.                                        *)
(***************************************************************************)
EXTENDS Integers, Sequences, FiniteSets

CONSTANTS
  Tracks,               \* track ids that were announced; the first one is video
  MaxBatchLen, MaxSent  \* bounds of the model: frames in a batch, frames handed over
ASSUME PusherAssumption ==
  Tracks \subseteq Nat /\ 0 \in Tracks /\ {MaxBatchLen, MaxSent} \subseteq Nat \ {0}

\* OPTIONS, ANNOUNCE, a SETUP for each track, RECORD.
Requests == 3 + Cardinality(Tracks)
\* Frames the stream may hold: keyframes that carry parameter sets or do not, others, and
\* those of a track that came after the announcement.
Offered ==
  [track : {0}, key : BOOLEAN, bears : {FALSE}] \cup {[track |-> 0, key |-> TRUE, bears |-> TRUE]}
    \cup [track : (Tracks \ {0}) \cup {99}, key : {FALSE}, bears : {FALSE}]

VARIABLES
  status, paused,  \* of the pusher
  asked,           \* requests answered so far
  loop,            \* the spawned task: "none", "recv", "look", "sps", "pps", "frame" or "ended"
  todo,            \* the frames of the batch that are left
  taken,           \* frames handed over so far
  sequences,       \* of the loop
  cachedAt,        \* sps_cache and pps_cache: the frame they were first filled by, or 0
  sent             \* history: what was written, by track
pusherVars == <<status, paused, asked, loop, todo, taken, sequences, cachedAt, sent>>

PusherInit ==
  /\ status = "idle" /\ paused = FALSE /\ asked = 0 /\ loop = "none"
  /\ todo = <<>> /\ taken = 0 /\ cachedAt = 0
  /\ sequences = [t \in Tracks |-> 0] /\ sent = [t \in Tracks |-> <<>>]

LoopUnchanged == UNCHANGED <<todo, taken, sequences, cachedAt, sent>>

\* start: it fails at once without tracks.
StartPusher ==
  /\ status = "idle" /\ status' \in {"starting", "error"}
  /\ UNCHANGED <<paused, asked, loop>> /\ LoopUnchanged

\* An answer of the peer.  One that never comes leaves the status as it is.
Answered ==
  /\ status = "starting" /\ loop = "none" /\ asked' = asked + 1
  /\ IF asked' = Requests THEN status' = "running" /\ loop' = "recv"
                               ELSE UNCHANGED <<status, loop>>
  /\ UNCHANGED paused /\ LoopUnchanged
Refused ==
  /\ status = "starting" /\ loop = "none"
  /\ \/ status' = "error" /\ UNCHANGED loop
     \/ loop' = "ended" /\ UNCHANGED status
  /\ UNCHANGED <<paused, asked>> /\ LoopUnchanged

\* StreamPusher::pause, resume and stop; start has the pusher to itself.
PausePusher ==
  /\ status # "starting" /\ paused' = TRUE
  /\ status' = IF status = "running" THEN "paused" ELSE status
  /\ UNCHANGED <<asked, loop>> /\ LoopUnchanged
ResumePusher ==
  /\ status # "starting" /\ paused' = FALSE
  /\ status' = IF status = "paused" THEN "running" ELSE status
  /\ UNCHANGED <<asked, loop>> /\ LoopUnchanged
StopPusher ==
  /\ status \notin {"starting", "stopped"} /\ status' = "stopped"
  /\ UNCHANGED <<paused, asked, loop>> /\ LoopUnchanged

\* rtp_send_loop -----------------------------------------------------------

recv_batch ==
  /\ loop = "recv" /\ loop' = "look"
  /\ \E n \in 1 .. MaxBatchLen :
       taken + n <= MaxSent /\ taken' = taken + n /\ todo' \in [1 .. n -> Offered]
  /\ UNCHANGED <<status, paused, asked, sequences, cachedAt, sent>>

Next_Frame(rest) == todo' = rest /\ loop' = IF rest = <<>> THEN "recv" ELSE "look"
FrameNumber == taken - Len(todo) + 1                    \* of the frame at hand

\* A frame is dropped while paused, and when its track was not announced; a keyframe
\* leaves its parameter sets in the caches, and goes out behind what they hold.
Look ==
  /\ loop = "look"
  /\ LET f == Head(todo)
     IN  IF paused \/ f.track \notin Tracks THEN Next_Frame(Tail(todo)) /\ UNCHANGED cachedAt
         ELSE /\ cachedAt' = IF f.bears /\ cachedAt = 0 THEN FrameNumber ELSE cachedAt
              /\ loop' = IF f.key /\ cachedAt' # 0 THEN "sps" ELSE "frame"
              /\ UNCHANGED todo
  /\ UNCHANGED <<status, paused, asked, taken, sequences, sent>>

Written ==
  /\ loop \in {"sps", "pps", "frame"}
  /\ LET f == Head(todo)
     IN  /\ sent' = [sent EXCEPT ![f.track] = Append(@,
                       [part |-> loop, seq |-> sequences[f.track], of |-> FrameNumber, key |-> f.key])]
         /\ sequences' = [sequences EXCEPT ![f.track] = (@ + 1) % 65536]
  /\ IF loop = "frame" THEN Next_Frame(Tail(todo))
     ELSE loop' = (IF loop = "sps" THEN "pps" ELSE "frame") /\ UNCHANGED todo
  /\ UNCHANGED <<status, paused, asked, taken, cachedAt>>

\* The break leaves the batch, not the loop.
Failed_Counts ==                                                \* mutant
  /\ loop \in {"sps", "pps", "frame"} /\ Next_Frame(<<>>)
  /\ sequences' = [sequences EXCEPT ![Head(todo).track] = (@ + 1) % 65536]
  /\ UNCHANGED <<status, paused, asked, taken, cachedAt, sent>>
Failed ==
  /\ loop \in {"sps", "pps", "frame"} /\ Next_Frame(<<>>)
  /\ UNCHANGED <<status, paused, asked, taken, sequences, cachedAt, sent>>

\* monitor_connection ends, and select! drops the loop; nobody touches the status.
Closed ==
  /\ loop \notin {"none", "ended"} /\ loop' = "ended" /\ todo' = <<>>
  /\ UNCHANGED <<status, paused, asked, taken, sequences, cachedAt, sent>>

PusherNext ==
  \/ StartPusher \/ Answered \/ Refused \/ PausePusher \/ ResumePusher \/ StopPusher
  \/ recv_batch \/ Look \/ Written \/ Failed \/ Closed
----------------------------------------------------------------------------
\* What the peer receives is one RTP stream per track, whatever pauses, lost writes and
\* dropped batches there were: sequence numbers without a hole, and every keyframe since
\* parameter sets were seen right behind its own.  A pusher that says it is paused takes
\* up no further frame (pusher.rs:258-426, 499-520).
PusherWire ==
  /\ \A t \in Tracks : \A i \in 1 .. Len(sent[t]) :
       /\ sent[t][i].seq = (i - 1) % 65536
       /\ sent[t][i].part = "frame" /\ sent[t][i].key /\ cachedAt \in 1 .. sent[t][i].of =>
            /\ i > 2 /\ sent[t][i - 1].part = "pps" /\ sent[t][i - 2].part = "sps"
            /\ sent[t][i - 1].of = sent[t][i].of /\ sent[t][i - 2].of = sent[t][i].of
  /\ status = "paused" => paused
=============================================================================
