----------------------------- MODULE MediaPaths -----------------------------
(***************************************************************************)
(* The ways media takes in and out of the server: RTMP chunks, H264 over   *)
(* RTP, HLS segments, the clock of a recorded file, RTSP push.  They share *)
(* no state with each other, so a behaviour is about one of them, the      *)
(* `path`, or about none, when a module that composes this one is at work. *)
(***************************************************************************)
EXTENDS RtmpChunks, H264Ingest, HlsSegmenter, FlvTimeline, RtspPusher

VARIABLE path
pathVars == <<path, chunkVars, ingestVars, segVars, timeVars, pusherVars>>

PathsInit ==
  /\ path \in {"none", "chunks", "ingest", "segmenter", "timeline", "pusher"}
  /\ ChunksInit /\ IngestInit /\ SegmenterInit /\ TimelineInit /\ PusherInit

PathsNext ==
  /\ UNCHANGED path
  /\ \/ path = "chunks" /\ ChunksNext /\ UNCHANGED <<ingestVars, segVars, timeVars, pusherVars>>
     \/ path = "ingest" /\ IngestNext /\ UNCHANGED <<chunkVars, segVars, timeVars, pusherVars>>
     \/ path = "segmenter" /\ SegmenterNext /\ UNCHANGED <<chunkVars, ingestVars, timeVars, pusherVars>>
     \/ path = "timeline" /\ TimelineNext /\ UNCHANGED <<chunkVars, ingestVars, segVars, pusherVars>>
     \/ path = "pusher" /\ PusherNext /\ UNCHANGED <<chunkVars, ingestVars, segVars, timeVars>>
=============================================================================
