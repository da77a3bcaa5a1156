------------------------------ MODULE Pullers ------------------------------
(***************************************************************************)
(* Streams pulled from another server (src/server/rtsp/puller.rs,          *)
(* src/server/rtmp/puller.rs): a task started over HTTP that connects,     *)
(* makes the local stream, and publishes into it without asking for its    *)
(* slot, beside whoever has it.                                            *)
(***************************************************************************)
EXTENDS Streams

CONSTANT Pullers        \* tasks; each pulls once
ASSUME PullersAssumption == Pullers \subseteq Actors

VARIABLE puller         \* task -> where it is
PullerStates ==
  [at : {"idle", "setup", "tcp", "udp", "orphan", "rtmp", "gone"}, stream : Names]

PullersInit == puller = [p \in Pullers |-> [at |-> "idle", stream |-> Nobody]]

Goes(p, from, to) == puller[p].at = from /\ puller' = [puller EXCEPT ![p].at = to]

\* OPTIONS and DESCRIBE succeeded: the stream is made and set Unpublished.
PullRtsp(p, s) ==
  /\ puller[p].at = "idle"
  /\ puller' = [puller EXCEPT ![p] = [at |-> "setup", stream |-> s]]
  /\ reg' = set_status(create_stream(reg, s), s, "Unpublished")
  /\ UNCHANGED claims

\* SETUP and PLAY succeed, over TCP or UDP, or fail and leave the stream as it is.
PullRtspReady(p) ==
  \/ /\ \E transport \in {"tcp", "udp"} : Goes(p, "setup", transport)
     /\ reg' = set_publishing(reg, puller[p].stream, p)
     /\ UNCHANGED claims
  \/ Goes(p, "setup", "gone") /\ UNCHANGED streams

\* RTMP says Publishing before it asks the remote server to play.
PullRtmp(p, s) ==
  /\ puller[p].at = "idle"
  /\ reg' = set_publishing(create_stream(reg, s), s, p)
  /\ \E ready \in {"rtmp", "gone"} :
       puller' = [puller EXCEPT ![p] = [at |-> ready, stream |-> s]]
  /\ UNCHANGED claims

PulledFrame(p) ==
  /\ puller[p].at \in {"tcp", "udp", "orphan", "rtmp"}
  /\ reg' = publish_frame(reg, puller[p].stream, p)
  /\ UNCHANGED <<claims, puller>>

\* The receive loop ends, and sets its status on whatever stream has the name; or
\* the keepalive ends first, and nothing does.
PullEnds(p) ==
  \/ /\ Goes(p, "tcp", "gone")
     /\ reg' = set_status(reg, puller[p].stream, "Unpublished") /\ UNCHANGED claims
  \/ /\ Goes(p, "rtmp", "gone")
     /\ reg' = set_status(reg, puller[p].stream, "Stopped") /\ UNCHANGED claims
  \/ Goes(p, "tcp", "gone") /\ UNCHANGED streams

\* The UDP receivers are tasks of their own, which the end of the keepalive leaves.
Orphaned(p) == Goes(p, "udp", "orphan") /\ UNCHANGED streams

PullerStep(p) ==
  \/ \E s \in used : PullRtsp(p, s) \/ PullRtmp(p, s)
  \/ PullRtspReady(p) \/ PulledFrame(p) \/ PullEnds(p) \/ Orphaned(p)
=============================================================================
