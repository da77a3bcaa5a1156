----------------------------- MODULE RtmpServer -----------------------------
(***************************************************************************)
(* RTMP connections (src/server/rtmp/mod.rs, src/server/rtmp/session.rs):  *)
(* the commands a client sends in any order, the one stream name all of    *)
(* them share, and the task that feeds a player.                           *)
(*                                                                         *)
(* conn.stream_id is set by connect, publish and play alike and read by    *)
(* whatever comes later, so that a connection can publish under one name   *)
(* and give back another.  Acknowledged commands (releaseStream, FCPublish,*)
(* createStream) and protocol control change nothing here.                 *)
(***************************************************************************)
EXTENDS Streams

CONSTANT Rtmp           \* connections
ASSUME RtmpAssumption == Rtmp \subseteq Actors

VARIABLE rtmp           \* connection -> its state
RtmpConns ==
  [open : BOOLEAN,
   stream : Names,        \* conn.stream_id
   publishing : BOOLEAN,  \* conn.is_publishing, and conn.publisher_id is set
   player : Names]        \* the stream of the play task that runs

NewRtmp == [open |-> TRUE, stream |-> Nobody, publishing |-> FALSE, player |-> Nobody]

RtmpInit == rtmp = [c \in Rtmp |-> NewRtmp]

RtmpBecomes(c, conn) == rtmp' = [rtmp EXCEPT ![c] = conn]

\* The stream whose slot the connection would give back.
MineRtmp(conn) ==
  IF conn.open /\ conn.publishing /\ conn.stream # Nobody THEN {conn.stream} ELSE {}

\* handle_connect takes the app for the stream.
Connect(c, app) ==
  /\ rtmp[c].open
  /\ RtmpBecomes(c, [rtmp[c] EXCEPT !.stream = app])
  /\ Loses(MineRtmp(rtmp[c]) \ {app})

Publish(c, s) ==
  /\ rtmp[c].open
  /\ LET made == create_stream(reg, s)
         taken == set_status(acquire_publisher(made, s, c), s, "Unpublished")
         conn == [rtmp[c] EXCEPT !.stream = s, !.publishing = TRUE]
     IN  IF CanAcquire(made, s, c)
         THEN \/ /\ reg' = set_publishing(taken, s, c) /\ RtmpBecomes(c, conn)
                 /\ Acquires(c, s, MineRtmp(rtmp[c]))
              \* the response could not be written: handle_connection returns
              \/ /\ reg' = taken /\ RtmpBecomes(c, [conn EXCEPT !.open = FALSE])
                 /\ relies' = [relies EXCEPT ![c] = @ \cup {s}]
                 /\ lost' = lost \cup MineRtmp(rtmp[c]) \cup {s}
                 /\ UNCHANGED used
         ELSE reg' = made /\ UNCHANGED <<claims, rtmp>>

\* The name is taken over before the stream is looked at; a running play task is
\* replaced only by one that starts.
PlayStream(c, s) ==
  /\ rtmp[c].open
  /\ LET found == reg[s].live /\ reg[s].status = "Publishing"
     IN  RtmpBecomes(c, [rtmp[c] EXCEPT !.stream = s, !.player = IF found THEN s ELSE @])
  /\ Loses(MineRtmp(rtmp[c]) \ {s})

\* A write to the client fails.
PlayTaskEnds(c) ==
  /\ rtmp[c].player # Nobody
  /\ RtmpBecomes(c, [rtmp[c] EXCEPT !.player = Nobody])
  /\ UNCHANGED streams

\* Video and audio go to the stream named last.
RtmpFrame(c) ==
  /\ rtmp[c].open /\ rtmp[c].publishing /\ rtmp[c].stream # Nobody
  /\ reg' = publish_frame(reg, rtmp[c].stream, c)
  /\ UNCHANGED <<claims, rtmp>>

\* release_publish_connection: the slot of the stream named last, if it has it.
ReleasesRtmp(c) ==
  IF rtmp[c].publishing /\ rtmp[c].stream # Nobody
  THEN /\ reg' = release_publisher(reg, rtmp[c].stream, c)
       /\ GivesUp(c, rtmp[c].stream)
  ELSE UNCHANGED streams

\* deleteStream, closeStream: the play task goes on.
CloseStream(c) ==
  /\ rtmp[c].open
  /\ ReleasesRtmp(c)
  /\ RtmpBecomes(c, [rtmp[c] EXCEPT !.publishing = FALSE])

\* End of file aborts the play task, a read error leaves it to its next write.
Hangup(c) ==
  /\ rtmp[c].open
  /\ ReleasesRtmp(c)
  /\ \E player \in {Nobody, rtmp[c].player} :
       RtmpBecomes(c, [rtmp[c] EXCEPT !.open = FALSE, !.publishing = FALSE, !.player = player])

\* An error while a message is handled ends the connection without a release.
HandlerError(c) ==
  /\ rtmp[c].open
  /\ RtmpBecomes(c, [rtmp[c] EXCEPT !.open = FALSE])
  /\ Loses(MineRtmp(rtmp[c]))

RtmpStep(c) ==
  \/ \E s \in used : Publish(c, s) \/ PlayStream(c, s)
  \/ \E app \in used \cup {Nobody} : Connect(c, app)
  \/ PlayTaskEnds(c) \/ RtmpFrame(c) \/ CloseStream(c) \/ Hangup(c) \/ HandlerError(c)
=============================================================================
