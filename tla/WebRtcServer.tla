---------------------------- MODULE WebRtcServer ----------------------------
(***************************************************************************)
(* WebRTC publishing as the other servers see it: the signalling sockets   *)
(* (src/server/webrtc/mod.rs) and the track tasks of their peer            *)
(* connections (src/server/webrtc/publisher.rs).  Players and keyframe     *)
(* requests are PlayRelays' subject, and the steps inside one cleanup      *)
(* PublishSession's.                                                       *)
(*                                                                         *)
(* A socket publishes under a new publisher id each time.                  *)
(***************************************************************************)
EXTENDS Streams

CONSTANTS
  Sockets,     \* WebSocket connections
  MaxPublish   \* bound of the model: publish commands of one socket
ASSUME SocketsAssumption == MaxPublish \in Nat /\ Sockets \X (1 .. MaxPublish) \subseteq Actors

PublisherIds == Sockets \X (1 .. MaxPublish)

VARIABLES
  rtc,     \* socket -> its SessionState
  tracks   \* publisher id -> the stream its track task feeds, Nobody if none runs
webrtc == <<rtc, tracks>>

RtcStates ==
  [open : BOOLEAN,
   publish : Names,      \* publish_stream_id; publish_pc and publisher_id are set
   made : 0 .. MaxPublish,  \* ids used so far, the last being the current one
   again : Names]        \* the publish command that goes on after a cleanup

WebRtcInit ==
  /\ rtc = [w \in Sockets |-> [open |-> TRUE, publish |-> Nobody, made |-> 0, again |-> Nobody]]
  /\ tracks = [i \in PublisherIds |-> Nobody]

Id(w) == <<w, rtc[w].made>>
Ready(w) == rtc[w].open /\ rtc[w].again = Nobody

\* cleanup_publish_session(s, the id if there is one): without an id it does not ask
\* whose stream it is.
CleanedUp(r, s, w) ==
  IF rtc[w].publish # Nobody THEN release_publisher(r, s, Id(w))
  ELSE set_status(r, s, "Unpublished")

LetsGo(w, s) == relies' = [relies EXCEPT ![Id(w)] = @ \ {s}]

\* A publish command on a session that publishes cleans up first, and goes on.
Republish(w, s) ==
  /\ Ready(w) /\ rtc[w].publish # Nobody /\ rtc[w].made < MaxPublish
  /\ reg' = CleanedUp(reg, rtc[w].publish, w) /\ LetsGo(w, rtc[w].publish)
  /\ rtc' = [rtc EXCEPT ![w].publish = Nobody, ![w].again = s]
  /\ UNCHANGED <<tracks, lost, used>>

\* start_publish: the slot is taken, or the negotiation fails, or all is well.
RtcPublish(w, s) ==
  LET n == rtc[w].made + 1
      made == create_stream(reg, s)
      taken == set_status(acquire_publisher(made, s, <<w, n>>), s, "Unpublished")
      idle == [rtc[w] EXCEPT !.made = n, !.again = Nobody]
      granted == CanAcquire(made, s, <<w, n>>)
  IN  /\ n <= MaxPublish /\ rtc[w].open
      /\ IF rtc[w].again = Nobody THEN rtc[w].publish = Nobody ELSE rtc[w].again = s
      /\ \/ /\ reg' = IF granted THEN release_publisher(taken, s, <<w, n>>) ELSE made
            /\ rtc' = [rtc EXCEPT ![w] = idle]
            /\ UNCHANGED <<claims, tracks>>
         \/ /\ granted
            /\ reg' = set_publishing(taken, s, <<w, n>>)
            /\ Acquires(<<w, n>>, s, {})
            /\ rtc' = [rtc EXCEPT ![w] = [idle EXCEPT !.publish = s]]
            /\ UNCHANGED tracks

\* on_track, any time after the negotiation.
TrackStarts(i) ==
  LET conn == rtc[i[1]] IN
  /\ conn.publish # Nobody /\ conn.made = i[2] /\ tracks[i] = Nobody
  /\ tracks' = [tracks EXCEPT ![i] = conn.publish]
  /\ UNCHANGED <<streams, rtc>>

TrackFrame(i) ==
  /\ tracks[i] # Nobody
  /\ reg' = publish_frame(reg, tracks[i], i)
  /\ UNCHANGED <<claims, webrtc>>

\* The track ends on its own time, with the stream's name and no publisher id.
TrackEnds(i) ==
  /\ tracks[i] # Nobody
  /\ reg' = set_status(reg, tracks[i], "Unpublished")
  /\ tracks' = [tracks EXCEPT ![i] = Nobody]
  /\ UNCHANGED <<claims, rtc>>

\* stop_publish names a stream, the session's or not; the id is taken out either way.
StopPublish(w, s) ==
  /\ Ready(w)
  /\ reg' = CleanedUp(reg, s, w)
  /\ IF rtc[w].publish # Nobody THEN LetsGo(w, s) ELSE UNCHANGED relies
  /\ lost' = lost \cup ({rtc[w].publish} \ {s, Nobody})
  /\ rtc' = [rtc EXCEPT ![w].publish = Nobody]
  /\ UNCHANGED <<tracks, used>>

\* The socket closes: cleanup_session.
SocketCloses(w) ==
  /\ Ready(w)
  /\ IF rtc[w].publish # Nobody
     THEN reg' = CleanedUp(reg, rtc[w].publish, w) /\ LetsGo(w, rtc[w].publish)
     ELSE UNCHANGED <<reg, relies>>
  /\ rtc' = [rtc EXCEPT ![w].open = FALSE, ![w].publish = Nobody]
  /\ UNCHANGED <<tracks, lost, used>>

WebRtcStep(w) ==
  \/ \E s \in used : RtcPublish(w, s) \/ Republish(w, s) \/ StopPublish(w, s)
  \/ \E n \in 1 .. MaxPublish :
       TrackStarts(<<w, n>>) \/ TrackFrame(<<w, n>>) \/ TrackEnds(<<w, n>>)
  \/ SocketCloses(w)
=============================================================================
