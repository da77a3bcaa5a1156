----------------------------- MODULE RtspServer -----------------------------
(***************************************************************************)
(* RTSP connections (src/server/rtsp/mod.rs, src/server/rtsp/session.rs,   *)
(* src/server/rtsp/server_session.rs): the session record that a client's  *)
(* requests drive in any order, the media that arrives on the connection   *)
(* or on UDP sockets, and the task that sends to a player.                 *)
(*                                                                         *)
(* A request is handled to its end before the next bytes are read, so a    *)
(* request is one step.  One UDP track stands for all: for each the code   *)
(* keeps a socket, and starts at most one receiver in the session's life.  *)
(* Requests that only produce a response (OPTIONS, 400, 404, 455, 501)     *)
(* change nothing and are left out.                                        *)
(***************************************************************************)
EXTENDS Streams

CONSTANT Rtsp           \* connections
ASSUME RtspAssumption == Rtsp \subseteq Actors

VARIABLE rtsp           \* connection -> its session
Conns ==
  [open : BOOLEAN,
   stream : Names,      \* session.stream_id
   id : BOOLEAN,        \* session.publisher_id is set
   publishing : BOOLEAN, playing : BOOLEAN,
   mode : {"tcp", "udp"},            \* session.transport_mode
   udp : {"none", "heard", "deaf"},  \* the track's socket, and whether a receiver reads it
   ear : Names,         \* the stream the receiver task was started for
   ingest : Names,      \* the stream the H264 ingest was made for
   sender : Names]      \* the stream the RTP sender task serves

NewConn ==
  [open |-> TRUE, stream |-> Nobody, id |-> FALSE, publishing |-> FALSE, playing |-> FALSE,
   mode |-> "tcp", udp |-> "none", ear |-> Nobody, ingest |-> Nobody, sender |-> Nobody]

RtspInit == rtsp = [c \in Rtsp |-> NewConn]

Becomes(c, conn) == rtsp' = [rtsp EXCEPT ![c] = conn]

\* The stream a request is about: the session's, or else the URL's.
Named(conn, s) == IF conn.stream = Nobody THEN s ELSE conn.stream

Describe(c, s) ==
  /\ rtsp[c].open /\ reg[s].live
  /\ Becomes(c, [rtsp[c] EXCEPT !.stream = Named(rtsp[c], s)])
  /\ UNCHANGED streams

\* start_udp_receiver_for_track: once per track and session, for the stream of the moment.
Listen(conn) ==
  IF conn.udp = "deaf" /\ conn.ear = Nobody /\ conn.stream # Nobody
  THEN [conn EXCEPT !.udp = "heard", !.ear = conn.stream]
  ELSE conn

SetupTcp(c, s) ==
  /\ rtsp[c].open
  /\ Becomes(c, [rtsp[c] EXCEPT !.stream = Named(rtsp[c], s), !.mode = "tcp"])
  /\ UNCHANGED streams

\* A new socket replaces the track's; the receiver is started before the
\* request itself is processed.
SetupUdp(c, s) ==
  /\ rtsp[c].open
  /\ LET fresh == [rtsp[c] EXCEPT !.udp = "deaf", !.mode = "udp"]
         conn == IF fresh.publishing THEN Listen(fresh) ELSE fresh
     IN  Becomes(c, [conn EXCEPT !.stream = Named(conn, s)])
  /\ UNCHANGED streams

\* start_rtp_sender subscribes when its task first runs.
Play(c) ==
  /\ rtsp[c].open /\ rtsp[c].stream # Nobody
  /\ Becomes(c, [rtsp[c] EXCEPT !.playing = TRUE, !.sender = rtsp[c].stream])
  /\ UNCHANGED streams

Pause_KeepsSender(c) ==                                         \* mutant
  /\ rtsp[c].open /\ rtsp[c].stream # Nobody
  /\ Becomes(c, [rtsp[c] EXCEPT !.playing = FALSE])
  /\ UNCHANGED streams
Pause(c) ==
  /\ rtsp[c].open /\ rtsp[c].stream # Nobody
  /\ Becomes(c, [rtsp[c] EXCEPT !.playing = FALSE, !.sender = Nobody])
  /\ UNCHANGED streams

\* The sender's stream is gone, or a write to the client failed: the task ends,
\* the session still says it plays.
SenderEnds(c) ==
  /\ rtsp[c].sender # Nobody
  /\ Becomes(c, [rtsp[c] EXCEPT !.sender = Nobody])
  /\ UNCHANGED streams

\* What TEARDOWN and the end of the connection share: the slot goes back when the
\* session knows both its stream and its publisher id; else nobody gives it back.
Releases(c) ==
  IF rtsp[c].stream # Nobody /\ rtsp[c].id
  THEN /\ reg' = release_publisher(reg, rtsp[c].stream, c)
       /\ GivesUp(c, rtsp[c].stream)
  ELSE UNCHANGED streams

\* TEARDOWN forgets the UDP sockets, but neither the receivers nor the ingest.
Teardown(c) ==
  /\ rtsp[c].open
  /\ Releases(c)
  /\ Becomes(c, [NewConn EXCEPT !.mode = rtsp[c].mode, !.ear = rtsp[c].ear,
                                !.ingest = rtsp[c].ingest])

\* cleanup_on_disconnect.
Disconnect_KeepsSlot(c) ==                                      \* mutant
  /\ rtsp[c].open /\ UNCHANGED streams
  /\ Becomes(c, [NewConn EXCEPT !.open = FALSE, !.ear = rtsp[c].ear])
Disconnect(c) ==
  /\ rtsp[c].open
  /\ Releases(c)
  /\ Becomes(c, [NewConn EXCEPT !.open = FALSE, !.ear = rtsp[c].ear])

\* The stream whose slot the session would give back.
Mine(conn) == IF conn.open /\ conn.id /\ conn.stream # Nobody THEN {conn.stream} ELSE {}

\* A rejected ANNOUNCE (409) has made the stream and leaves the session alone; a
\* granted one leaves the slot of the stream announced before.
Announce(c, s) ==
  /\ rtsp[c].open
  /\ LET made == create_stream(reg, s)
     IN  IF CanAcquire(made, s, c)
         THEN /\ reg' = set_status(acquire_publisher(made, s, c), s, "Unpublished")
              /\ Acquires(c, s, Mine(rtsp[c]))
              /\ Becomes(c, [rtsp[c] EXCEPT !.stream = s, !.id = TRUE, !.publishing = TRUE])
         ELSE reg' = made /\ UNCHANGED <<claims, rtsp>>

\* RECORD takes the slot when no ANNOUNCE did, without noting the stream in the
\* session.  The UDP receivers are started whatever the response was.
Record(c, s) ==
  LET conn == rtsp[c]
      name == Named(conn, s)
      granted == conn.id \/ CanAcquire(reg, name, c)
      done == IF granted THEN [conn EXCEPT !.id = TRUE, !.publishing = TRUE] ELSE conn
  IN  /\ conn.open
      /\ IF ~granted THEN UNCHANGED streams
         ELSE IF conn.id THEN reg' = set_publishing(reg, name, c) /\ UNCHANGED claims
         ELSE /\ reg' = set_publishing(acquire_publisher(reg, name, c), name, c)
              /\ relies' = [relies EXCEPT ![c] = @ \cup {name}]
              /\ lost' = IF conn.stream = Nobody THEN lost \cup {name} ELSE lost \ {name}
              /\ UNCHANGED used
      /\ Becomes(c, IF conn.mode = "udp" THEN Listen(done) ELSE done)

\* handle_rtp_data: interleaved media needs a stream and nothing else.  Video goes to
\* the stream the ingest was made for, audio to the session's.
RtpVideo(c) ==
  LET into == IF rtsp[c].ingest = Nobody THEN rtsp[c].stream ELSE rtsp[c].ingest
  IN  /\ rtsp[c].open /\ rtsp[c].stream # Nobody
      /\ reg' = publish_frame(reg, into, c)
      /\ Becomes(c, [rtsp[c] EXCEPT !.ingest = into])
      /\ UNCHANGED claims

RtpAudio(c) ==
  /\ rtsp[c].open /\ rtsp[c].stream # Nobody
  /\ reg' = publish_frame(reg, rtsp[c].stream, c)
  /\ UNCHANGED <<claims, rtsp>>

\* The receiver task reads until its socket fails; nothing ends it with the session.
UdpData(c) ==
  /\ rtsp[c].ear # Nobody
  /\ reg' = publish_frame(reg, rtsp[c].ear, c)
  /\ UNCHANGED <<claims, rtsp>>

RtspStep(c) ==
  \/ \E s \in used :
       Describe(c, s) \/ SetupTcp(c, s) \/ SetupUdp(c, s) \/ Announce(c, s) \/ Record(c, s)
  \/ Play(c) \/ Pause(c) \/ SenderEnds(c) \/ Teardown(c) \/ Disconnect(c)
  \/ RtpVideo(c) \/ RtpAudio(c) \/ UdpData(c)
----------------------------------------------------------------------------
\* An RTP sender runs only for a session that plays, and for a connected one:
\* PAUSE, TEARDOWN and the end of the connection all stop it, in whatever order
\* the requests came (server_session.rs:287-309, 882-887, 917-930).
SenderOnlyWhilePlaying == \A c \in Rtsp : rtsp[c].sender # Nobody => rtsp[c].open /\ rtsp[c].playing

\* A publishing session that sets up UDP is listened to (session.rs:8, "True after
\* ANNOUNCE/RECORD — UDP SETUP should ingest RTP from client.").
UdpSetupIngests ==
  [][\A c \in Rtsp :
       rtsp[c].publishing /\ rtsp[c].stream # Nobody /\ rtsp'[c].udp # rtsp[c].udp =>
         rtsp'[c].udp # "deaf"]_rtsp
=============================================================================
