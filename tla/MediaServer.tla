---------------------------- MODULE MediaServer ----------------------------
(***************************************************************************)
(* The protocol servers around one stream registry: RTSP, RTMP and WebRTC  *)
(* connections, pullers, and the HTTP routes that make and delete streams. *)
(* Each handler is one step; whatever two connections do to each other     *)
(* they do through the registry.                                           *)
(*                                                                         *)
(* `cast` says who takes part in a behaviour, on which streams.  A run     *)
(* over several casts covers every pair of protocols at the cost of pairs. *)
(***************************************************************************)
EXTENDS RtspServer, RtmpServer, WebRtcServer, Pullers

CONSTANT Casts          \* what to explore: who takes part, and which streams they name
Everyone == Rtsp \cup Rtmp \cup Sockets \cup Pullers
ASSUME CastsAssumption == Casts \subseteq [who : SUBSET Everyone, names : SUBSET Streams]

\* Every connection makes up its own publisher id.
ASSUME ActorsAssumption ==
  /\ Rtsp \cap Rtmp = {}
  /\ (Rtsp \cup Rtmp) \cap PublisherIds = {}

VARIABLE cast
vars == <<streams, rtsp, rtmp, webrtc, puller, cast>>

Init ==
  /\ \E x \in Casts : cast = x.who /\ used = x.names
  /\ StreamsInit /\ RtspInit /\ RtmpInit /\ WebRtcInit /\ PullersInit

Next ==
  /\ UNCHANGED cast
  /\ \/ \E c \in Rtsp \cap cast : RtspStep(c) /\ UNCHANGED <<rtmp, webrtc, puller>>
     \/ \E c \in Rtmp \cap cast : RtmpStep(c) /\ UNCHANGED <<rtsp, webrtc, puller>>
     \/ \E w \in Sockets \cap cast : WebRtcStep(w) /\ UNCHANGED <<rtsp, rtmp, puller>>
     \/ \E p \in Pullers \cap cast : PullerStep(p) /\ UNCHANGED <<rtsp, rtmp, webrtc>>
     \/ /\ \E s \in used : CreateStream(s) \/ RemoveStream(s)
        /\ UNCHANGED <<rtsp, rtmp, webrtc, puller>>

Spec == Init /\ [][Next]_vars
----------------------------------------------------------------------------
\* Every variable has its type, and a name that is not registered has left nothing.
TypeOK ==
  /\ reg \in [Streams -> Entries] /\ \A s \in Streams : reg[s].live \/ reg[s] = Vacant
  /\ relies \in [Actors -> SUBSET Streams] /\ lost \subseteq Streams /\ used \subseteq Streams
  /\ rtsp \in [Rtsp -> Conns] /\ rtmp \in [Rtmp -> RtmpConns]
  /\ rtc \in [Sockets -> RtcStates]
  /\ tracks \in [PublisherIds -> Names]
  /\ puller \in [Pullers -> PullerStates]

\* Slots are leases: an actor that was granted one has it until it gives it up or
\* the stream is deleted, and nobody else can end it (stream_hub.rs:103-122).
Lease == INSTANCE StreamLease WITH
  Leases <- Streams, Clients <- Actors, None <- Nobody,
  holder <- [s \in Streams |-> reg[s].slot]
LeaseSpec == Lease!Spec

\* The streams a connection that is still there would give back.
WouldGiveBack(a) ==
  IF a \in Rtsp THEN Mine(rtsp[a])
  ELSE IF a \in Rtmp THEN MineRtmp(rtmp[a])
  ELSE IF a \in PublisherIds /\ rtc[a[1]].made = a[2] THEN {rtc[a[1]].publish} ELSE {}

\* Whoever has a slot will give it back when it ends, or lost it in one of the ways
\* the code has: another ANNOUNCE, publish, play or connect on the connection, a
\* RECORD without a stream, a failed handler, a stop_publish for another stream.  So a
\* stream is never taken by nobody that is there (rtsp/server_session.rs:287-309,
\* rtmp/mod.rs:391-405, webrtc/mod.rs:171-214).
NoDeadHolder ==
  \A s \in Streams :
    reg[s].slot # Nobody /\ s \notin lost => s \in WouldGiveBack(reg[s].slot)
=============================================================================
