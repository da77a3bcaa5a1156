--------------------------- MODULE PublishSession ---------------------------
(***************************************************************************)
(* Who may write to a stream: the registry of hubs, each hub's publisher   *)
(* slot (src/core/stream_manager.rs, src/core/stream_hub.rs), and the      *)
(* RTMP and WebRTC sessions that take the slot, publish and give it back.  *)
(*                                                                         *)
(* One stream name is modelled.  The registry maps it to at most one hub;  *)
(* removing the stream and publishing again makes a new hub, and hubs are  *)
(* numbered in that order.  Each lock of the code (the registry, a slot, a *)
(* ring, a stream's metadata) is taken for one access at a time, so one    *)
(* access is one step.  acquire_publisher and release_publisher find the   *)
(* hub in one step and use the Arc they hold in the next; a helper that    *)
(* looks the hub up and writes to it once is a single step.                *)
(*                                                                         *)
(* A ring is abstracted to whose frames it holds, the cached SPS/PPS to    *)
(* whose they are.  A WebRTC session's media is read by a task of its own, *)
(* which outlives the session and runs its own cleanup.                    *)
(***************************************************************************)
EXTENDS Integers, FiniteSets

CONSTANTS
  Rtmp, WebRtc,  \* sessions, each with its own publisher id
  Nobody,        \* no publisher, no parameter sets
  MaxHubs        \* bound of the model: hubs made for the name

ASSUME SessionsAssumption == Rtmp \cap WebRtc = {} /\ Nobody \notin Rtmp \cup WebRtc
ASSUME MaxHubsAssumption == MaxHubs \in Nat \ {0}

Sessions == Rtmp \cup WebRtc
Track(w) == <<"track", w>>
Tracks == {Track(w) : w \in WebRtc}
Tasks == Sessions \cup Tracks
ASSUME TracksAssumption == Sessions \cap Tracks = {}
Hubs == 1 .. MaxHubs
Stray == "stray"          \* marks frames pushed by a session that held no slot

VARIABLES
  hub,     \* the hub the registry has for the name, 0 for none
  made,    \* hubs made so far
  slot,    \* hub -> its publisher
  media,   \* hub -> whose frames its ring holds
  config,  \* hub -> whose SPS/PPS are cached
  status,  \* hub -> stream.status
  pc, arc, \* task -> where it is, and the hub it holds an Arc to (0 for none)
  owns,    \* history: session -> the hub whose slot it acquired, until it lets go
  header   \* session -> it sent its parameter sets since it acquired the slot

hubs == <<hub, made, slot, media, config, status>>
vars == <<hubs, pc, arc, owns, header>>

SessionOf(t) == CHOOSE s \in Sessions : t \in {s, Track(s)}
----------------------------------------------------------------------------
Init ==
  /\ hub = 0 /\ made = 0
  /\ slot = [h \in Hubs |-> Nobody]
  /\ media = [h \in Hubs |-> {}]
  /\ config = [h \in Hubs |-> Nobody]
  /\ status = [h \in Hubs |-> "Created"]
  /\ pc = [t \in Tasks |-> "idle"]
  /\ arc = [t \in Tasks |-> 0]
  /\ owns = [s \in Sessions |-> 0]
  /\ header = [s \in Sessions |-> FALSE]

Move(t, from, to) == pc[t] = from /\ pc' = [pc EXCEPT ![t] = to]

\* create_stream: a new hub unless the name has one.  RTMP handles a second
\* publish command on a connection that is publishing already the same way.
Create_Revives(s) ==                            \* mutant: a removed hub comes back
  /\ \/ Move(s, "idle", "find")
     \/ s \in Rtmp /\ Move(s, "live", "find")
  /\ IF hub = 0
     THEN made < MaxHubs /\ made' = made + 1 /\ hub' = 1
     ELSE UNCHANGED <<made, hub>>
  /\ UNCHANGED <<slot, media, config, status, arc, owns, header>>
Create(s) ==
  /\ \/ Move(s, "idle", "find")
     \/ s \in Rtmp /\ Move(s, "live", "find")
  /\ IF hub = 0
     THEN made < MaxHubs /\ made' = made + 1 /\ hub' = made + 1
     ELSE UNCHANGED <<made, hub>>
  /\ UNCHANGED <<slot, media, config, status, arc, owns, header>>

\* A rejected RTMP publish leaves the connection as it was.
Rejected(s) == IF owns[s] # 0 THEN "live" ELSE "idle"

\* StreamManager::acquire_publisher looks the hub up ...
Find(s) ==
  /\ Move(s, "find", IF hub = 0 THEN Rejected(s) ELSE "take")
  /\ arc' = [arc EXCEPT ![s] = hub]
  /\ UNCHANGED <<hubs, owns, header>>

\* ... and StreamHub::acquire_publisher takes a slot that is free or its own.
MayTake_Always(s) == TRUE                                       \* mutant
MayTake(s) == slot[arc[s]] \in {Nobody, s}

Take(s) ==
  /\ Move(s, "take", IF MayTake(s) THEN "acquire.ring" ELSE Rejected(s))
  /\ arc' = [arc EXCEPT ![s] = 0]
  /\ IF MayTake(s)
     THEN /\ slot' = [slot EXCEPT ![arc[s]] = s]
          /\ owns' = [owns EXCEPT ![s] = arc[s]]
          /\ header' = [header EXCEPT ![s] = FALSE]
     ELSE UNCHANGED <<slot, owns, header>>
  /\ UNCHANGED <<hub, made, media, config, status>>

\* reset_stream_media on whatever hub the name has by now: first the ring,
\* then, on the hub found for the ring, the parameter sets.
ResetRing_Nothing(t, from, wiped, none) ==                      \* mutant
  /\ Move(t, from, IF hub = 0 THEN none ELSE wiped)
  /\ arc' = [arc EXCEPT ![t] = hub]
  /\ UNCHANGED <<hubs, owns, header>>
ResetRing(t, from, wiped, none) ==
  /\ Move(t, from, IF hub = 0 THEN none ELSE wiped)
  /\ arc' = [arc EXCEPT ![t] = hub]
  /\ media' = IF hub = 0 THEN media ELSE [media EXCEPT ![hub] = {}]
  /\ UNCHANGED <<hub, made, slot, config, status, owns, header>>

ResetConfig(t, from, to) ==
  /\ Move(t, from, to)
  /\ config' = [config EXCEPT ![arc[t]] = Nobody]
  /\ arc' = [arc EXCEPT ![t] = 0]
  /\ UNCHANGED <<hub, made, slot, media, status, owns, header>>

\* set_status by name.
SetStatus(t, from, to, value) ==
  /\ Move(t, from, to)
  /\ status' = IF hub = 0 THEN status ELSE [status EXCEPT ![hub] = value]
  /\ UNCHANGED <<hub, made, slot, media, config, arc, owns, header>>

\* The rest of the RTMP publish command and of the WebRTC start_publish.
Acquired(s) ==
  \/ ResetRing(s, "acquire.ring", "acquire.config", "acquire.status")
  \/ ResetConfig(s, "acquire.config", "acquire.status")
  \/ SetStatus(s, "acquire.status",
               IF s \in Rtmp THEN "respond" ELSE "sdp", "Unpublished")
  \/ SetStatus(s, "publishing", "live", "Publishing")

\* RTMP writes its response.  When that fails, or the handling of any message of
\* a live connection does, handle_connection returns without releasing the slot;
\* a publish command for another stream forgets this one's slot as well.
Respond(s) ==
  /\ \/ Move(s, "respond", "publishing")
     \/ Move(s, "respond", "leaked")
     \/ s \in Rtmp /\ Move(s, "live", "leaked")
  /\ UNCHANGED <<hubs, arc, owns, header>>

\* The SDP handshake of a WebRTC publisher fails: cleanup_failed_publish_setup.
FailSetup(w) ==
  /\ w \in WebRtc /\ Move(w, "publishing", "fail")
  /\ UNCHANGED <<hubs, arc, owns, header>>

\* set_stream_sps_pps by name: an RTMP sequence header, a WebRTC offer's sprop.
SetConfig(s, from, to) ==
  /\ Move(s, from, to)
  /\ config' = IF hub = 0 THEN config ELSE [config EXCEPT ![hub] = s]
  /\ header' = [header EXCEPT ![s] = hub # 0]
  /\ UNCHANGED <<hub, made, slot, media, status, arc, owns>>

SequenceHeader(s) == s \in Rtmp /\ ~header[s] /\ SetConfig(s, "live", "live")

Offer(s) ==
  \/ SetConfig(s, "sdp", "publishing")
  \/ Move(s, "sdp", "publishing") /\ UNCHANGED <<hubs, arc, owns, header>>

\* on_track: the task that reads the session's media.
StartTrack(w) ==
  /\ w \in WebRtc /\ pc[w] = "live"
  /\ Move(Track(w), "idle", "live")
  /\ UNCHANGED <<hubs, arc, owns, header>>

\* publish_frame: into the hub the name has, whoever holds its slot, ...
PublishFrame(t) ==
  /\ t \in Rtmp \cup Tracks
  /\ Move(t, "live", "heal")
  /\ LET s == SessionOf(t)
         mark == IF owns[s] = hub THEN s ELSE Stray
     IN  media' = IF hub = 0 THEN media ELSE [media EXCEPT ![hub] = @ \cup {mark}]
  /\ UNCHANGED <<hub, made, slot, config, status, arc, owns, header>>

\* ... then Created or Unpublished becomes Publishing.
HealStatus_CreatedOnly(t) ==                                    \* mutant
  /\ Move(t, "heal", "live")
  /\ status' = IF hub # 0 /\ status[hub] = "Created"
               THEN [status EXCEPT ![hub] = "Publishing"] ELSE status
  /\ UNCHANGED <<hub, made, slot, media, config, arc, owns, header>>
HealStatus(t) ==
  /\ Move(t, "heal", "live")
  /\ status' = IF hub # 0 /\ status[hub] \in {"Created", "Unpublished"}
               THEN [status EXCEPT ![hub] = "Publishing"] ELSE status
  /\ UNCHANGED <<hub, made, slot, media, config, arc, owns, header>>
----------------------------------------------------------------------------
\* The publisher stops: RTMP's release_publish_connection, after which the
\* connection may publish again under its old id, or WebRTC's
\* cleanup_publish_session, which a track may outlive or never precede.
Disconnect(s) ==
  /\ Move(s, "live", "release")
  /\ UNCHANGED <<hubs, arc, owns, header>>

Released(s) == IF s \in Rtmp THEN "idle" ELSE "end.ring"

\* StreamManager::release_publisher, likewise in two steps.
FindHeld(s, from, found, none) ==
  /\ Move(s, from, IF hub = 0 THEN none ELSE found)
  /\ arc' = [arc EXCEPT ![s] = hub]
  /\ owns' = IF hub = 0 THEN [owns EXCEPT ![s] = 0] ELSE owns
  /\ UNCHANGED <<hubs, header>>

\* StreamHub::release_publisher frees the slot only for its holder.
MayFree_Always(s) == TRUE                                       \* mutant
MayFree_Never(s) == FALSE                                       \* mutant
MayFree(s) == slot[arc[s]] = s

Free(s, from, freed, other) ==
  /\ Move(s, from, IF MayFree(s) THEN freed ELSE other)
  /\ slot' = IF MayFree(s) THEN [slot EXCEPT ![arc[s]] = Nobody] ELSE slot
  /\ owns' = [owns EXCEPT ![s] = 0]
  /\ arc' = [arc EXCEPT ![s] = 0]
  /\ header' = [header EXCEPT ![s] = FALSE]
  /\ UNCHANGED <<hub, made, media, config, status>>

Release(s) ==
  \/ FindHeld(s, "release", "free", Released(s))
  \/ Free(s, "free", "release.ring", Released(s))
  \/ FindHeld(s, "fail", "fail.free", "gone")
  \/ Free(s, "fail.free", "end.ring", "gone")

Cleanup_NoStatus(s) ==                                          \* mutant
  \/ ResetRing(s, "release.ring", "release.config", Released(s))
  \/ ResetConfig(s, "release.config", Released(s))
  \/ ResetRing(s, "end.ring", "end.config", "gone")
  \/ ResetConfig(s, "end.config", "gone")
Cleanup(s) ==
  \/ ResetRing(s, "release.ring", "release.config", "release.status")
  \/ ResetConfig(s, "release.config", "release.status")
  \/ SetStatus(s, "release.status", Released(s), "Unpublished")
  \/ ResetRing(s, "end.ring", "end.config", "gone")
  \/ ResetConfig(s, "end.config", "gone")

\* The track ends, now or long after the session: set_unpublished and
\* end_publish_media, without a look at who holds the slot by then.
TrackEnd(t) ==
  \/ SetStatus(t, "live", "end.ring", "Unpublished")
  \/ ResetRing(t, "end.ring", "end.config", "gone")
  \/ ResetConfig(t, "end.config", "gone")

\* DELETE /api/stream/<name>: remove_stream, whoever uses the hub.
RemoveStream ==
  /\ hub # 0
  /\ hub' = 0
  /\ UNCHANGED <<made, slot, media, config, status, pc, arc, owns, header>>

Session(s) ==
  \/ Create(s) \/ Find(s) \/ Take(s) \/ Acquired(s) \/ Respond(s)
  \/ SequenceHeader(s) \/ Offer(s) \/ StartTrack(s) \/ FailSetup(s)
  \/ Disconnect(s) \/ Release(s) \/ Cleanup(s)

Next ==
  \/ \E s \in Sessions : Session(s)
  \/ \E t \in Tasks : PublishFrame(t) \/ HealStatus(t)
  \/ \E t \in Tracks : TrackEnd(t)
  \/ RemoveStream

\* A connected publisher keeps sending; publish_frame, once called, returns.
Spec ==
  /\ Init /\ [][Next]_vars
  /\ \A t \in Tasks : WF_vars(PublishFrame(t)) /\ WF_vars(HealStatus(t))
----------------------------------------------------------------------------
Labels ==
  {"idle", "find", "take", "acquire.ring", "acquire.config", "acquire.status", "respond",
   "sdp", "publishing", "live", "heal", "leaked", "release", "free", "fail", "fail.free",
   "release.ring", "release.config", "release.status", "end.ring", "end.config", "gone"}

\* Every variable has its type, and the registry names the hub made last.
TypeOK ==
  /\ made \in 0 .. MaxHubs /\ hub \in {0, made}
  /\ slot \in [Hubs -> Sessions \cup {Nobody}]
  /\ media \in [Hubs -> SUBSET (Sessions \cup {Stray})]
  /\ config \in [Hubs -> Sessions \cup {Nobody}]
  /\ status \in [Hubs -> {"Created", "Unpublished", "Publishing"}]
  /\ pc \in [Tasks -> Labels] /\ arc \in [Tasks -> 0 .. MaxHubs]
  /\ owns \in [Sessions -> 0 .. MaxHubs] /\ header \in [Sessions -> BOOLEAN]

\* A session that acquired a hub's slot has it until it lets go itself, whatever
\* is removed, recreated, released or rejected meanwhile; so no two sessions
\* ever take themselves for the publisher of one hub (stream_hub.rs:103-122).
SlotHeld == \A s \in Sessions : owns[s] # 0 => slot[owns[s]] = s

\* Hubs' slots are leases: granted when free, ended by whoever has them and by nothing
\* else, whatever the registry does with the name (stream_hub.rs:103-122).
Lease == INSTANCE StreamLease WITH
  Leases <- Hubs, Clients <- Sessions, None <- Nobody,
  holder <- slot, relies <- [s \in Sessions |-> {owns[s]} \ {0}]
LeaseSpec == Lease!Spec

\* No session that ended in order is still the publisher of the stream, which
\* would keep every later one out (rtmp/mod.rs:391-405, webrtc/mod.rs:187-206).
NoDeadHolder == hub # 0 => \A s \in Sessions : slot[hub] = s => pc[s] \notin {"idle", "gone"}

\* Past its reset the publisher's ring holds no frame of an earlier publisher;
\* what is not its own was pushed later, by a task that held no slot, because
\* publish_frame does not ask who publishes (stream_manager.rs:232-239, 449-469).
Streaming == {"acquire.config", "acquire.status", "respond", "sdp", "publishing",
              "live", "heal", "leaked"}
NoForeignMedia ==
  \A s \in Sessions :
    hub # 0 /\ owns[s] = hub /\ pc[s] \in Streaming => media[hub] \subseteq {s, Stray}

\* When all that published the stream has ended in order, it does not go on to
\* show as Publishing, in whatever order the endings interleaved.  A stream that
\* was removed under a publisher is another matter: its frames revive the next.
IdleUnpublished ==
  made = 1 /\ hub # 0 /\ (\A t \in Tasks : pc[t] \in {"idle", "gone"}) =>
    status[hub] # "Publishing"

\* A predecessor's late set_unpublished does not last: the frames of the
\* publisher that streams now restore Publishing (stream_manager.rs:481-489).
Streams(s) == hub # 0 /\ owns[s] = hub /\ pc[s] \in {"live", "heal"}
StatusHeals ==
  \A s \in Rtmp : Streams(s) ~> (~Streams(s) \/ (hub # 0 /\ status[hub] = "Publishing"))

\* A streaming publisher's parameter sets, sent once, stay cached; a reset is for
\* a session that ended (stream_manager.rs:423, "Clear the frame ring and cached
\* SPS/PPS after a publisher session ends").
ParameterSetsKept ==
  \A s \in Sessions : Streams(s) /\ header[s] => config[hub] = s
=============================================================================
