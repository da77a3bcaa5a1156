----------------------------- MODULE PlayRelays -----------------------------
(***************************************************************************)
(* WebRTC players of one stream and what its publishers do to them:        *)
(* the table of play relays (src/server/webrtc/play_relay.rs), the relay   *)
(* tasks (src/server/webrtc/player.rs), the route by which a keyframe is   *)
(* asked of the publisher (src/server/webrtc/publish_signaling.rs), and    *)
(* the cleanup that touches all of them (src/server/webrtc/mod.rs).        *)
(*                                                                         *)
(* Route, slot and table have locks of their own, so a cleanup is a step   *)
(* for each; the slot is what Streams has, and a DELETE takes it along.    *)
(***************************************************************************)
EXTENDS Integers, FiniteSets

CONSTANTS
  Broadcasters,  \* WebRTC sessions that publish the stream
  Watchers,      \* WebRTC sessions that play it
  NoSession
ASSUME RelaysAssumption == NoSession \notin Broadcasters \cup Watchers

VARIABLES
  cast,    \* broadcaster -> how far its publish or its cleanup is
  owner,   \* the publisher slot
  there,   \* the stream exists
  air,     \* the stream is Publishing
  route,   \* the session whose channel a keyframe request is sent on
  relay,   \* watcher -> its play session
  sweep,   \* relays listed for a stop and not yet signalled
  astray   \* history: the stream was deleted under a publisher, or somebody who did not
           \* publish it said stop_publish
relayVars == <<cast, owner, there, air, route, relay, sweep, astray>>

Relays ==
  [at : {"idle", "checked", "spawned", "joining", "playing"},
   told : BOOLEAN,      \* the value in its watch channel
   listed : BOOLEAN,    \* in the table
   leaving : BOOLEAN]   \* stop_play_session waits for the task

Quiet == [at |-> "idle", told |-> FALSE, listed |-> FALSE, leaving |-> FALSE]
RelaysInit ==
  /\ cast = [b \in Broadcasters |-> "idle"]
  /\ owner = NoSession /\ there = FALSE /\ air = FALSE /\ route = NoSession
  /\ relay = [w \in Watchers |-> Quiet] /\ sweep = {} /\ astray = FALSE

Casts(b, from, to) == cast[b] = from /\ cast' = [cast EXCEPT ![b] = to]

\* Publishers -------------------------------------------------------------

\* start_publish makes the stream where there is none, takes the slot of it, ...
TakeSlot(b) ==
  /\ owner = NoSession /\ Casts(b, "idle", "held") /\ owner' = b
  /\ there' = TRUE /\ air' = FALSE
  /\ UNCHANGED <<route, relay, sweep, astray>>
Released(b) == IF owner = b THEN NoSession ELSE owner
\* ... and goes on air if the stream is still there, or fails and gives the slot back.
GoOnAir(b) ==
  /\ Casts(b, "held", "live") /\ air' = there
  /\ UNCHANGED <<owner, there, route, relay, sweep, astray>>
SetupFails(b) ==
  /\ Casts(b, "held", "idle") /\ owner' = Released(b)
  /\ UNCHANGED <<there, air, route, relay, sweep, astray>>
\* The route is the stream's: it goes to the last who registers.
RegisterRoute(b) ==
  /\ Casts(b, "live", "routed") /\ route' = b
  /\ UNCHANGED <<owner, there, air, relay, sweep, astray>>
\* A frame puts the stream on air again.
FramePublished(b) ==
  /\ cast[b] = "routed" /\ there /\ air' = TRUE
  /\ UNCHANGED <<cast, owner, there, route, relay, sweep, astray>>

\* DELETE /api/stream takes the slot along, whoever has it; the next to publish makes the
\* stream anew and takes a slot of its own.
DeleteStream ==
  /\ there /\ there' = FALSE /\ owner' = NoSession /\ air' = FALSE
  /\ astray' = (astray \/ \E b \in Broadcasters : cast[b] \in {"held", "live", "routed", "unrouted"})
  /\ UNCHANGED <<cast, route, relay, sweep>>

\* cleanup_publish_session: the route goes by the stream's name, whoever's it is, ...
Unregister_Late(b) ==                                           \* mutant
  /\ \/ /\ Casts(b, "routed", "unrouted") /\ UNCHANGED route
        /\ owner' = Released(b)
     \/ Casts(b, "unrouted", "ending") /\ route' = NoSession /\ UNCHANGED owner
  /\ UNCHANGED <<there, air, relay, sweep, astray>>
Unregister(b) ==
  /\ Casts(b, "routed", "unrouted") /\ route' = NoSession
  /\ UNCHANGED <<owner, there, air, relay, sweep, astray>>
\* ... stop_publish for a stream one does not publish included.
StopForeign(b) ==
  /\ Casts(b, "idle", "foreign") /\ route' = NoSession
  /\ astray' = TRUE /\ UNCHANGED <<owner, there, air, relay, sweep>>
\* Then the slot, and the status where it had it; ...
GiveSlotBack(b) ==
  /\ Casts(b, "unrouted", "ending")
  /\ owner' = Released(b) /\ air' = (owner # b /\ air)
  /\ UNCHANGED <<there, route, relay, sweep, astray>>
\* ... for a stream one does not publish the status alone, unless one publishes another.
NoSlotToGive(b) ==
  /\ Casts(b, "foreign", "ending") /\ air' \in {FALSE, air}
  /\ UNCHANGED <<owner, there, route, relay, sweep, astray>>

\* stop_play_relays_for_stream reads the table, and signals what it read.
Listed == {w \in Watchers : relay[w].listed}
StopRelays(b) ==
  /\ Casts(b, "ending", "idle") /\ sweep' = sweep \cup Listed
  /\ UNCHANGED <<owner, there, air, route, relay, astray>>
\* So does a track that ends while its session goes on.
TrackStops(b) ==
  /\ cast[b] = "routed" /\ air' = FALSE /\ sweep' = sweep \cup Listed
  /\ UNCHANGED <<cast, owner, there, route, relay, astray>>

Becomes(w, session) == relay' = [relay EXCEPT ![w] = session]
RelayOnly == UNCHANGED <<cast, owner, there, air, route, astray>>

signal_play_relay_stop(w) ==
  /\ w \in sweep /\ sweep' = sweep \ {w}
  /\ Becomes(w, IF relay[w].listed THEN [relay[w] EXCEPT !.told = TRUE] ELSE relay[w])
  /\ RelayOnly

\* Players ----------------------------------------------------------------

\* start_play looks at the status first, negotiates, and registers at the end.
AskToPlay(w) ==
  /\ air /\ relay[w] = Quiet /\ Becomes(w, [Quiet EXCEPT !.at = "checked"])
  /\ UNCHANGED sweep /\ RelayOnly
RegisterRelay(w) ==
  /\ relay[w].at = "checked"
  /\ \/ Becomes(w, [Quiet EXCEPT !.at = "spawned", !.listed = TRUE])
     \/ Becomes(w, Quiet)                                       \* the negotiation fails
  /\ UNCHANGED sweep /\ RelayOnly

\* The relay's own end: its guard takes it out of the table.
Ends(w) == Becomes(w, Quiet)

\* It subscribes, waits for the connection for two seconds, and looks for a stop.
Join(w) ==
  /\ relay[w].at = "spawned"
  /\ Ends(w) \/ Becomes(w, [relay[w] EXCEPT !.at = "joining"])
  /\ UNCHANGED sweep /\ RelayOnly
Connect(w) ==
  /\ relay[w].at = "joining"
  /\ \/ Ends(w)
     \/ ~relay[w].told /\ Becomes(w, [relay[w] EXCEPT !.at = "playing"])
  /\ UNCHANGED sweep /\ RelayOnly
\* While it plays the stop is the first thing it looks at, also while it waits.
Notice_WithFrame(w) ==                                          \* mutant
  /\ relay[w].at = "playing" /\ relay[w].told /\ air /\ Ends(w)
  /\ UNCHANGED sweep /\ RelayOnly
Notice(w) ==
  /\ relay[w].at = "playing" /\ relay[w].told /\ Ends(w)
  /\ UNCHANGED sweep /\ RelayOnly
\* Sending fails, or the peer connection closes.
HangsUp(w) ==
  /\ relay[w].at = "playing" /\ Ends(w)
  /\ UNCHANGED sweep /\ RelayOnly

\* stop_play_session signals, waits, and aborts when it waited in vain.
Leave(w) ==
  /\ relay[w].listed /\ ~relay[w].leaving
  /\ Becomes(w, [relay[w] EXCEPT !.told = TRUE, !.leaving = TRUE])
  /\ UNCHANGED sweep /\ RelayOnly
cancel_play_relay(w) ==
  /\ relay[w].leaving /\ Becomes(w, Quiet)
  /\ UNCHANGED sweep /\ RelayOnly

RelayStep(w) == Join(w) \/ Connect(w) \/ Notice(w)
RelaysNext ==
  \/ \E b \in Broadcasters :
       TakeSlot(b) \/ GoOnAir(b) \/ SetupFails(b) \/ RegisterRoute(b) \/ FramePublished(b)
       \/ Unregister(b) \/ StopForeign(b) \/ GiveSlotBack(b) \/ NoSlotToGive(b)
       \/ StopRelays(b) \/ TrackStops(b)
  \/ DeleteStream
  \/ \E w \in Watchers :
       signal_play_relay_stop(w) \/ AskToPlay(w) \/ RegisterRelay(w) \/ HangsUp(w)
       \/ RelayStep(w) \/ Leave(w) \/ cancel_play_relay(w)
----------------------------------------------------------------------------
RelaysTypeOK ==
  /\ cast \in [Broadcasters -> {"idle", "held", "live", "routed", "unrouted", "foreign", "ending"}]
  /\ {owner, route} \subseteq Broadcasters \cup {NoSession} /\ (air => there)
  /\ {there, air} \subseteq BOOLEAN
  /\ relay \in [Watchers -> Relays] /\ sweep \subseteq Watchers

\* A relay that runs is in the table, where a stop can reach it.
NoStrayRelay ==
  \A w \in Watchers : relay[w].listed <=> relay[w].at \in {"spawned", "joining", "playing"}

\* Keyframe requests reach whoever publishes.  A cleanup removes the route by name,
\* whoever's it is; but it does so before it gives the slot back, and while it has the slot
\* nobody else can register (webrtc/mod.rs:187-206, 420; publish_signaling.rs:33-40, 92-99).
\* That argument fails, and the code with it, when a DELETE took the slot away from under a
\* publisher - its cleanup then removes its successor's route - and when stop_publish names
\* a stream that another publishes.
RouteOfHolder == ~astray => \A b \in Broadcasters : cast[b] = "routed" => route = b

\* A relay that was told to stop ends, whatever it was doing (player.rs:260-300, 518-541).
RelaysEnd == \A w \in Watchers : relay[w].told ~> ~relay[w].listed
=============================================================================
