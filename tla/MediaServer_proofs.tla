------------------------- MODULE MediaServer_proofs -------------------------
(***************************************************************************)
(* For any number of RTSP, RTMP and WebRTC connections, of pullers and of  *)
(* streams: slots are leases, no stream is held by nobody that is there,   *)
(* and none is on air without a publisher unless a stray put it there.     *)
(*                                                                         *)
(* Every handler has one of three effects on the registry: it leaves the   *)
(* slots alone, is granted one, or gives one back.  First what the helpers *)
(* of the registry do, then the invariant from these effects, then that    *)
(* each handler has one of them.                                           *)
(***************************************************************************)
EXTENDS MediaServer, TLAPS

----------------------------------------------------------------------------
\* What each registry helper does to slots and statuses, for any registry.  A handler's
\* proof composes these facts in the order of its calls.

\* A name without a hub has left nothing, and nobody's stream is on air only astray.
EntryOK(entry) ==
  /\ entry \in Entries
  /\ entry.live \/ entry = Vacant
  /\ entry.status = "Publishing" /\ entry.slot = Nobody => entry.stray
RegOK(r) == r = [s \in Streams |-> r[s]] /\ \A s \in Streams : EntryOK(r[s])

\* What a handler may do to the slots: nothing, grant one, take one back.
Same(r, r2) == RegOK(r2) /\ \A s \in Streams : r2[s].slot = r[s].slot
Granted(r, r2, a, s) ==
  /\ RegOK(r2) /\ r[s].slot \in {Nobody, a} /\ r2[s].slot = a
  /\ \A x \in Streams \ {s} : r2[x].slot = r[x].slot
Returned(r, r2, a, s) ==
  /\ RegOK(r2) /\ r2[s].slot = IF r[s].slot = a THEN Nobody ELSE r[s].slot
  /\ \A x \in Streams \ {s} : r2[x].slot = r[x].slot

With(r, s, entry) == [r EXCEPT ![s] = entry]

\* Changing one entry for the better keeps the registry.
LEMMA OneEntry ==
  ASSUME NEW r, RegOK(r), NEW s \in Streams, NEW entry, EntryOK(entry)
  PROVE  /\ RegOK(With(r, s, entry)) /\ With(r, s, entry)[s] = entry
         /\ \A x \in Streams \ {s} : With(r, s, entry)[x] = r[x]
BY DEF RegOK, With

LEMMA VacantOK == EntryOK(Vacant) /\ EntryOK([Vacant EXCEPT !.live = TRUE])
BY DEF EntryOK, Entries, Vacant, Statuses

\* create_stream leaves every slot as it is, and the stream registered.
LEMMA CreateSame ==
  ASSUME NEW r, RegOK(r), NEW s \in Streams
  PROVE  Same(r, create_stream(r, s)) /\ create_stream(r, s)[s].live
<1>1. CASE r[s].live
  BY <1>1 DEF Same, create_stream
<1>2. CASE ~r[s].live
  <2> DEFINE entry == [Vacant EXCEPT !.live = TRUE]
  <2>1. r[s] = Vacant /\ entry.slot = Vacant.slot /\ entry.live
    BY <1>2 DEF RegOK, EntryOK, Vacant
  <2>2. EntryOK(entry)
    BY VacantOK
  <2>3. create_stream(r, s) = With(r, s, entry)
    BY <1>2 DEF create_stream, With
  <2> HIDE DEF entry
  <2> QED
    BY <2>1, <2>2, <2>3, OneEntry DEF Same
<1> QED
  BY <1>1, <1>2

\* Setting a status, of a stream there is, leaves its slot.
LEMMA SetStatusSame ==
  ASSUME NEW r, RegOK(r), NEW s \in Streams,
         NEW value \in {"Unpublished", "Stopped"}
  PROVE  Same(r, set_status(r, s, value)) /\ (r[s].live => set_status(r, s, value)[s].live)
<1>1. CASE ~r[s].live
  BY <1>1 DEF Same, set_status
<1>2. CASE r[s].live
  <2> DEFINE entry == [r[s] EXCEPT !.status = value]
  <2>1. EntryOK(entry) /\ entry.slot = r[s].slot /\ entry.live
    BY <1>2 DEF RegOK, EntryOK, Entries, Statuses
  <2>2. set_status(r, s, value) = With(r, s, entry)
    BY <1>2 DEF set_status, With, RegOK
  <2> HIDE DEF entry
  <2> QED
    BY <1>2, <2>1, <2>2, OneEntry DEF Same
<1> QED
  BY <1>1, <1>2

\* Who goes on air without the slot is a stray.
LEMMA OnAirSame ==
  ASSUME NEW r, RegOK(r), NEW s \in Streams, r[s].live, NEW a \in Actors
  PROVE  Same(r, OnAir(r, s, a))
<1> DEFINE entry == [r[s] EXCEPT !.status = "Publishing", !.stray = @ \/ r[s].slot # a]
<1>1. EntryOK(entry) /\ entry.slot = r[s].slot
  BY ZenonT(60), NobodyAssumption DEF RegOK, EntryOK, Entries, Statuses
<1>2. OnAir(r, s, a) = With(r, s, entry)
  BY DEF OnAir, With, RegOK
<1> HIDE DEF entry
<1> QED
  BY <1>1, <1>2, OneEntry DEF Same

LEMMA SetPublishingSame ==
  ASSUME NEW r, RegOK(r), NEW s \in Streams, NEW a \in Actors
  PROVE  Same(r, set_publishing(r, s, a)) /\ Same(r, publish_frame(r, s, a))
BY OnAirSame DEF set_publishing, publish_frame, Same

\* acquire_publisher, once its own condition holds, grants the slot.
LEMMA AcquireGrants ==
  ASSUME NEW r, RegOK(r), NEW s \in Streams, NEW a \in Actors, CanAcquire(r, s, a)
  PROVE  Granted(r, acquire_publisher(r, s, a), a, s) /\ acquire_publisher(r, s, a)[s].live
<1> DEFINE entry == [r[s] EXCEPT !.slot = a, !.stray = FALSE]
<1>1. EntryOK(entry) /\ entry.slot = a /\ entry.live
  BY NobodyAssumption DEF CanAcquire, RegOK, EntryOK, Entries
<1>2. acquire_publisher(r, s, a) = With(r, s, entry)
  BY DEF acquire_publisher, With, RegOK
<1>3. r[s].slot \in {Nobody, a}
  BY DEF CanAcquire
<1> HIDE DEF entry
<1> QED
  BY <1>1, <1>2, <1>3, OneEntry DEF Granted

\* release_publisher takes the slot back from its holder only, and off air.
LEMMA ReleaseReturns ==
  ASSUME NEW r, RegOK(r), NEW s \in Streams, NEW a \in Actors
  PROVE  Returned(r, release_publisher(r, s, a), a, s)
<1>1. CASE Holds(r, s, a)
  <2>1. EntryOK(Freed(r[s])) /\ Freed(r[s]).slot = Nobody
    BY <1>1 DEF Freed, Holds, RegOK, EntryOK, Entries, Statuses
  <2>2. release_publisher(r, s, a) = With(r, s, Freed(r[s]))
    BY <1>1 DEF release_publisher, With
  <2> QED
    BY <1>1, <2>1, <2>2, OneEntry DEF Returned, Holds
<1>2. CASE ~Holds(r, s, a)
  <2>1. r[s].slot # a
    BY <1>2, NobodyAssumption DEF Holds, RegOK, EntryOK, Vacant
  <2> QED
    BY <1>2, <2>1 DEF release_publisher, Returned
<1> QED
  BY <1>1, <1>2

\* remove_stream takes it back from whoever has it.
LEMMA RemoveFrees ==
  ASSUME NEW r, RegOK(r), NEW s \in Streams
  PROVE  /\ RegOK(remove_stream(r, s)) /\ remove_stream(r, s)[s].slot = Nobody
         /\ \A x \in Streams \ {s} : remove_stream(r, s)[x].slot = r[x].slot
<1>1. remove_stream(r, s) = With(r, s, Vacant) /\ Vacant.slot = Nobody
  BY DEF remove_stream, Vacant, With
<1> QED
  BY <1>1, VacantOK, OneEntry

\* Calls of one handler, one after the other.
LEMMA SameTrans ==
  ASSUME NEW r, NEW r2, NEW r3, NEW s \in Streams, NEW a
  PROVE  /\ Same(r, r2) /\ Same(r2, r3) => Same(r, r3)
         /\ Same(r, r2) /\ Granted(r2, r3, a, s) => Granted(r, r3, a, s)
         /\ Granted(r, r2, a, s) /\ Same(r2, r3) => Granted(r, r3, a, s)
BY DEF Same, Granted

----------------------------------------------------------------------------

\* What a publisher id that was not given out yet relies on: nothing.
FreshIds ==
  \A w \in Sockets : \A n \in 1 .. MaxPublish :
    n > rtc[w].made => relies[<<w, n>>] = {}

\* A session that publishes has its id, and no publish command that waits to go on.
AgainIdle ==
  \A w \in Sockets :
    rtc[w].publish # Nobody => rtc[w].made >= 1 /\ rtc[w].again = Nobody

\* NoDeadHolder, one actor at a time.
HeldByLive ==
  \A s \in Streams, a \in Actors :
    reg[s].slot = a /\ s \notin lost => s \in WouldGiveBack(a)

\* The slots are as they were, and what nobody would give back any more is lost.
Quiet ==
  /\ Same(reg, reg') /\ relies' = relies /\ lost \subseteq lost'
  /\ \A b \in Actors : WouldGiveBack(b) \subseteq WouldGiveBack(b)' \cup lost' \cup {Nobody}

\* a got the slot of s, and gives it back later or has lost it.
Gets(a, s) ==
  /\ Granted(reg, reg', a, s) /\ relies' = [relies EXCEPT ![a] = @ \cup {s}]
  /\ lost \subseteq lost' \cup {s} /\ s \in WouldGiveBack(a)' \cup lost'
  /\ \A b \in Actors :
       WouldGiveBack(b) \subseteq WouldGiveBack(b)' \cup lost' \cup {s, Nobody}

\* a gave back the slot of s, if it had it.
Returns(a, s) ==
  /\ Returned(reg, reg', a, s) /\ relies' = [relies EXCEPT ![a] = @ \ {s}]
  /\ lost \subseteq lost'
  /\ WouldGiveBack(a) \subseteq WouldGiveBack(a)' \cup lost' \cup {s, Nobody}
  /\ \A b \in Actors \ {a} :
       WouldGiveBack(b) \subseteq WouldGiveBack(b)' \cup lost' \cup {Nobody}

Effect ==
  /\ lost' \in SUBSET Streams /\ used' = used
  /\ Quiet \/ \E a \in Actors, s \in Streams : Gets(a, s) \/ Returns(a, s)

\* What the registry's variables keep.
RegInv ==
  /\ RegOK(reg) /\ relies \in [Actors -> SUBSET Streams] /\ lost \in SUBSET Streams
  /\ used \in SUBSET Streams /\ HeldByLive

LEMMA EffectKeeps == ASSUME RegInv, Effect PROVE RegInv'
<1>1. CASE Quiet
  <2>1. ASSUME NEW s \in Streams, NEW b \in Actors, reg'[s].slot = b, s \notin lost'
        PROVE  s \in WouldGiveBack(b)'
    <3>1. s \in WouldGiveBack(b)
      BY <1>1, <2>1 DEF Quiet, Same, RegInv, HeldByLive
    <3> QED
      BY <1>1, <2>1, <3>1, NobodyAssumption DEF Quiet, Effect
  <2>2. HeldByLive'
    BY <2>1 DEF HeldByLive
  <2> QED
    BY <1>1, <2>2 DEF RegInv, Effect, Quiet, Same
<1>2. ASSUME NEW a \in Actors, NEW s \in Streams, Gets(a, s) PROVE RegInv'
  <2>1. ASSUME NEW x \in Streams, NEW b \in Actors, reg'[x].slot = b, x \notin lost'
        PROVE  x \in WouldGiveBack(b)'
    <3>1. CASE x = s
      BY <1>2, <2>1, <3>1 DEF Gets, Granted
    <3>2. CASE x # s
      <4>1. x \in WouldGiveBack(b)
        BY <1>2, <2>1, <3>2 DEF Gets, Granted, RegInv, HeldByLive
      <4> QED
        BY <1>2, <2>1, <3>2, <4>1, NobodyAssumption DEF Gets, Effect
    <3> QED
      BY <3>1, <3>2
  <2>2. HeldByLive'
    BY <2>1 DEF HeldByLive
  <2> QED
    BY <1>2, <2>2 DEF RegInv, Effect, Gets, Granted
<1>3. ASSUME NEW a \in Actors, NEW s \in Streams, Returns(a, s) PROVE RegInv'
  <2>1. ASSUME NEW x \in Streams, NEW b \in Actors, reg'[x].slot = b, x \notin lost'
        PROVE  x \in WouldGiveBack(b)'
    <3>1. reg[x].slot = b /\ (x = s => b # a)
      BY <1>3, <2>1, NobodyAssumption DEF Returns, Returned
    <3>2. x \in WouldGiveBack(b)
      BY <1>3, <2>1, <3>1 DEF Returns, RegInv, HeldByLive
    <3> QED
      BY <1>3, <2>1, <3>1, <3>2, NobodyAssumption DEF Returns, Effect
  <2>2. HeldByLive'
    BY <2>1 DEF HeldByLive
  <2> QED
    BY <1>3, <2>2 DEF RegInv, Effect, Returns, Returned
<1> QED
  BY <1>1, <1>2, <1>3 DEF Effect

\* The same effects are steps of the lease specification.
holder == [s \in Streams |-> reg[s].slot]

LEMMA EffectLease ==
  ASSUME RegInv, Effect
  PROVE  Lease!Next \/ UNCHANGED <<holder, relies>>
<1>1. CASE Quiet
  BY <1>1 DEF Quiet, Same, holder
<1>2. ASSUME NEW a \in Actors, NEW s \in Streams, Gets(a, s) PROVE Lease!Next
  <2>1. holder[s] \in {Nobody, a} /\ holder' = [holder EXCEPT ![s] = a]
    BY <1>2 DEF Gets, Granted, holder
  <2>2. Lease!Grant(a, s)
    BY <1>2, <2>1 DEF Gets, holder, Lease!Grant
  <2> QED
    BY <2>2 DEF Lease!Next
<1>3. ASSUME NEW a \in Actors, NEW s \in Streams, Returns(a, s) PROVE Lease!Next
  <2>1. relies' = [relies EXCEPT ![a] = @ \ {s}]
    BY <1>3 DEF Returns
  <2>2. CASE reg[s].slot = a
    <3>1. holder[s] = a /\ holder' = [holder EXCEPT ![s] = Nobody]
      BY <1>3, <2>2 DEF Returns, Returned, holder
    <3>2. Lease!GiveUp(a, s)
      BY <2>1, <3>1 DEF holder, Lease!GiveUp
    <3> QED
      BY <3>2 DEF Lease!Next
  <2>3. CASE reg[s].slot # a
    <3>1. UNCHANGED holder
      BY <1>3, <2>3 DEF Returns, Returned, holder
    <3>2. relies[a] \ {s} \in SUBSET relies[a]
      OBVIOUS
    <3>3. Lease!Forget(a)
      BY <2>1, <3>1, <3>2 DEF holder, Lease!Forget
    <3> QED
      BY <3>3 DEF Lease!Next
  <2> QED
    BY <2>2, <2>3
<1> QED
  BY <1>1, <1>2, <1>3 DEF Effect
-----------------------------------------------------------------------------
\* RTSP.
RtspState == rtsp \in [Rtsp -> Conns] /\ SenderOnlyWhilePlaying
NotRtsp == <<rtmp, webrtc, puller, cast>>

SenderOK(conn) == conn.sender # Nobody => conn.open /\ conn.playing

LEMMA RtspBecomes ==
  ASSUME RtspState, NEW c \in Rtsp, UNCHANGED NotRtsp,
         NEW conn \in Conns, SenderOK(conn), Becomes(c, conn)
  PROVE  /\ RtspState'
         /\ WouldGiveBack(c) = Mine(rtsp[c]) /\ WouldGiveBack(c)' = Mine(conn)
         /\ \A b \in Actors \ {c} : WouldGiveBack(b)' = WouldGiveBack(b)
<1>1. rtsp'[c] = conn /\ \A d \in Rtsp : d # c => rtsp'[d] = rtsp[d]
  BY DEF Becomes, RtspState
<1>2. rtsp' \in [Rtsp -> Conns]
  BY DEF Becomes, RtspState
<1>3. SenderOnlyWhilePlaying'
  BY <1>1 DEF SenderOnlyWhilePlaying, SenderOK, RtspState
<1>4. WouldGiveBack(c) = Mine(rtsp[c]) /\ WouldGiveBack(c)' = Mine(conn)
  BY <1>1 DEF WouldGiveBack
<1>5. ASSUME NEW b \in Actors, b # c PROVE WouldGiveBack(b)' = WouldGiveBack(b)
  BY <1>1, <1>5 DEF WouldGiveBack, NotRtsp, webrtc
<1> QED
  BY <1>2, <1>3, <1>4, <1>5 DEF RtspState

\* A request that leaves the registry's slots alone, and what the session would give back.
LEMMA RtspQuiet ==
  ASSUME RegInv, RtspState, NEW c \in Rtsp, UNCHANGED NotRtsp,
         NEW conn \in Conns, SenderOK(conn), Becomes(c, conn),
         Same(reg, reg'), UNCHANGED claims, Mine(rtsp[c]) \subseteq Mine(conn)
  PROVE  RtspState' /\ Effect
<1>1. WouldGiveBack(c) \ WouldGiveBack(c)' \subseteq {}
  BY RtspBecomes
<1> QED
  BY <1>1, RtspBecomes DEF Effect, Quiet, claims, RegInv

LEMMA RegSame == ASSUME RegInv, UNCHANGED streams PROVE Same(reg, reg') /\ UNCHANGED claims
BY DEF RegInv, Same, streams

LEMMA NamedStream ==
  ASSUME NEW conn \in Conns, NEW s \in Streams
  PROVE  Named(conn, s) \in Streams
BY DEF Named, Conns, Names

LEMMA ListenOK ==
  ASSUME NEW conn \in Conns
  PROVE  /\ Listen(conn) \in Conns /\ Mine(Listen(conn)) = Mine(conn)
         /\ SenderOK(conn) => SenderOK(Listen(conn))
BY ZenonT(60) DEF Listen, Conns, Mine, SenderOK, Names

\* DESCRIBE, SETUP, PLAY, PAUSE and the end of a sender touch no slot.
LEMMA RtspSetup ==
  ASSUME RegInv, RtspState, NEW c \in Rtsp, UNCHANGED NotRtsp, NEW s \in Streams,
         Describe(c, s) \/ SetupTcp(c, s) \/ SetupUdp(c, s)
  PROVE  RtspState' /\ Effect
<1>0. rtsp[c] \in Conns /\ SenderOK(rtsp[c])
  BY DEF RtspState, SenderOnlyWhilePlaying, SenderOK
<1>1. ASSUME NEW old \in Conns, SenderOK(old), NEW mode \in {"tcp", "udp"}
      PROVE  LET conn == [old EXCEPT !.stream = Named(old, s), !.mode = mode]
             IN  conn \in Conns /\ SenderOK(conn) /\ Mine(old) \subseteq Mine(conn)
  BY <1>1, NamedStream DEF Conns, SenderOK, Mine, Named, Names
<1>2. CASE Describe(c, s)
  <2> DEFINE conn == [rtsp[c] EXCEPT !.stream = Named(rtsp[c], s)]
  <2>1. conn \in Conns /\ SenderOK(conn) /\ Mine(rtsp[c]) \subseteq Mine(conn)
    BY <1>0, NamedStream DEF Conns, SenderOK, Mine, Named, Names
  <2>2. Becomes(c, conn) /\ UNCHANGED streams
    BY <1>2 DEF Describe
  <2> HIDE DEF conn
  <2> QED
    BY <2>1, <2>2, RtspQuiet, RegSame
<1>3. CASE SetupTcp(c, s)
  <2> DEFINE conn == [rtsp[c] EXCEPT !.stream = Named(rtsp[c], s), !.mode = "tcp"]
  <2>1. conn \in Conns /\ SenderOK(conn) /\ Mine(rtsp[c]) \subseteq Mine(conn)
    BY <1>0, <1>1
  <2>2. Becomes(c, conn) /\ UNCHANGED streams
    BY <1>3 DEF SetupTcp
  <2> HIDE DEF conn
  <2> QED
    BY <2>1, <2>2, RtspQuiet, RegSame
<1>4. CASE SetupUdp(c, s)
  <2> DEFINE fresh == [rtsp[c] EXCEPT !.udp = "deaf", !.mode = "udp"]
             heard == IF fresh.publishing THEN Listen(fresh) ELSE fresh
             conn == [heard EXCEPT !.stream = Named(heard, s)]
  <2>1. fresh \in Conns /\ SenderOK(fresh) /\ Mine(fresh) = Mine(rtsp[c])
    BY <1>0 DEF Conns, SenderOK, Mine
  <2>2. heard \in Conns /\ SenderOK(heard) /\ Mine(heard) = Mine(rtsp[c])
    BY <2>1, ListenOK
  <2>3. Becomes(c, conn) /\ UNCHANGED streams
    BY <1>4 DEF SetupUdp
  <2> HIDE DEF heard
  <2>4. conn \in Conns /\ SenderOK(conn) /\ Mine(heard) \subseteq Mine(conn)
    BY <2>2, NamedStream DEF Conns, SenderOK, Mine, Named, Names
  <2> HIDE DEF conn
  <2> QED
    BY <2>2, <2>3, <2>4, RtspQuiet, RegSame
<1> QED
  BY <1>2, <1>3, <1>4

LEMMA RtspPlays ==
  ASSUME RegInv, RtspState, NEW c \in Rtsp, UNCHANGED NotRtsp,
         Play(c) \/ Pause(c) \/ SenderEnds(c)
  PROVE  RtspState' /\ Effect
<1>0. rtsp[c] \in Conns /\ SenderOK(rtsp[c])
  BY DEF RtspState, SenderOnlyWhilePlaying, SenderOK
<1> DEFINE conn(p, s) == [rtsp[c] EXCEPT !.playing = p, !.sender = s]
           ends == [rtsp[c] EXCEPT !.sender = Nobody]
<1>1. UNCHANGED streams
  BY DEF Play, Pause, SenderEnds
<1>2. CASE Play(c)
  <2>1. conn(TRUE, rtsp[c].stream) \in Conns /\ SenderOK(conn(TRUE, rtsp[c].stream))
        /\ Mine(rtsp[c]) = Mine(conn(TRUE, rtsp[c].stream))
    BY <1>0, <1>2 DEF Play, Conns, SenderOK, Mine
  <2>2. Becomes(c, conn(TRUE, rtsp[c].stream))
    BY <1>2 DEF Play
  <2> HIDE DEF conn
  <2> QED
    BY <1>1, <2>1, <2>2, RtspQuiet, RegSame
<1>3. CASE Pause(c)
  <2>1. conn(FALSE, Nobody) \in Conns /\ SenderOK(conn(FALSE, Nobody))
        /\ Mine(rtsp[c]) = Mine(conn(FALSE, Nobody))
    BY <1>0 DEF Conns, SenderOK, Mine, Names
  <2>2. Becomes(c, conn(FALSE, Nobody))
    BY <1>3 DEF Pause
  <2> HIDE DEF conn
  <2> QED
    BY <1>1, <2>1, <2>2, RtspQuiet, RegSame
<1>4. CASE SenderEnds(c)
  <2>1. ends \in Conns /\ SenderOK(ends) /\ Mine(rtsp[c]) = Mine(ends)
    BY <1>0 DEF Conns, SenderOK, Mine, Names
  <2>2. Becomes(c, ends)
    BY <1>4 DEF SenderEnds
  <2> HIDE DEF ends
  <2> QED
    BY <1>1, <2>1, <2>2, RtspQuiet, RegSame
<1> QED
  BY <1>2, <1>3, <1>4

\* TEARDOWN and the end of the connection give back what the session knows of.
LEMMA RtspReleases ==
  ASSUME RegInv, RtspState, NEW c \in Rtsp, UNCHANGED NotRtsp, Releases(c),
         NEW conn \in Conns, SenderOK(conn), Mine(conn) = {}, rtsp[c].open, Becomes(c, conn)
  PROVE  RtspState' /\ Effect
<1>0. rtsp[c] \in Conns /\ c \in Actors
  BY RtspAssumption DEF RtspState
<1>1. CASE rtsp[c].stream # Nobody /\ rtsp[c].id
  <2>1. PICK s \in Streams : s = rtsp[c].stream
    BY <1>0, <1>1 DEF Conns, Names
  <2>2. /\ reg' = release_publisher(reg, s, c) /\ GivesUp(c, s)
        /\ Mine(rtsp[c]) = {s}
    BY <1>1, <2>1 DEF Releases, Mine
  <2>3. Returned(reg, reg', c, s)
    BY <1>0, <2>2, ReleaseReturns DEF RegInv
  <2>4. Returns(c, s)
    BY <2>2, <2>3, RtspBecomes DEF Returns, GivesUp
  <2> QED
    BY <1>0, <2>2, <2>4, RtspBecomes DEF Effect, GivesUp, RegInv
<1>2. CASE ~(rtsp[c].stream # Nobody /\ rtsp[c].id)
  <2>1. UNCHANGED streams /\ Mine(rtsp[c]) \subseteq Mine(conn)
    BY <1>2 DEF Releases, Mine
  <2> QED
    BY <2>1, RtspQuiet, RegSame
<1> QED
  BY <1>1, <1>2

LEMMA RtspLeaves ==
  ASSUME RegInv, RtspState, NEW c \in Rtsp, UNCHANGED NotRtsp,
         Teardown(c) \/ Disconnect(c)
  PROVE  RtspState' /\ Effect
<1>0. rtsp[c] \in Conns
  BY DEF RtspState
<1>1. CASE Teardown(c)
  <2> DEFINE conn == [NewConn EXCEPT !.mode = rtsp[c].mode, !.ear = rtsp[c].ear,
                                     !.ingest = rtsp[c].ingest]
  <2>1. conn \in Conns /\ SenderOK(conn) /\ Mine(conn) = {}
    BY <1>0 DEF NewConn, Conns, SenderOK, Mine, Names
  <2>2. Becomes(c, conn) /\ Releases(c) /\ rtsp[c].open
    BY <1>1 DEF Teardown
  <2> HIDE DEF conn
  <2> QED
    BY <2>1, <2>2, RtspReleases
<1>2. CASE Disconnect(c)
  <2> DEFINE conn == [NewConn EXCEPT !.open = FALSE, !.ear = rtsp[c].ear]
  <2>1. conn \in Conns /\ SenderOK(conn) /\ Mine(conn) = {}
    BY <1>0 DEF NewConn, Conns, SenderOK, Mine, Names
  <2>2. Becomes(c, conn) /\ Releases(c) /\ rtsp[c].open
    BY <1>2 DEF Disconnect
  <2> HIDE DEF conn
  <2> QED
    BY <2>1, <2>2, RtspReleases
<1> QED
  BY <1>1, <1>2

\* ANNOUNCE is granted the slot of its stream, and loses the one it had.
LEMMA RtspAnnounce ==
  ASSUME RegInv, RtspState, NEW c \in Rtsp, UNCHANGED NotRtsp, NEW s \in Streams,
         Announce(c, s)
  PROVE  RtspState' /\ Effect
<1> DEFINE made == create_stream(reg, s)
           conn == [rtsp[c] EXCEPT !.stream = s, !.id = TRUE, !.publishing = TRUE]
<1>0. rtsp[c] \in Conns /\ SenderOK(rtsp[c]) /\ rtsp[c].open /\ c \in Actors
  BY RtspAssumption DEF Announce, RtspState, SenderOnlyWhilePlaying, SenderOK
<1>1. Same(reg, made) /\ RegOK(made)
  BY CreateSame DEF RegInv, Same
<1>2. CASE CanAcquire(made, s, c)
  <2>1. /\ reg' = set_status(acquire_publisher(made, s, c), s, "Unpublished")
        /\ Acquires(c, s, Mine(rtsp[c])) /\ Becomes(c, conn)
    BY <1>2 DEF Announce
  <2>2. conn \in Conns /\ SenderOK(conn) /\ Mine(conn) = {s}
    BY <1>0, NobodyAssumption DEF Conns, SenderOK, Mine, Names
  <2> HIDE DEF made, conn
  <2>3. Granted(made, acquire_publisher(made, s, c), c, s)
    BY <1>0, <1>1, <1>2, AcquireGrants
  <2>4. Same(acquire_publisher(made, s, c), reg')
    BY <2>1, <2>3, SetStatusSame DEF Granted
  <2>5. Granted(reg, reg', c, s)
    BY <1>1, <2>3, <2>4, SameTrans
  <2>6. /\ WouldGiveBack(c) = Mine(rtsp[c]) /\ WouldGiveBack(c)' = {s}
        /\ RtspState' /\ \A b \in Actors \ {c} : WouldGiveBack(b)' = WouldGiveBack(b)
    BY <2>1, <2>2, RtspBecomes
  <2>7. Mine(rtsp[c]) \in SUBSET Streams
    BY <1>0 DEF Mine, Conns, Names
  <2>8. Gets(c, s)
    BY <2>1, <2>5, <2>6 DEF Gets, Acquires
  <2> QED
    BY <1>0, <2>1, <2>6, <2>7, <2>8 DEF Effect, Acquires, RegInv
<1>3. CASE ~CanAcquire(made, s, c)
  <2>1. reg' = made /\ UNCHANGED <<claims, rtsp>>
    BY <1>3 DEF Announce
  <2>2. Becomes(c, rtsp[c])
    BY <2>1 DEF Becomes, RtspState
  <2> QED
    BY <1>0, <1>1, <2>1, <2>2, RtspQuiet
<1> QED
  BY <1>2, <1>3

\* RECORD is granted the slot only to a session without one.
LEMMA RtspRecord ==
  ASSUME RegInv, RtspState, NEW c \in Rtsp, UNCHANGED NotRtsp, NEW s \in Streams,
         Record(c, s)
  PROVE  RtspState' /\ Effect
<1> DEFINE old == rtsp[c]
           name == Named(old, s)
           granted == old.id \/ CanAcquire(reg, name, c)
           done == IF granted THEN [old EXCEPT !.id = TRUE, !.publishing = TRUE] ELSE old
           conn == IF old.mode = "udp" THEN Listen(done) ELSE done
<1>0. old \in Conns /\ SenderOK(old) /\ old.open /\ c \in Actors /\ name \in Streams
  BY RtspAssumption, NamedStream DEF Record, RtspState, SenderOnlyWhilePlaying, SenderOK
<1>1. Becomes(c, conn)
  BY DEF Record
<1>2. /\ done \in Conns /\ SenderOK(done)
      /\ old.id \/ ~granted => Mine(done) = Mine(old)
      /\ granted /\ ~old.id => /\ Mine(done) = IF old.stream = Nobody THEN {} ELSE {name}
                               /\ Mine(old) = {}
  BY <1>0 DEF Conns, SenderOK, Mine, Named
<1>3. conn \in Conns /\ SenderOK(conn) /\ Mine(conn) = Mine(done)
  BY <1>2, ListenOK
<1>4. CASE old.id \/ ~granted
  <2>1. Same(reg, reg') /\ UNCHANGED claims
    BY <1>0, <1>4, RegSame, SetPublishingSame DEF Record, RegInv
  <2> HIDE DEF conn, done
  <2> QED
    BY <1>1, <1>2, <1>3, <1>4, <2>1, RtspQuiet
<1>5. CASE granted /\ ~old.id
  <2>1. /\ reg' = set_publishing(acquire_publisher(reg, name, c), name, c)
        /\ relies' = [relies EXCEPT ![c] = @ \cup {name}]
        /\ lost' = IF old.stream = Nobody THEN lost \cup {name} ELSE lost \ {name}
        /\ UNCHANGED used
    BY <1>5 DEF Record
  <2>2. PICK x \in Streams : x = name
    BY <1>0
  <2>3. CanAcquire(reg, x, c)
    BY <1>5, <2>2
  <2>4. Granted(reg, acquire_publisher(reg, x, c), c, x)
    BY <1>0, <2>3, AcquireGrants DEF RegInv
  <2>5. Same(acquire_publisher(reg, x, c), reg')
    BY <1>0, <2>1, <2>2, <2>4, SetPublishingSame DEF Granted
  <2>6. Granted(reg, reg', c, x)
    BY <2>4, <2>5, SameTrans
  <2>7. Mine(conn) = (IF old.stream = Nobody THEN {} ELSE {x}) /\ Mine(old) = {}
    BY <1>2, <1>3, <1>5, <2>2
  <2> HIDE DEF conn, done
  <2>8. /\ WouldGiveBack(c) = {} /\ WouldGiveBack(c)' = Mine(conn)
        /\ RtspState' /\ \A b \in Actors \ {c} : WouldGiveBack(b)' = WouldGiveBack(b)
    BY <1>1, <1>3, <2>7, RtspBecomes
  <2>9. Gets(c, x)
    BY <2>1, <2>2, <2>6, <2>7, <2>8 DEF Gets
  <2> QED
    BY <1>0, <2>1, <2>2, <2>8, <2>9 DEF Effect, RegInv
<1> QED
  BY <1>4, <1>5

\* Media never moves a slot, whoever sends it.
LEMMA RtspMedia ==
  ASSUME RegInv, RtspState, NEW c \in Rtsp, UNCHANGED NotRtsp,
         RtpVideo(c) \/ RtpAudio(c) \/ UdpData(c)
  PROVE  RtspState' /\ Effect
<1>0. rtsp[c] \in Conns /\ SenderOK(rtsp[c]) /\ c \in Actors
  BY RtspAssumption DEF RtspState, SenderOnlyWhilePlaying, SenderOK
<1>1. CASE RtpVideo(c)
  <2> DEFINE into == IF rtsp[c].ingest = Nobody THEN rtsp[c].stream ELSE rtsp[c].ingest
             conn == [rtsp[c] EXCEPT !.ingest = into]
  <2>1. into \in Streams
    BY <1>0, <1>1 DEF RtpVideo, Conns, Names
  <2>2. Same(reg, reg') /\ UNCHANGED claims /\ Becomes(c, conn)
    BY <1>0, <1>1, <2>1, SetPublishingSame DEF RtpVideo, RegInv
  <2>3. conn \in Conns /\ SenderOK(conn) /\ Mine(rtsp[c]) = Mine(conn)
    BY <1>0, <2>1 DEF Conns, SenderOK, Mine, Names
  <2> HIDE DEF conn
  <2> QED
    BY <2>2, <2>3, RtspQuiet
<1>2. CASE RtpAudio(c) \/ UdpData(c)
  <2>1. \E s \in Streams : reg' = publish_frame(reg, s, c)
    BY <1>0, <1>2 DEF RtpAudio, UdpData, Conns, Names
  <2>2. Same(reg, reg') /\ UNCHANGED <<claims, rtsp>>
    BY <1>0, <1>2, <2>1, SetPublishingSame DEF RtpAudio, UdpData, RegInv
  <2>3. Becomes(c, rtsp[c])
    BY <2>2 DEF Becomes, RtspState
  <2> QED
    BY <1>0, <2>2, <2>3, RtspQuiet
<1> QED
  BY <1>1, <1>2

LEMMA RtspEffect ==
  ASSUME RegInv, RtspState, NEW c \in Rtsp, RtspStep(c), UNCHANGED NotRtsp
  PROVE  RtspState' /\ Effect
<1>1. used \subseteq Streams
  BY DEF RegInv
<1> QED
  BY <1>1, RtspSetup, RtspPlays, RtspLeaves, RtspAnnounce, RtspRecord, RtspMedia DEF RtspStep
-----------------------------------------------------------------------------
\* RTMP.
RtmpState == rtmp \in [Rtmp -> RtmpConns]
NotRtmp == <<rtsp, webrtc, puller, cast>>

LEMMA RtmpBecomesConn ==
  ASSUME RtmpState, NEW c \in Rtmp, UNCHANGED NotRtmp,
         NEW conn \in RtmpConns, RtmpBecomes(c, conn)
  PROVE  /\ RtmpState' /\ c \in Actors
         /\ WouldGiveBack(c) = MineRtmp(rtmp[c]) /\ WouldGiveBack(c)' = MineRtmp(conn)
         /\ \A b \in Actors \ {c} : WouldGiveBack(b)' = WouldGiveBack(b)
<1>1. rtmp'[c] = conn /\ \A d \in Rtmp : d # c => rtmp'[d] = rtmp[d]
  BY DEF RtmpBecomes, RtmpState
<1>2. rtmp' \in [Rtmp -> RtmpConns]
  BY DEF RtmpBecomes, RtmpState
<1>3. c \notin Rtsp /\ c \in Actors
  BY ActorsAssumption, RtmpAssumption
<1>4. WouldGiveBack(c) = MineRtmp(rtmp[c]) /\ WouldGiveBack(c)' = MineRtmp(conn)
  BY <1>1, <1>3 DEF WouldGiveBack
<1>5. ASSUME NEW b \in Actors, b # c PROVE WouldGiveBack(b)' = WouldGiveBack(b)
  BY <1>1, <1>5 DEF WouldGiveBack, NotRtmp, webrtc
<1> QED
  BY <1>2, <1>3, <1>4, <1>5 DEF RtmpState

LEMMA MineRtmpStreams ==
  ASSUME NEW conn \in RtmpConns
  PROVE  MineRtmp(conn) \in SUBSET Streams
BY DEF MineRtmp, RtmpConns, Names

\* What a command makes the connection forget is lost.
LEMMA RtmpQuiet ==
  ASSUME RegInv, RtmpState, NEW c \in Rtmp, UNCHANGED NotRtmp,
         NEW conn \in RtmpConns, RtmpBecomes(c, conn),
         Same(reg, reg'), UNCHANGED <<relies, used>>, lost' \in SUBSET Streams,
         lost \subseteq lost', MineRtmp(rtmp[c]) \subseteq MineRtmp(conn) \cup lost'
  PROVE  RtmpState' /\ Effect
BY RtmpBecomesConn DEF Effect, Quiet

LEMMA RtmpForgets ==
  ASSUME RegInv, RtmpState, NEW c \in Rtmp, UNCHANGED NotRtmp, NEW kept,
         NEW conn \in RtmpConns, RtmpBecomes(c, conn), Loses(MineRtmp(rtmp[c]) \ kept),
         MineRtmp(rtmp[c]) \cap kept \subseteq MineRtmp(conn)
  PROVE  RtmpState' /\ Effect
<1>1. rtmp[c] \in RtmpConns
  BY DEF RtmpState
<1>2. MineRtmp(rtmp[c]) \in SUBSET Streams
  BY <1>1, MineRtmpStreams
<1> QED
  BY <1>2, RtmpQuiet DEF Loses, RegInv, Same

\* connect, play and a handler's error leave a slot they do not give back.
LEMMA RtmpLoses ==
  ASSUME RegInv, RtmpState, NEW c \in Rtmp, UNCHANGED NotRtmp, NEW s \in Names,
         \/ Connect(c, s) \/ HandlerError(c)
         \/ s \in Streams /\ PlayStream(c, s)
  PROVE  RtmpState' /\ Effect
<1>0. rtmp[c] \in RtmpConns
  BY DEF RtmpState
<1>1. CASE Connect(c, s)
  <2> DEFINE conn == [rtmp[c] EXCEPT !.stream = s]
  <2>1. conn \in RtmpConns /\ MineRtmp(rtmp[c]) \cap {s} \subseteq MineRtmp(conn)
    BY <1>0 DEF RtmpConns, MineRtmp
  <2>2. RtmpBecomes(c, conn) /\ Loses(MineRtmp(rtmp[c]) \ {s})
    BY <1>1 DEF Connect
  <2> HIDE DEF conn
  <2> QED
    BY <2>1, <2>2, RtmpForgets
<1>2. CASE HandlerError(c)
  <2> DEFINE conn == [rtmp[c] EXCEPT !.open = FALSE]
  <2>1. conn \in RtmpConns
    BY <1>0 DEF RtmpConns
  <2>2. RtmpBecomes(c, conn) /\ Loses(MineRtmp(rtmp[c]) \ {})
    BY <1>2 DEF HandlerError
  <2> HIDE DEF conn
  <2> QED
    BY <2>1, <2>2, RtmpForgets
<1>3. CASE s \in Streams /\ PlayStream(c, s)
  <2>1. PICK player \in Names :
          /\ RtmpBecomes(c, [rtmp[c] EXCEPT !.stream = s, !.player = player])
          /\ Loses(MineRtmp(rtmp[c]) \ {s})
    BY <1>0, <1>3 DEF PlayStream, RtmpConns
  <2> DEFINE conn == [rtmp[c] EXCEPT !.stream = s, !.player = player]
  <2>2. conn \in RtmpConns /\ MineRtmp(rtmp[c]) \cap {s} \subseteq MineRtmp(conn)
    BY <1>0 DEF RtmpConns, MineRtmp
  <2>3. RtmpBecomes(c, conn)
    BY <2>1
  <2> HIDE DEF conn
  <2> QED
    BY <2>1, <2>2, <2>3, RtmpForgets
<1> QED
  BY <1>1, <1>2, <1>3

\* publish is granted the slot, and keeps it or loses it with its response.
LEMMA RtmpPublish ==
  ASSUME RegInv, RtmpState, NEW c \in Rtmp, UNCHANGED NotRtmp, NEW s \in Streams,
         Publish(c, s)
  PROVE  RtmpState' /\ Effect
<1> DEFINE made == create_stream(reg, s)
           taken == set_status(acquire_publisher(made, s, c), s, "Unpublished")
           conn == [rtmp[c] EXCEPT !.stream = s, !.publishing = TRUE]
           dead == [conn EXCEPT !.open = FALSE]
<1>0. rtmp[c] \in RtmpConns /\ rtmp[c].open /\ c \in Actors
  BY RtmpAssumption DEF Publish, RtmpState
<1>1. Same(reg, made) /\ RegOK(made)
  BY CreateSame DEF RegInv, Same
<1>2. /\ conn \in RtmpConns /\ MineRtmp(conn) = {s}
      /\ dead \in RtmpConns /\ MineRtmp(dead) = {}
  BY <1>0, NobodyAssumption DEF RtmpConns, MineRtmp, Names
<1>3. MineRtmp(rtmp[c]) \in SUBSET Streams
  BY <1>0, MineRtmpStreams
<1>4. CASE CanAcquire(made, s, c)
  <2>1. \/ /\ reg' = set_publishing(taken, s, c) /\ RtmpBecomes(c, conn)
           /\ Acquires(c, s, MineRtmp(rtmp[c]))
        \/ /\ reg' = taken /\ RtmpBecomes(c, dead)
           /\ relies' = [relies EXCEPT ![c] = @ \cup {s}]
           /\ lost' = lost \cup MineRtmp(rtmp[c]) \cup {s}
           /\ UNCHANGED used
    BY <1>4 DEF Publish
  <2>2. Granted(made, acquire_publisher(made, s, c), c, s)
    BY <1>0, <1>1, <1>4, AcquireGrants
  <2>3. Same(acquire_publisher(made, s, c), taken)
    BY <2>2, SetStatusSame DEF Granted
  <2> HIDE DEF made, conn, dead, taken
  <2>4. Granted(reg, taken, c, s)
    BY <1>1, <2>2, <2>3, SameTrans
  <2>5. Granted(reg, reg', c, s)
    <3>1. Same(taken, set_publishing(taken, s, c))
      BY <1>0, <2>4, SetPublishingSame DEF Granted
    <3> QED
      BY <2>1, <2>4, <3>1, SameTrans
  <2>6. CASE RtmpBecomes(c, conn) /\ Acquires(c, s, MineRtmp(rtmp[c]))
    <3>1. Gets(c, s)
      BY <1>2, <2>5, <2>6, RtmpBecomesConn DEF Gets, Acquires
    <3> QED
      BY <1>2, <1>3, <2>6, <3>1, RtmpBecomesConn DEF Effect, Acquires, RegInv
  <2>7. CASE /\ RtmpBecomes(c, dead) /\ relies' = [relies EXCEPT ![c] = @ \cup {s}]
             /\ lost' = lost \cup MineRtmp(rtmp[c]) \cup {s} /\ UNCHANGED used
    <3>1. Gets(c, s)
      BY <1>2, <2>5, <2>7, RtmpBecomesConn DEF Gets
    <3> QED
      BY <1>2, <1>3, <2>7, <3>1, RtmpBecomesConn DEF Effect, RegInv
  <2> QED
    BY <2>1, <2>6, <2>7
<1>5. CASE ~CanAcquire(made, s, c)
  <2>1. reg' = made /\ UNCHANGED <<claims, rtmp>>
    BY <1>5 DEF Publish
  <2>2. RtmpBecomes(c, rtmp[c])
    BY <2>1 DEF RtmpBecomes, RtmpState
  <2> QED
    BY <1>0, <1>1, <2>1, <2>2, RtmpQuiet DEF claims, RegInv
<1> QED
  BY <1>4, <1>5

\* deleteStream and the end of the connection give it back.
LEMMA RtmpReleases ==
  ASSUME RegInv, RtmpState, NEW c \in Rtmp, UNCHANGED NotRtmp, CloseStream(c) \/ Hangup(c)
  PROVE  RtmpState' /\ Effect
<1>0. rtmp[c] \in RtmpConns /\ rtmp[c].open /\ c \in Actors /\ ReleasesRtmp(c)
  BY RtmpAssumption DEF CloseStream, Hangup, RtmpState
<1>1. PICK conn \in RtmpConns : RtmpBecomes(c, conn) /\ MineRtmp(conn) = {}
  <2>1. CASE CloseStream(c)
    <3> DEFINE conn == [rtmp[c] EXCEPT !.publishing = FALSE]
    <3>1. conn \in RtmpConns /\ MineRtmp(conn) = {} /\ RtmpBecomes(c, conn)
      BY <1>0, <2>1 DEF CloseStream, RtmpConns, MineRtmp
    <3> HIDE DEF conn
    <3> QED
      BY <3>1
  <2>2. CASE Hangup(c)
    <3>1. PICK player \in Names :
            RtmpBecomes(c, [rtmp[c] EXCEPT !.open = FALSE, !.publishing = FALSE,
                                           !.player = player])
      BY <1>0, <2>2 DEF Hangup, RtmpConns, Names
    <3> DEFINE conn == [rtmp[c] EXCEPT !.open = FALSE, !.publishing = FALSE, !.player = player]
    <3>2. conn \in RtmpConns /\ MineRtmp(conn) = {} /\ RtmpBecomes(c, conn)
      BY <1>0, <3>1 DEF RtmpConns, MineRtmp
    <3> HIDE DEF conn
    <3> QED
      BY <3>2
  <2> QED
    BY <2>1, <2>2
<1>2. CASE rtmp[c].publishing /\ rtmp[c].stream # Nobody
  <2>1. PICK s \in Streams : s = rtmp[c].stream
    BY <1>0, <1>2 DEF RtmpConns, Names
  <2>2. reg' = release_publisher(reg, s, c) /\ GivesUp(c, s) /\ MineRtmp(rtmp[c]) = {s}
    BY <1>0, <1>2, <2>1 DEF ReleasesRtmp, MineRtmp
  <2>3. Returned(reg, reg', c, s)
    BY <1>0, <2>2, ReleaseReturns DEF RegInv
  <2>4. Returns(c, s)
    BY <1>1, <2>2, <2>3, RtmpBecomesConn DEF Returns, GivesUp
  <2> QED
    BY <1>1, <2>2, <2>4, RtmpBecomesConn DEF Effect, GivesUp, RegInv
<1>3. CASE ~(rtmp[c].publishing /\ rtmp[c].stream # Nobody)
  <2>1. UNCHANGED streams /\ MineRtmp(rtmp[c]) = {}
    BY <1>0, <1>3 DEF ReleasesRtmp, MineRtmp
  <2> QED
    BY <1>1, <2>1, RtmpQuiet, RegSame DEF claims, streams, RegInv
<1> QED
  BY <1>2, <1>3

LEMMA RtmpMedia ==
  ASSUME RegInv, RtmpState, NEW c \in Rtmp, UNCHANGED NotRtmp, PlayTaskEnds(c) \/ RtmpFrame(c)
  PROVE  RtmpState' /\ Effect
<1>0. rtmp[c] \in RtmpConns /\ c \in Actors
  BY RtmpAssumption DEF RtmpState
<1>1. CASE PlayTaskEnds(c)
  <2> DEFINE conn == [rtmp[c] EXCEPT !.player = Nobody]
  <2>1. conn \in RtmpConns /\ MineRtmp(rtmp[c]) = MineRtmp(conn)
    BY <1>0 DEF RtmpConns, MineRtmp, Names
  <2>2. RtmpBecomes(c, conn) /\ UNCHANGED streams
    BY <1>1 DEF PlayTaskEnds
  <2> HIDE DEF conn
  <2> QED
    BY <2>1, <2>2, RtmpQuiet, RegSame DEF streams, claims, RegInv
<1>2. CASE RtmpFrame(c)
  <2>1. PICK s \in Streams : reg' = publish_frame(reg, s, c)
    BY <1>0, <1>2 DEF RtmpFrame, RtmpConns, Names
  <2>2. Same(reg, reg') /\ UNCHANGED <<claims, rtmp>>
    BY <1>0, <1>2, <2>1, SetPublishingSame DEF RtmpFrame, RegInv
  <2>3. RtmpBecomes(c, rtmp[c])
    BY <2>2 DEF RtmpBecomes, RtmpState
  <2> QED
    BY <1>0, <2>2, <2>3, RtmpQuiet DEF claims, RegInv
<1> QED
  BY <1>1, <1>2

LEMMA RtmpEffect ==
  ASSUME RegInv, RtmpState, NEW c \in Rtmp, RtmpStep(c), UNCHANGED NotRtmp
  PROVE  RtmpState' /\ Effect
<1>1. used \subseteq Streams /\ used \cup {Nobody} \subseteq Names
  BY DEF RegInv, Names
<1>2. CASE \E s \in used : Publish(c, s) \/ PlayStream(c, s)
  BY <1>1, <1>2, RtmpPublish, RtmpLoses DEF Names
<1>3. CASE (\E app \in used \cup {Nobody} : Connect(c, app)) \/ HandlerError(c)
  BY <1>1, <1>3, RtmpLoses
<1>4. CASE PlayTaskEnds(c) \/ RtmpFrame(c) \/ CloseStream(c) \/ Hangup(c)
  BY <1>4, RtmpMedia, RtmpReleases
<1> QED
  BY <1>2, <1>3, <1>4 DEF RtmpStep
-----------------------------------------------------------------------------
\* WebRTC.
RtcState ==
  /\ rtc \in [Sockets -> RtcStates] /\ tracks \in [PublisherIds -> Names]
  /\ FreshIds /\ AgainIdle
NotRtc == <<rtsp, rtmp, puller, cast>>

\* A socket's next state: only the current id has something to give back.
LEMMA RtcBecomes ==
  ASSUME RtcState, NEW w \in Sockets, UNCHANGED NotRtc,
         NEW state \in RtcStates, rtc' = [rtc EXCEPT ![w] = state],
         state.made = rtc[w].made \/ rtc[w].publish = Nobody
  PROVE  /\ rtc' \in [Sockets -> RtcStates]
         /\ \A b \in Actors : b # <<w, rtc[w].made>> =>
              WouldGiveBack(b) \subseteq WouldGiveBack(b)' \cup {Nobody}
         /\ \A n \in 1 .. MaxPublish : <<w, n>> \in Actors
              /\ (n = rtc[w].made => WouldGiveBack(<<w, n>>) = {rtc[w].publish})
              /\ (n = state.made => WouldGiveBack(<<w, n>>)' = {state.publish})
<1>1. rtc'[w] = state /\ \A v \in Sockets : v # w => rtc'[v] = rtc[v]
  BY DEF RtcState
<1>2. rtc' \in [Sockets -> RtcStates]
  BY DEF RtcState
<1>3. ASSUME NEW b \in Actors, b # <<w, rtc[w].made>>
      PROVE  WouldGiveBack(b) \subseteq WouldGiveBack(b)' \cup {Nobody}
  <2>1. CASE b \in Rtsp \cup Rtmp \/ b \notin PublisherIds
    BY <2>1 DEF WouldGiveBack, NotRtc
  <2>2. CASE b \in PublisherIds /\ b \notin Rtsp \cup Rtmp
    <3>1. PICK v \in Sockets, m \in 1 .. MaxPublish : b = <<v, m>>
      BY <2>2 DEF PublisherIds
    <3>2. /\ WouldGiveBack(b) = IF rtc[v].made = m THEN {rtc[v].publish} ELSE {}
          /\ WouldGiveBack(b)' = IF rtc'[v].made = m THEN {rtc'[v].publish} ELSE {}
      BY <2>2, <3>1 DEF WouldGiveBack
    <3>3. CASE v = w
      BY <1>3, <3>1, <3>2, <3>3
    <3>4. CASE v # w
      BY <1>1, <3>2, <3>4
    <3> QED
      BY <3>3, <3>4
  <2> QED
    BY <2>1, <2>2
<1>4. ASSUME NEW n \in 1 .. MaxPublish
      PROVE  /\ <<w, n>> \in Actors
             /\ (n = rtc[w].made => WouldGiveBack(<<w, n>>) = {rtc[w].publish})
             /\ (n = state.made => WouldGiveBack(<<w, n>>)' = {state.publish})
  <2>1. <<w, n>> \in PublisherIds /\ <<w, n>> \in Actors /\ <<w, n>> \notin Rtsp \cup Rtmp
    BY SocketsAssumption, ActorsAssumption DEF PublisherIds
  <2>2. /\ WouldGiveBack(<<w, n>>) = IF rtc[w].made = n THEN {rtc[w].publish} ELSE {}
        /\ WouldGiveBack(<<w, n>>)' = IF rtc'[w].made = n THEN {rtc'[w].publish} ELSE {}
    BY <2>1 DEF WouldGiveBack
  <2> QED
    BY <1>1, <2>1, <2>2
<1> QED
  BY <1>2, <1>3, <1>4

\* A track's steps, which never touch a slot.
LEMMA RtcTracks ==
  ASSUME RegInv, RtcState, UNCHANGED NotRtc, NEW i \in PublisherIds,
         TrackStarts(i) \/ TrackFrame(i) \/ TrackEnds(i)
  PROVE  RtcState' /\ Effect
<1>0. i \in Actors /\ i[1] \in Sockets /\ tracks[i] \in Names
  BY SocketsAssumption DEF PublisherIds, RtcState
<1>1. UNCHANGED <<rtc, claims>> /\ tracks' \in [PublisherIds -> Names]
  <2>1. rtc[i[1]].publish \in Names
    BY <1>0 DEF RtcState, RtcStates
  <2> QED
    BY <2>1 DEF TrackStarts, TrackFrame, TrackEnds, RtcState, streams, webrtc, Names
<1>2. Same(reg, reg')
  <2>1. CASE TrackStarts(i)
    BY <2>1, RegSame DEF TrackStarts
  <2>2. CASE TrackFrame(i) \/ TrackEnds(i)
    <3>1. PICK s \in Streams : s = tracks[i]
      BY <1>0, <2>2 DEF TrackFrame, TrackEnds, Names
    <3>2. reg' = publish_frame(reg, s, i) \/ reg' = set_status(reg, s, "Unpublished")
      BY <2>2, <3>1 DEF TrackFrame, TrackEnds
    <3> QED
      BY <1>0, <3>2, SetPublishingSame, SetStatusSame DEF RegInv
  <2> QED
    BY <2>1, <2>2
<1>3. \A b \in Actors : WouldGiveBack(b)' = WouldGiveBack(b)
  BY <1>1 DEF WouldGiveBack, NotRtc
<1>4. Effect
  BY <1>1, <1>2, <1>3 DEF Effect, Quiet, claims, RegInv
<1> QED
  BY <1>1, <1>4 DEF RtcState, FreshIds, AgainIdle, claims

\* Every way a session ends publishing gives the slot back under the session's id.
LEMMA RtcReleases ==
  ASSUME RegInv, RtcState, UNCHANGED <<NotRtc, tracks, used>>, NEW w \in Sockets,
         NEW m \in 1 .. MaxPublish, rtc[w].made = m, NEW x \in Streams,
         reg' = release_publisher(reg, x, <<w, m>>),
         relies' = [relies EXCEPT ![<<w, m>>] = @ \ {x}],
         lost' = lost \cup ({rtc[w].publish} \ {x, Nobody}),
         NEW state \in RtcStates, rtc' = [rtc EXCEPT ![w] = state],
         state.made = m, state.publish = Nobody
  PROVE  RtcState' /\ Effect
<1> DEFINE a == <<w, m>>
<1>1. a \in Actors /\ rtc[w] \in RtcStates
  BY RtcBecomes DEF RtcState
<1>2. Returned(reg, reg', a, x)
  BY <1>1, ReleaseReturns DEF RegInv
<1>3. WouldGiveBack(a) = {rtc[w].publish} /\ rtc[w].publish \in Names
  BY <1>1, RtcBecomes DEF RtcStates
<1>4. \A b \in Actors \ {a} : WouldGiveBack(b) \subseteq WouldGiveBack(b)' \cup {Nobody}
  BY RtcBecomes
<1> HIDE DEF a
<1>5. Returns(a, x)
  BY <1>2, <1>3, <1>4 DEF Returns, a
<1>6. lost' \in SUBSET Streams
  BY <1>3 DEF RegInv, Names
<1>7. RtcState'
  <2>1. rtc' \in [Sockets -> RtcStates] /\ tracks' \in [PublisherIds -> Names]
    BY RtcBecomes DEF RtcState
  <2>2. rtc'[w] = state /\ \A v \in Sockets : v # w => rtc'[v] = rtc[v]
    BY DEF RtcState
  <2>3. \A b \in Actors : relies'[b] \subseteq relies[b]
    BY DEF RegInv
  <2>4. FreshIds'
    <3> SUFFICES ASSUME NEW v \in Sockets, NEW n \in 1 .. MaxPublish, n > rtc'[v].made
                 PROVE  relies'[<<v, n>>] = {}
      BY DEF FreshIds
    <3>1. <<v, n>> \in Actors /\ n > rtc[v].made
      BY <2>2, SocketsAssumption
    <3> QED
      BY <2>3, <3>1 DEF RtcState, FreshIds
  <2>5. AgainIdle'
    BY <2>2 DEF RtcState, AgainIdle
  <2> QED
    BY <2>1, <2>4, <2>5 DEF RtcState
<1> QED
  BY <1>1, <1>5, <1>6, <1>7 DEF Effect, a

\* A socket that publishes nothing forgets nothing, whatever becomes of it.
LEMMA RtcGiveBack ==
  ASSUME RtcState, UNCHANGED NotRtc, NEW w \in Sockets, rtc[w].publish = Nobody,
         NEW state \in RtcStates, rtc' = [rtc EXCEPT ![w] = state]
  PROVE  \A b \in Actors : WouldGiveBack(b) \subseteq WouldGiveBack(b)' \cup {Nobody}
<1> SUFFICES ASSUME NEW b \in Actors
             PROVE  WouldGiveBack(b) \subseteq WouldGiveBack(b)' \cup {Nobody}
  OBVIOUS
<1>1. CASE b # <<w, rtc[w].made>>
  BY <1>1, RtcBecomes
<1>2. CASE b = <<w, rtc[w].made>> /\ b \in PublisherIds /\ b \notin Rtsp \cup Rtmp
  <2>1. WouldGiveBack(b) = {Nobody}
    BY <1>2 DEF WouldGiveBack
  <2> QED
    BY <2>1
<1>3. CASE b \notin PublisherIds \/ b \in Rtsp \cup Rtmp
  BY <1>3 DEF WouldGiveBack, NotRtc
<1> QED
  BY <1>1, <1>2, <1>3

LEMMA RtcAdvances ==
  ASSUME RegInv, RtcState, UNCHANGED <<NotRtc, tracks, claims>>, NEW w \in Sockets,
         rtc[w].publish = Nobody,
         NEW state \in RtcStates, rtc' = [rtc EXCEPT ![w] = state],
         state.made >= rtc[w].made, state.publish = Nobody
  PROVE  /\ RtcState'
         /\ \A b \in Actors : WouldGiveBack(b) \subseteq WouldGiveBack(b)' \cup {Nobody}
<1>1. rtc'[w] = state /\ \A v \in Sockets : v # w => rtc'[v] = rtc[v]
  BY DEF RtcState
<1>2. FreshIds'
  <2> SUFFICES ASSUME NEW v \in Sockets, NEW n \in 1 .. MaxPublish, n > rtc'[v].made
               PROVE  relies'[<<v, n>>] = {}
    BY DEF FreshIds
  <2>1. n > rtc[v].made
    BY <1>1, SocketsAssumption DEF RtcState, RtcStates
  <2> QED
    BY <2>1 DEF RtcState, FreshIds, claims
<1>3. AgainIdle' /\ rtc' \in [Sockets -> RtcStates]
  BY <1>1 DEF RtcState, AgainIdle
<1> QED
  BY <1>2, <1>3, RtcGiveBack DEF RtcState

\* Without an id a session's cleanup changes a status.
LEMMA RtcQuiet ==
  ASSUME RegInv, RtcState, UNCHANGED <<NotRtc, tracks, claims>>, NEW w \in Sockets,
         rtc[w].publish = Nobody, Same(reg, reg'),
         NEW state \in RtcStates, rtc' = [rtc EXCEPT ![w] = state],
         state.made >= rtc[w].made, state.publish = Nobody
  PROVE  RtcState' /\ Effect
BY RtcAdvances DEF Effect, Quiet, claims, RegInv

LEMMA RtcCleanups ==
  ASSUME RegInv, RtcState, UNCHANGED NotRtc, NEW w \in Sockets,
         \/ SocketCloses(w)
         \/ \E s \in Streams : Republish(w, s) \/ StopPublish(w, s)
  PROVE  RtcState' /\ Effect
<1> DEFINE old == rtc[w]
<1>0. old \in RtcStates
  BY DEF RtcState
<1>1. PICK open \in BOOLEAN, again \in Names :
        rtc' = [rtc EXCEPT ![w] = [old EXCEPT !.open = open, !.publish = Nobody, !.again = again]]
  <2>0. old.open \in BOOLEAN /\ old.again \in Names /\ Nobody \in Names
    BY <1>0 DEF RtcStates, Names
  <2>1. CASE SocketCloses(w)
    <3>1. rtc' = [rtc EXCEPT ![w] = [old EXCEPT !.open = FALSE, !.publish = Nobody,
                                                !.again = old.again]]
      BY <1>0, <2>1 DEF SocketCloses, RtcState, RtcStates
    <3> QED
      BY <2>0, <3>1
  <2>2. ASSUME NEW s \in Streams, Republish(w, s)
        PROVE  \E open \in BOOLEAN, again \in Names :
         rtc' = [rtc EXCEPT ![w] = [old EXCEPT !.open = open, !.publish = Nobody,
                                               !.again = again]]
    <3>1. rtc' = [rtc EXCEPT ![w] = [old EXCEPT !.open = old.open, !.publish = Nobody,
                                                !.again = s]]
      BY <1>0, <2>2 DEF Republish, RtcState, RtcStates
    <3> QED
      BY <2>0, <3>1 DEF Names
  <2>3. ASSUME NEW s \in Streams, StopPublish(w, s)
        PROVE  \E open \in BOOLEAN, again \in Names :
         rtc' = [rtc EXCEPT ![w] = [old EXCEPT !.open = open, !.publish = Nobody,
                                               !.again = again]]
    <3>1. rtc' = [rtc EXCEPT ![w] = [old EXCEPT !.open = old.open, !.publish = Nobody,
                                                !.again = old.again]]
      BY <1>0, <2>3 DEF StopPublish, RtcState, RtcStates
    <3> QED
      BY <2>0, <3>1
  <2> QED
    BY <2>1, <2>2, <2>3
<1> DEFINE state == [old EXCEPT !.open = open, !.publish = Nobody, !.again = again]
<1>2. state \in RtcStates /\ state.made = old.made /\ state.publish = Nobody
  BY <1>0 DEF RtcStates, Names
<1>9. rtc' = [rtc EXCEPT ![w] = state]
  BY <1>1
<1> HIDE DEF state
<1>3. UNCHANGED <<tracks, used>>
  BY DEF Republish, StopPublish, SocketCloses
<1>4. CASE old.publish # Nobody
  <2>1. PICK m \in 1 .. MaxPublish : m = old.made
    BY <1>0, <1>4, SocketsAssumption DEF RtcState, AgainIdle, RtcStates
  <2>2. PICK x \in Streams :
          /\ reg' = CleanedUp(reg, x, w) /\ LetsGo(w, x)
          /\ lost' = lost \cup ({old.publish} \ {x, Nobody})
    BY <1>0, <1>4 DEF Republish, StopPublish, SocketCloses, RtcStates, Names
  <2>3. /\ reg' = release_publisher(reg, x, <<w, m>>)
        /\ relies' = [relies EXCEPT ![<<w, m>>] = @ \ {x}]
    BY <1>4, <2>1, <2>2 DEF CleanedUp, LetsGo, Id
  <2> QED
    BY <1>9, <1>2, <1>3, <2>1, <2>2, <2>3, RtcReleases
<1>5. CASE old.publish = Nobody
  <2>1. lost' = lost /\ relies' = relies
    BY <1>5 DEF Republish, StopPublish, SocketCloses
  <2>2. Same(reg, reg')
    <3>1. reg' = reg \/ \E s \in Streams : reg' = set_status(reg, s, "Unpublished")
      BY <1>5 DEF Republish, StopPublish, SocketCloses, CleanedUp
    <3>2. CASE reg' = reg
      BY <3>2 DEF RegInv, Same
    <3>3. ASSUME NEW s \in Streams, reg' = set_status(reg, s, "Unpublished") PROVE Same(reg, reg')
      BY <3>3, SetStatusSame DEF RegInv
    <3> QED
      BY <3>1, <3>2, <3>3
  <2>3. state.made >= old.made
    BY <1>0, <1>2, SocketsAssumption DEF RtcStates
  <2> QED
    BY <1>9, <1>2, <1>3, <1>5, <2>1, <2>2, <2>3, RtcQuiet DEF claims
<1> QED
  BY <1>4, <1>5

\* A publish command has a new id, which is granted the slot or is refused; a failed
\* negotiation gives the slot back at once.
LEMMA RtcPublishes ==
  ASSUME RegInv, RtcState, UNCHANGED NotRtc, NEW w \in Sockets, NEW s \in Streams,
         RtcPublish(w, s)
  PROVE  RtcState' /\ Effect
<1>1. PICK n \in 1 .. MaxPublish : n = rtc[w].made + 1
  BY SocketsAssumption DEF RtcPublish, RtcState, RtcStates
<1> DEFINE a == <<w, n>>
           made == create_stream(reg, s)
           taken == set_status(acquire_publisher(made, s, a), s, "Unpublished")
           idle == [rtc[w] EXCEPT !.made = n, !.again = Nobody]
           on == [idle EXCEPT !.publish = s]
<1>2. a \in Actors /\ a \in PublisherIds
  BY SocketsAssumption DEF PublisherIds
<1>3. rtc[w] \in RtcStates /\ rtc[w].publish = Nobody
  BY NobodyAssumption DEF RtcPublish, RtcState, RtcStates, AgainIdle, Names
<1>4. /\ idle \in RtcStates /\ idle.made = n /\ idle.publish = Nobody
      /\ on \in RtcStates /\ on.made = n /\ on.publish = s /\ on.again = Nobody
  <2>1. n \in 0 .. MaxPublish
    BY SocketsAssumption
  <2>2. idle \in RtcStates /\ idle.made = n /\ idle.publish = Nobody /\ idle.again = Nobody
    BY <1>3, <2>1 DEF RtcStates, Names
  <2> HIDE DEF idle
  <2> QED
    BY <2>2 DEF RtcStates, Names
<1>5. Same(reg, made) /\ RegOK(made)
  BY CreateSame DEF RegInv, Same
<1>6. \/ /\ reg' = IF CanAcquire(made, s, a) THEN release_publisher(taken, s, a) ELSE made
         /\ rtc' = [rtc EXCEPT ![w] = idle]
         /\ UNCHANGED <<claims, tracks>>
      \/ /\ CanAcquire(made, s, a)
         /\ reg' = set_publishing(taken, s, a)
         /\ Acquires(a, s, {})
         /\ rtc' = [rtc EXCEPT ![w] = on]
         /\ UNCHANGED tracks
  BY <1>1 DEF RtcPublish
<1> HIDE DEF a, made, taken, idle, on
<1>7. CASE ~CanAcquire(made, s, a)
  <2>1. Same(reg, reg') /\ rtc' = [rtc EXCEPT ![w] = idle] /\ UNCHANGED <<claims, tracks>>
    BY <1>5, <1>6, <1>7
  <2>2. idle.made >= rtc[w].made
    BY <1>1, <1>3, <1>4, SocketsAssumption DEF RtcStates
  <2> QED
    BY <1>3, <1>4, <2>1, <2>2, RtcQuiet
<1>8. CASE CanAcquire(made, s, a)
  <2>1. Granted(made, acquire_publisher(made, s, a), a, s)
    BY <1>2, <1>5, <1>8, AcquireGrants
  <2>2. Same(acquire_publisher(made, s, a), taken)
    BY <2>1, SetStatusSame DEF Granted, taken
  <2>3. Granted(reg, taken, a, s)
    BY <1>5, <2>1, <2>2, SameTrans
  <2>4. relies[a] = {}
    BY <1>1, <1>3, SocketsAssumption DEF RtcState, FreshIds, RtcStates, a
  <2>5. CASE /\ reg' = release_publisher(taken, s, a)
             /\ rtc' = [rtc EXCEPT ![w] = idle] /\ UNCHANGED <<claims, tracks>>
    <3>1. Returned(taken, reg', a, s)
      BY <1>2, <2>3, <2>5, ReleaseReturns DEF Granted
    <3>2. Returned(reg, reg', a, s)
      BY <2>3, <3>1 DEF Granted, Returned
    <3>3. relies' = [relies EXCEPT ![a] = @ \ {s}]
      BY <1>2, <2>4, <2>5 DEF RegInv, claims
    <3>4. RtcState' /\ \A b \in Actors :
            WouldGiveBack(b) \subseteq WouldGiveBack(b)' \cup {Nobody}
      <4>1. idle.made >= rtc[w].made
        BY <1>1, <1>3, <1>4, SocketsAssumption DEF RtcStates
      <4> QED
        BY <1>3, <1>4, <2>5, <4>1, RtcAdvances
    <3>5. Returns(a, s)
      BY <1>2, <2>5, <3>2, <3>3, <3>4 DEF Returns, claims
    <3> QED
      BY <1>2, <2>5, <3>4, <3>5 DEF Effect, claims, RegInv
  <2>6. CASE /\ reg' = set_publishing(taken, s, a) /\ Acquires(a, s, {})
             /\ rtc' = [rtc EXCEPT ![w] = on] /\ UNCHANGED tracks
    <3>1. Granted(reg, reg', a, s)
      <4>1. Same(taken, reg')
        BY <1>2, <2>3, <2>6, SetPublishingSame DEF Granted
      <4> QED
        BY <2>3, <4>1, SameTrans
    <3>2. WouldGiveBack(a)' = {s}
      BY <1>3, <1>4, <2>6, RtcBecomes DEF a
    <3>3. \A b \in Actors : WouldGiveBack(b) \subseteq WouldGiveBack(b)' \cup {Nobody}
      <4>1. on.made >= rtc[w].made 
        BY <1>1, <1>3, <1>4, NobodyAssumption, SocketsAssumption DEF RtcStates
      <4> QED
        BY <1>3, <1>4, <2>6, <4>1, RtcGiveBack
    <3>4. Gets(a, s)
      BY <1>2, <2>6, <3>1, <3>2, <3>3 DEF Gets, Acquires
    <3>5. RtcState'
      <4>1. rtc'[w] = on /\ \A v \in Sockets : v # w => rtc'[v] = rtc[v]
        BY <2>6 DEF RtcState
      <4>2. FreshIds'
        <5> SUFFICES ASSUME NEW v \in Sockets, NEW m \in 1 .. MaxPublish, m > rtc'[v].made
                     PROVE  relies'[<<v, m>>] = {}
          BY DEF FreshIds
        <5>1. <<v, m>> \in Actors /\ m > rtc[v].made /\ <<v, m>> # a
          BY <1>1, <1>3, <1>4, <4>1, SocketsAssumption DEF a, RtcStates
        <5> QED
          BY <2>6, <5>1 DEF RtcState, FreshIds, Acquires, RegInv
      <4>3. AgainIdle'
        BY <1>4, <4>1 DEF RtcState, AgainIdle
      <4> QED
        BY <1>4, <2>6, <4>2, <4>3 DEF RtcState
    <3> QED
      BY <1>2, <2>6, <3>4, <3>5 DEF Effect, Acquires, RegInv
  <2> QED
    BY <1>6, <1>8, <2>5, <2>6
<1> QED
  BY <1>7, <1>8

LEMMA RtcEffect ==
  ASSUME RegInv, RtcState, NEW w \in Sockets, WebRtcStep(w), UNCHANGED NotRtc
  PROVE  RtcState' /\ Effect
<1>1. used \subseteq Streams /\ \A n \in 1 .. MaxPublish : <<w, n>> \in PublisherIds
  BY DEF RegInv, PublisherIds
<1>2. CASE \E s \in used : RtcPublish(w, s)
  BY <1>1, <1>2, RtcPublishes
<1>3. CASE (\E s \in used : Republish(w, s) \/ StopPublish(w, s)) \/ SocketCloses(w)
  BY <1>1, <1>3, RtcCleanups
<1>4. CASE \E n \in 1 .. MaxPublish :
             TrackStarts(<<w, n>>) \/ TrackFrame(<<w, n>>) \/ TrackEnds(<<w, n>>)
  BY <1>1, <1>4, RtcTracks
<1> QED
  BY <1>2, <1>3, <1>4 DEF WebRtcStep
-----------------------------------------------------------------------------
\* Pullers publish without a slot, and the HTTP routes make and remove streams.
PullerOK(q) == q \in PullerStates /\ (q.at # "idle" => q.stream \in Streams)
PullerState == puller = [p \in Pullers |-> puller[p]] /\ \A p \in Pullers : PullerOK(puller[p])

LEMMA OnePuller ==
  ASSUME PullerState, NEW p \in Pullers, NEW q, PullerOK(q), puller' = [puller EXCEPT ![p] = q]
  PROVE  PullerState'
BY DEF PullerState

\* A puller's own record changes, and perhaps the registry.
LEMMA PullerQuiet ==
  ASSUME RegInv, UNCHANGED <<rtsp, rtmp, webrtc, claims>>, Same(reg, reg')
  PROVE  Effect
<1>1. \A b \in Actors : WouldGiveBack(b)' = WouldGiveBack(b)
  BY DEF WouldGiveBack, webrtc
<1> QED
  BY <1>1 DEF Effect, Quiet, claims, RegInv

LEMMA PullerEffect ==
  ASSUME RegInv, PullerState, NEW p \in Pullers, PullerStep(p),
         UNCHANGED <<rtsp, rtmp, webrtc, cast>>
  PROVE  PullerState' /\ Effect
<1>0. /\ p \in Actors /\ used \subseteq Streams
      /\ PullerOK(puller[p])
  BY PullersAssumption DEF RegInv, PullerState
<1>1. PullerState' /\ UNCHANGED claims
  <2>1. ASSUME NEW s \in used, PullRtsp(p, s) \/ PullRtmp(p, s) PROVE PullerState'
    <3>1. PICK at \in {"setup", "rtmp", "gone"} :
            puller' = [puller EXCEPT ![p] = [at |-> at, stream |-> s]]
      BY <2>1 DEF PullRtsp, PullRtmp
    <3>2. PullerOK([at |-> at, stream |-> s])
      BY <1>0 DEF PullerOK, PullerStates, Names
    <3> QED
      BY <3>1, <3>2, OnePuller
  <2>2. ASSUME NEW from \in {"setup", "tcp", "udp", "rtmp"},
               NEW to \in {"tcp", "udp", "gone", "orphan"}, Goes(p, from, to)
        PROVE  PullerState'
    <3> DEFINE q == [puller[p] EXCEPT !.at = to]
    <3>1. PullerOK(q)
      BY <1>0, <2>2 DEF PullerOK, PullerStates, Goes
    <3>2. puller' = [puller EXCEPT ![p] = q]
      BY <2>2 DEF Goes, PullerState
    <3> HIDE DEF q
    <3> QED
      BY <3>1, <3>2, OnePuller
  <2>3. CASE PullRtspReady(p) \/ PullEnds(p) \/ Orphaned(p)
    BY <2>2, <2>3 DEF PullRtspReady, PullEnds, Orphaned, streams
  <2>4. CASE PulledFrame(p)
    BY <2>4 DEF PulledFrame, PullerState
  <2>5. UNCHANGED claims
    BY DEF PullerStep, PullRtsp, PullRtmp, PullRtspReady, PulledFrame, PullEnds, Orphaned, streams
  <2> QED
    BY <2>1, <2>3, <2>4, <2>5 DEF PullerStep
<1>2. Same(reg, reg')
  <2>1. ASSUME NEW s \in used, PullRtsp(p, s) PROVE Same(reg, reg')
    <3>1. s \in Streams /\ reg' = set_status(create_stream(reg, s), s, "Unpublished")
      BY <1>0, <2>1 DEF PullRtsp
    <3>2. Same(reg, create_stream(reg, s)) /\ RegOK(create_stream(reg, s))
      BY <3>1, CreateSame DEF RegInv, Same
    <3>3. Same(create_stream(reg, s), reg')
      BY <3>1, <3>2, SetStatusSame
    <3> QED
      BY <3>1, <3>2, <3>3, SameTrans
  <2>2. ASSUME NEW s \in used, PullRtmp(p, s) PROVE Same(reg, reg')
    <3>1. s \in Streams /\ reg' = set_publishing(create_stream(reg, s), s, p)
      BY <1>0, <2>2 DEF PullRtmp
    <3>2. Same(reg, create_stream(reg, s)) /\ RegOK(create_stream(reg, s))
      BY <3>1, CreateSame DEF RegInv, Same
    <3>3. Same(create_stream(reg, s), reg')
      BY <1>0, <3>1, <3>2, SetPublishingSame
    <3> QED
      BY <3>1, <3>2, <3>3, SameTrans
  <2>3. CASE PullRtspReady(p) \/ PulledFrame(p) \/ PullEnds(p) \/ Orphaned(p)
    <3>1. \/ UNCHANGED streams
          \/ /\ puller[p].at # "idle"
             /\ \/ reg' = set_publishing(reg, puller[p].stream, p)
                \/ reg' = publish_frame(reg, puller[p].stream, p)
                \/ reg' = set_status(reg, puller[p].stream, "Unpublished")
                \/ reg' = set_status(reg, puller[p].stream, "Stopped")
      BY <2>3 DEF PullRtspReady, PulledFrame, PullEnds, Orphaned, Goes
    <3>2. CASE UNCHANGED streams
      BY <3>2, RegSame
    <3>3. CASE ~UNCHANGED streams
      <4>1. PICK s \in Streams : s = puller[p].stream
        BY <1>0, <3>1, <3>3 DEF PullerOK
      <4> QED
        BY <1>0, <3>1, <3>3, <4>1, SetPublishingSame, SetStatusSame DEF RegInv
    <3> QED
      BY <3>2, <3>3
  <2> QED
    BY <2>1, <2>2, <2>3 DEF PullerStep
<1> QED
  BY <1>1, <1>2, PullerQuiet
-----------------------------------------------------------------------------
\* All together.
Inv == RegInv /\ RtspState /\ RtmpState /\ RtcState /\ PullerState

\* An RTSP or RTMP connection claims slots under its own id only.
LEMMA RtspRelies ==
  ASSUME NEW c \in Rtsp, RtspStep(c), RegInv
  PROVE  \A b \in Actors \ {c} : relies'[b] = relies[b]
<1>1. ASSUME NEW s \in used, Describe(c, s) \/ SetupTcp(c, s) \/ SetupUdp(c, s)
      PROVE  relies' = relies
  BY <1>1 DEF Describe, SetupTcp, SetupUdp, streams, claims
<1>2. CASE Play(c) \/ Pause(c) \/ SenderEnds(c) \/ RtpVideo(c) \/ RtpAudio(c) \/ UdpData(c)
  BY <1>2 DEF Play, Pause, SenderEnds, RtpVideo, RtpAudio, UdpData, streams, claims
<1>3. CASE Teardown(c) \/ Disconnect(c)
  BY <1>3 DEF Teardown, Disconnect, Releases, GivesUp, streams, claims, RegInv
<1>4. ASSUME NEW s \in used, Announce(c, s) PROVE \A b \in Actors \ {c} : relies'[b] = relies[b]
  BY <1>4 DEF Announce, Acquires, claims, RegInv
<1>5. ASSUME NEW s \in used, Record(c, s) PROVE \A b \in Actors \ {c} : relies'[b] = relies[b]
  BY <1>5 DEF Record, streams, claims, RegInv
<1> QED
  BY <1>1, <1>2, <1>3, <1>4, <1>5 DEF RtspStep

LEMMA RtmpRelies ==
  ASSUME NEW c \in Rtmp, RtmpStep(c), RegInv
  PROVE  \A b \in Actors \ {c} : relies'[b] = relies[b]
<1>1. ASSUME NEW s \in used, Publish(c, s) PROVE \A b \in Actors \ {c} : relies'[b] = relies[b]
  BY <1>1 DEF Publish, Acquires, claims, RegInv
<1>2. ASSUME NEW s, PlayStream(c, s) \/ Connect(c, s) PROVE relies' = relies
  BY <1>2 DEF PlayStream, Connect, Loses
<1>3. CASE PlayTaskEnds(c) \/ RtmpFrame(c) \/ HandlerError(c)
  BY <1>3 DEF PlayTaskEnds, RtmpFrame, HandlerError, Loses, streams, claims
<1>4. CASE CloseStream(c) \/ Hangup(c)
  BY <1>4 DEF CloseStream, Hangup, ReleasesRtmp, GivesUp, streams, claims, RegInv
<1> QED
  BY <1>1, <1>2, <1>3, <1>4 DEF RtmpStep

\* Hence others never make an id that was not given out rely on anything.
LEMMA RtcUntouched ==
  ASSUME RtcState, UNCHANGED webrtc,
         \A b \in PublisherIds : relies'[b] \subseteq relies[b]
  PROVE  RtcState'
<1>1. \A w \in Sockets, n \in 1 .. MaxPublish : <<w, n>> \in PublisherIds
  BY DEF PublisherIds
<1> QED
  BY <1>1 DEF RtcState, FreshIds, AgainIdle, webrtc

\* DELETE takes the slot from whoever has it, and the lease with it.
LEMMA RemoveKeeps ==
  ASSUME Inv, NEW s \in Streams, RemoveStream(s), UNCHANGED <<rtsp, rtmp, webrtc, puller>>
  PROVE  Inv' /\ Lease!Next
<1>1. /\ RegOK(reg') /\ reg'[s].slot = Nobody
      /\ \A x \in Streams \ {s} : reg'[x].slot = reg[x].slot
  BY RemoveFrees DEF RemoveStream, Inv, RegInv
<1>2. HeldByLive'
  <2>1. \A b \in Actors : WouldGiveBack(b)' = WouldGiveBack(b)
    BY DEF WouldGiveBack, webrtc
  <2>2. ASSUME NEW x \in Streams, NEW b \in Actors, reg'[x].slot = b, x \notin lost'
        PROVE  x \in WouldGiveBack(b)'
    <3>1. x # s /\ reg[x].slot = b /\ x \notin lost
      BY <1>1, <2>2, NobodyAssumption DEF RemoveStream
    <3> QED
      BY <2>1, <3>1 DEF Inv, RegInv, HeldByLive
  <2> QED
    BY <2>2 DEF HeldByLive
<1>3. RegInv'
  BY <1>1, <1>2 DEF RemoveStream, Inv, RegInv
<1>4. RtcState'
  <2>1. \A b \in PublisherIds : relies'[b] \subseteq relies[b]
    BY SocketsAssumption DEF RemoveStream, PublisherIds
  <2> QED
    BY <2>1, RtcUntouched DEF Inv
<1>5. Lease!Next
  <2>1. holder' = [holder EXCEPT ![s] = Nobody]
    BY <1>1 DEF holder
  <2>2. Lease!Revoke(s)
    BY <2>1 DEF RemoveStream, holder, Lease!Revoke
  <2> QED
    BY <2>2 DEF Lease!Next
<1> QED
  BY <1>3, <1>4, <1>5 DEF Inv, RtspState, SenderOnlyWhilePlaying, RtmpState, PullerState

LEMMA InitInv == Init => Inv
<1> SUFFICES ASSUME Init PROVE Inv
  OBVIOUS
<1>1. RegInv
  BY VacantOK, NobodyAssumption
     DEF Init, StreamsInit, RegInv, RegOK, HeldByLive, Vacant
<1>2. RtspState
  BY DEF Init, RtspInit, NewConn, RtspState, Conns, Names, SenderOnlyWhilePlaying
<1>3. RtmpState
  BY DEF Init, RtmpInit, NewRtmp, RtmpState, RtmpConns, Names
<1>4. RtcState
  BY SocketsAssumption
     DEF Init, StreamsInit, WebRtcInit, RtcState, RtcStates, FreshIds, AgainIdle, PublisherIds, Names
<1>5. PullerState
  BY DEF Init, PullersInit, PullerState, PullerOK, PullerStates, Names
<1> QED
  BY <1>1, <1>2, <1>3, <1>4, <1>5 DEF Inv

LEMMA NextInv ==
  ASSUME Inv, [Next]_vars PROVE Inv' /\ (Lease!Next \/ UNCHANGED <<holder, relies>>)
<1> USE DEF Inv
<1>1. ASSUME NEW c \in Rtsp, RtspStep(c), UNCHANGED <<rtmp, webrtc, puller, cast>>
      PROVE  Inv' /\ (Lease!Next \/ UNCHANGED <<holder, relies>>)
  <2>1. RtspState' /\ Effect
    BY <1>1, RtspEffect DEF NotRtsp
  <2>2. \A b \in PublisherIds : relies'[b] \subseteq relies[b]
    BY <1>1, RtspRelies, ActorsAssumption, SocketsAssumption DEF PublisherIds
  <2> QED
    BY <1>1, <2>1, <2>2, EffectKeeps, EffectLease, RtcUntouched DEF RtmpState, PullerState
<1>2. ASSUME NEW c \in Rtmp, RtmpStep(c), UNCHANGED <<rtsp, webrtc, puller, cast>>
      PROVE  Inv' /\ (Lease!Next \/ UNCHANGED <<holder, relies>>)
  <2>1. RtmpState' /\ Effect
    BY <1>2, RtmpEffect DEF NotRtmp
  <2>2. \A b \in PublisherIds : relies'[b] \subseteq relies[b]
    BY <1>2, RtmpRelies, ActorsAssumption, SocketsAssumption DEF PublisherIds
  <2> QED
    BY <1>2, <2>1, <2>2, EffectKeeps, EffectLease, RtcUntouched
       DEF RtspState, SenderOnlyWhilePlaying, PullerState
<1>3. ASSUME NEW w \in Sockets, WebRtcStep(w), UNCHANGED <<rtsp, rtmp, puller, cast>>
      PROVE  Inv' /\ (Lease!Next \/ UNCHANGED <<holder, relies>>)
  <2>1. RtcState' /\ Effect
    BY <1>3, RtcEffect DEF NotRtc
  <2> QED
    BY <1>3, <2>1, EffectKeeps, EffectLease
       DEF RtspState, SenderOnlyWhilePlaying, RtmpState, PullerState
<1>4. ASSUME NEW p \in Pullers, PullerStep(p), UNCHANGED <<rtsp, rtmp, webrtc, cast>>
      PROVE  Inv' /\ (Lease!Next \/ UNCHANGED <<holder, relies>>)
  <2>1. PullerState' /\ Effect
    BY <1>4, PullerEffect
  <2>2. relies' = relies
    BY <1>4 DEF PullerStep, PullRtsp, PullRtmp, PullRtspReady, PulledFrame, PullEnds,
                Orphaned, streams, claims
  <2> QED
    BY <1>4, <2>1, <2>2, EffectKeeps, EffectLease, RtcUntouched
       DEF RtspState, SenderOnlyWhilePlaying, RtmpState
<1>5. ASSUME NEW s \in used, CreateStream(s), UNCHANGED <<rtsp, rtmp, webrtc, puller>>
      PROVE  Inv' /\ (Lease!Next \/ UNCHANGED <<holder, relies>>)
  <2>1. Effect /\ relies' = relies
    BY <1>5, CreateSame, PullerQuiet DEF CreateStream, RegInv, claims
  <2> QED
    BY <1>5, <2>1, EffectKeeps, EffectLease, RtcUntouched
       DEF RtspState, SenderOnlyWhilePlaying, RtmpState, PullerState
<1>6. ASSUME NEW s \in used, RemoveStream(s), UNCHANGED <<rtsp, rtmp, webrtc, puller>>
      PROVE  Inv' /\ (Lease!Next \/ UNCHANGED <<holder, relies>>)
  BY <1>6, RemoveKeeps DEF RegInv
<1>7. CASE UNCHANGED vars
  <2>1. UNCHANGED <<rtsp, rtmp, webrtc, puller, streams>>
    BY <1>7 DEF vars
  <2>2. Effect /\ relies' = relies
    BY <2>1, RegSame, PullerQuiet DEF claims, streams
  <2> QED
    BY <2>1, <2>2, EffectKeeps, EffectLease, RtcUntouched
       DEF RtspState, SenderOnlyWhilePlaying, RtmpState, PullerState
<1> QED
  BY <1>1, <1>2, <1>3, <1>4, <1>5, <1>6, <1>7 DEF Next

\* The inductive invariant holds throughout.
THEOREM ServerInvariant == Spec => []Inv
<1>1. Inv /\ [Next]_vars => Inv'
  BY NextInv
<1> QED
  BY <1>1, InitInv, PTL DEF Spec

\* Every variable has its type, and a name that is not registered has left nothing
\* behind (stream_manager.rs, and the session records of the three servers).
THEOREM ServerTypeOK == Spec => []TypeOK
<1>1. Inv => TypeOK
  BY DEF Inv, TypeOK, RegInv, RegOK, EntryOK, RtspState, RtmpState, RtcState, PullerState, PullerOK
<1> QED
  BY <1>1, ServerInvariant, PTL

\* No request, frame, disconnect, failed handler or deletion ends or grants a slot but
\* as leases allow, for any mix of protocols (StreamHub::acquire_publisher,
\* release_publisher, StreamManager::remove_stream).
THEOREM ServerLeases == Spec => LeaseSpec
<1>1. Init => Lease!Init
  BY DEF Init, StreamsInit, Vacant, Lease!Init
<1>2. Inv /\ [Next]_vars => [Lease!Next]_<<[s \in Streams |-> reg[s].slot], relies>>
  BY NextInv DEF holder
<1> QED
  BY <1>1, <1>2, ServerInvariant, PTL DEF Spec, LeaseSpec, Lease!Spec

\* Whoever has a slot will give it back, or lost it in one of the enumerated ways
\* (cleanup_on_disconnect, release_publish_connection, cleanup_publish_session).
THEOREM ServerNoDeadHolder == Spec => []NoDeadHolder
<1>1. Inv => NoDeadHolder
  <2> SUFFICES ASSUME Inv, NEW s \in Streams, reg[s].slot # Nobody, s \notin lost
               PROVE  s \in WouldGiveBack(reg[s].slot)
    BY DEF NoDeadHolder
  <2>1. PICK a \in Actors : a = reg[s].slot
    BY DEF Inv, RegInv, RegOK, EntryOK, Entries
  <2>2. s \in WouldGiveBack(a)
    BY <2>1 DEF Inv, RegInv, HeldByLive
  <2> QED
    BY <2>1, <2>2
<1> QED
  BY <1>1, ServerInvariant, PTL

\* A stream without a publisher is on air only when somebody without its slot put it
\* there: every release ends in Unpublished (StreamManager::set_unpublished).
THEOREM ServerOffAir == Spec => []OffAir
<1>1. Inv => OffAir
  BY DEF Inv, RegInv, RegOK, EntryOK, OffAir
<1> QED
  BY <1>1, ServerInvariant, PTL

\* An RTP sender runs only for a connected session that plays, whatever requests came
\* in whatever order (handle_pause, handle_teardown, cleanup_on_disconnect).
THEOREM ServerSenders == Spec => []SenderOnlyWhilePlaying
<1>1. Inv => SenderOnlyWhilePlaying
  BY DEF Inv, RtspState
<1> QED
  BY <1>1, ServerInvariant, PTL
=============================================================================
