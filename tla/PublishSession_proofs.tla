----------------------- MODULE PublishSession_proofs -----------------------
(***************************************************************************)
(* For any number of RTMP and WebRTC publishers and of hubs, a session that*)
(* acquired a hub's slot keeps it until it lets go itself.                 *)
(***************************************************************************)
EXTENDS PublishSession, TLAPS

\* acquire_publisher and release_publisher use an Arc only to a hub they found.
ArcFound ==
  \A s \in Sessions : pc[s] \in {"take", "free", "fail.free"} => arc[s] \in Hubs

\* SlotHeld is not inductive alone: Take and Free write through arc.
SInv == TypeOK /\ ArcFound /\ SlotHeld

\* A step that moves t somewhere else than into an Arc's use keeps ArcFound.
LEMMA MoveArc ==
  ASSUME TypeOK, ArcFound, NEW t \in Tasks, NEW from, NEW to \in Labels,
         Move(t, from, to),
         \A s \in Sessions : s # t => arc'[s] = arc[s],
         to \in {"take", "free", "fail.free"} => arc'[t] \in Hubs
  PROVE  pc' \in [Tasks -> Labels] /\ ArcFound'
<1>1. pc' \in [Tasks -> Labels] /\ pc'[t] = to /\ \A u \in Tasks : u # t => pc'[u] = pc[u]
  BY DEF Move, TypeOK
<1>2. ASSUME NEW s \in Sessions, pc'[s] \in {"take", "free", "fail.free"}
      PROVE  arc'[s] \in Hubs
  <2>1. CASE s = t
    BY <1>1, <1>2, <2>1
  <2>2. CASE s # t
    BY <1>1, <1>2, <2>2 DEF Tasks, ArcFound
  <2> QED
    BY <2>1, <2>2
<1> QED
  BY <1>1, <1>2 DEF ArcFound

\* The initial state satisfies the invariant.
LEMMA InitSInv == Init => SInv
<1> SUFFICES ASSUME Init PROVE SInv
  OBVIOUS
<1>1. TypeOK
  BY MaxHubsAssumption DEF Init, TypeOK, Labels, Hubs
<1>2. ArcFound
  BY DEF Init, ArcFound, Tasks
<1>3. SlotHeld
  BY DEF Init, SlotHeld
<1> QED
  BY <1>1, <1>2, <1>3 DEF SInv

\* The session that takes a slot is its only holder: it was free or its own.
LEMMA TakeSInv == ASSUME SInv, NEW s \in Sessions, Take(s) PROVE SInv'
<1> USE DEF SInv
<1>1. pc[s] = "take" /\ arc[s] \in Hubs /\ s \in Tasks
  BY DEF Take, Move, ArcFound, Tasks
<1>2. TypeOK' /\ ArcFound'
  <2>1. /\ arc' = [arc EXCEPT ![s] = 0]
        /\ Move(s, "take", IF MayTake(s) THEN "acquire.ring" ELSE Rejected(s))
    BY DEF Take
  <2>2. (IF MayTake(s) THEN "acquire.ring" ELSE Rejected(s)) \in {"acquire.ring", "live", "idle"}
    BY DEF Rejected
  <2>3. \A u \in Sessions : u # s => arc'[u] = arc[u]
    BY <2>1 DEF TypeOK, Tasks
  <2>4. pc' \in [Tasks -> Labels] /\ ArcFound'
    BY <1>1, <2>1, <2>2, <2>3, MoveArc DEF Labels
  <2>5. 0 \in 0 .. MaxHubs /\ arc[s] \in 0 .. MaxHubs
    BY <1>1, MaxHubsAssumption DEF Hubs
  <2>6. arc' \in [Tasks -> 0 .. MaxHubs]
    BY <2>1, <2>5 DEF TypeOK
  <2>7. /\ slot' \in [Hubs -> Sessions \cup {Nobody}]
        /\ owns' \in [Sessions -> 0 .. MaxHubs]
        /\ header' \in [Sessions -> BOOLEAN]
    BY <2>5 DEF Take, TypeOK
  <2> QED
    BY <2>4, <2>6, <2>7 DEF Take, TypeOK
<1>3. SlotHeld'
  <2>1. CASE ~MayTake(s)
    BY <2>1 DEF Take, SlotHeld
  <2>2. CASE MayTake(s)
    <3>1. /\ slot' = [slot EXCEPT ![arc[s]] = s]
          /\ owns' = [owns EXCEPT ![s] = arc[s]]
          /\ slot[arc[s]] \in {Nobody, s}
      BY <2>2 DEF Take, MayTake
    <3>2. ASSUME NEW u \in Sessions, owns'[u] # 0 PROVE slot'[owns'[u]] = u
      <4>1. CASE u = s
        BY <1>1, <3>1, <4>1 DEF TypeOK
      <4>2. CASE u # s
        <5>1. owns'[u] = owns[u] /\ slot[owns[u]] = u
          BY <3>1, <3>2, <4>2 DEF TypeOK, SlotHeld
        <5>2. owns[u] # arc[s]
          BY <3>1, <4>2, <5>1, SessionsAssumption DEF Sessions
        <5>3. owns[u] \in Hubs
          BY <3>2, <5>1, MaxHubsAssumption DEF TypeOK, Hubs
        <5> QED
          BY <3>1, <5>1, <5>2, <5>3 DEF TypeOK
      <4> QED
        BY <4>1, <4>2
    <3> QED
      BY <3>2 DEF SlotHeld
  <2> QED
    BY <2>1, <2>2
<1> QED
  BY <1>2, <1>3

\* A release frees the slot of nobody but the session that releases.
LEMMA FreeSInv ==
  ASSUME SInv, NEW s \in Sessions, NEW from \in {"free", "fail.free"},
         NEW freed \in Labels \ {"take", "free", "fail.free"},
         NEW other \in Labels \ {"take", "free", "fail.free"},
         Free(s, from, freed, other)
  PROVE  SInv'
<1> USE DEF SInv
<1>1. pc[s] = from /\ arc[s] \in Hubs /\ s \in Tasks
  BY DEF Free, Move, ArcFound, Tasks
<1>2. TypeOK' /\ ArcFound'
  <2>1. /\ arc' = [arc EXCEPT ![s] = 0]
        /\ Move(s, from, IF MayFree(s) THEN freed ELSE other)
    BY DEF Free
  <2>2. (IF MayFree(s) THEN freed ELSE other) \in Labels \ {"take", "free", "fail.free"}
    OBVIOUS
  <2>3. \A u \in Sessions : u # s => arc'[u] = arc[u]
    BY <2>1 DEF TypeOK, Tasks
  <2>4. pc' \in [Tasks -> Labels] /\ ArcFound'
    BY <1>1, <2>1, <2>2, <2>3, MoveArc
  <2>5. /\ arc' \in [Tasks -> 0 .. MaxHubs]
        /\ slot' \in [Hubs -> Sessions \cup {Nobody}]
        /\ owns' \in [Sessions -> 0 .. MaxHubs]
        /\ header' \in [Sessions -> BOOLEAN]
    BY <1>1, <2>1, MaxHubsAssumption DEF Free, TypeOK, Hubs
  <2> QED
    BY <2>4, <2>5 DEF Free, TypeOK
<1>3. SlotHeld'
  <2>1. /\ slot' = IF slot[arc[s]] = s THEN [slot EXCEPT ![arc[s]] = Nobody] ELSE slot
        /\ owns' = [owns EXCEPT ![s] = 0]
    BY DEF Free, MayFree
  <2>2. ASSUME NEW u \in Sessions, owns'[u] # 0 PROVE slot'[owns'[u]] = u
    <3>1. u # s /\ owns'[u] = owns[u] /\ slot[owns[u]] = u
      BY <2>1, <2>2 DEF TypeOK, SlotHeld
    <3>2. owns[u] \in Hubs
      BY <2>2, <3>1, MaxHubsAssumption DEF TypeOK, Hubs
    <3> QED
      BY <2>1, <3>1, <3>2 DEF TypeOK
  <2> QED
    BY <2>2 DEF SlotHeld
<1> QED
  BY <1>2, <1>3

\* Where a task is when it does not use an Arc to a slot.
Idlers == Labels \ {"take", "free", "fail.free"}

\* A step that touches neither a slot nor what a session owns.
LEMMA QuietSInv ==
  ASSUME SInv, NEW t \in Tasks, NEW from, NEW to \in Labels, Move(t, from, to),
         UNCHANGED <<slot, owns>>,
         made' \in 0 .. MaxHubs, hub' \in {0, made'},
         media' \in [Hubs -> SUBSET (Sessions \cup {Stray})],
         config' \in [Hubs -> Sessions \cup {Nobody}],
         status' \in [Hubs -> {"Created", "Unpublished", "Publishing"}],
         header' \in [Sessions -> BOOLEAN],
         arc' \in [Tasks -> 0 .. MaxHubs],
         \A u \in Tasks : u # t => arc'[u] = arc[u],
         to \in {"take", "free", "fail.free"} => arc'[t] \in Hubs
  PROVE  SInv'
<1>1. pc' \in [Tasks -> Labels] /\ ArcFound'
  BY MoveArc DEF SInv, Tasks
<1>2. TypeOK'
  BY <1>1 DEF SInv, TypeOK
<1>3. SlotHeld'
  BY DEF SInv, SlotHeld
<1> QED
  BY <1>1, <1>2, <1>3 DEF SInv

\* The hub the registry names, if any, is one that was made.
LEMMA HubMade == ASSUME SInv PROVE hub \in 0 .. MaxHubs /\ (hub # 0 => hub \in Hubs)
BY MaxHubsAssumption DEF SInv, TypeOK, Hubs

\* create_stream only names a hub.
LEMMA CreateSInv == ASSUME SInv, NEW s \in Sessions, Create(s) PROVE SInv'
<1>1. \E from \in {"idle", "live"} : Move(s, from, "find")
  BY DEF Create
<1>2. made' \in 0 .. MaxHubs /\ hub' \in {0, made'}
  BY MaxHubsAssumption DEF Create, SInv, TypeOK
<1> QED
  BY <1>1, <1>2, QuietSInv DEF Create, SInv, TypeOK, Tasks, Labels

\* acquire_publisher enters the hub's own method with a hub it found.
LEMMA FindSInv == ASSUME SInv, NEW s \in Sessions, Find(s) PROVE SInv'
<1> DEFINE to == IF hub = 0 THEN Rejected(s) ELSE "take"
<1>1. Move(s, "find", to) /\ to \in Labels /\ s \in Tasks
  BY DEF Find, Rejected, Labels, Tasks
<1>2. arc' = [arc EXCEPT ![s] = hub] /\ arc \in [Tasks -> 0 .. MaxHubs]
  BY DEF Find, SInv, TypeOK
<1>3. /\ arc' \in [Tasks -> 0 .. MaxHubs]
      /\ \A u \in Tasks : u # s => arc'[u] = arc[u]
      /\ arc'[s] = hub
  BY <1>1, <1>2, HubMade
<1>4. to \in {"take", "free", "fail.free"} => arc'[s] \in Hubs
  BY <1>3, HubMade DEF Rejected
<1> HIDE DEF to
<1> QED
  BY <1>1, <1>3, <1>4, QuietSInv DEF Find, hubs, SInv, TypeOK

\* The two halves of reset_stream_media, and the status and parameter set
\* setters, write neither slots nor what is owned.
LEMMA ResetRingSInv ==
  ASSUME SInv, NEW t \in Tasks, NEW from, NEW wiped \in Idlers, NEW none \in Idlers,
         ResetRing(t, from, wiped, none)
  PROVE  SInv'
<1> DEFINE to == IF hub = 0 THEN none ELSE wiped
<1>1. Move(t, from, to) /\ to \in Idlers
  BY DEF ResetRing
<1>2. arc' = [arc EXCEPT ![t] = hub] /\ arc \in [Tasks -> 0 .. MaxHubs]
  BY DEF ResetRing, SInv, TypeOK
<1>3. arc' \in [Tasks -> 0 .. MaxHubs] /\ \A u \in Tasks : u # t => arc'[u] = arc[u]
  BY <1>2, HubMade
<1>4. media' \in [Hubs -> SUBSET (Sessions \cup {Stray})]
  BY DEF ResetRing, SInv, TypeOK
<1> HIDE DEF to
<1> QED
  BY <1>1, <1>3, <1>4, QuietSInv DEF ResetRing, SInv, TypeOK, Idlers

LEMMA ResetConfigSInv ==
  ASSUME SInv, NEW t \in Tasks, NEW from, NEW to \in Idlers, ResetConfig(t, from, to)
  PROVE  SInv'
<1>1. arc' = [arc EXCEPT ![t] = 0] /\ arc \in [Tasks -> 0 .. MaxHubs] /\ 0 \in 0 .. MaxHubs
  BY MaxHubsAssumption DEF ResetConfig, SInv, TypeOK
<1>2. arc' \in [Tasks -> 0 .. MaxHubs] /\ \A u \in Tasks : u # t => arc'[u] = arc[u]
  BY <1>1
<1>3. config' \in [Hubs -> Sessions \cup {Nobody}]
  BY DEF ResetConfig, SInv, TypeOK
<1> QED
  BY <1>2, <1>3, QuietSInv DEF ResetConfig, SInv, TypeOK, Idlers

LEMMA SetStatusSInv ==
  ASSUME SInv, NEW t \in Tasks, NEW from, NEW to \in Idlers,
         NEW value \in {"Unpublished", "Publishing"}, SetStatus(t, from, to, value)
  PROVE  SInv'
<1>1. status' \in [Hubs -> {"Created", "Unpublished", "Publishing"}]
  BY DEF SetStatus, SInv, TypeOK
<1> QED
  BY <1>1, QuietSInv DEF SetStatus, SInv, TypeOK, Idlers

LEMMA SetConfigSInv ==
  ASSUME SInv, NEW s \in Sessions, NEW from, NEW to \in Idlers, SetConfig(s, from, to)
  PROVE  SInv'
<1>1. config' \in [Hubs -> Sessions \cup {Nobody}] /\ header' \in [Sessions -> BOOLEAN]
  BY DEF SetConfig, SInv, TypeOK
<1> QED
  BY <1>1, QuietSInv DEF SetConfig, SInv, TypeOK, Idlers, Tasks

\* A step of one task that changes nothing shared.
LEMMA MoveSInv ==
  ASSUME SInv, NEW t \in Tasks, NEW from, NEW to \in Idlers, Move(t, from, to),
         UNCHANGED <<hubs, arc, owns, header>>
  PROVE  SInv'
BY QuietSInv DEF SInv, TypeOK, Idlers, hubs

\* Nor do the two halves of publish_frame.
LEMMA PublishFrameSInv == ASSUME SInv, NEW t \in Tasks, PublishFrame(t) PROVE SInv'
<1>1. SessionOf(t) \in Sessions
  BY DEF PublishFrame, SessionOf, Tasks, Tracks, Sessions
<1>2. media' \in [Hubs -> SUBSET (Sessions \cup {Stray})]
  BY <1>1 DEF PublishFrame, SInv, TypeOK
<1> QED
  BY <1>2, QuietSInv DEF PublishFrame, SInv, TypeOK, Labels

LEMMA HealStatusSInv == ASSUME SInv, NEW t \in Tasks, HealStatus(t) PROVE SInv'
<1>1. status' \in [Hubs -> {"Created", "Unpublished", "Publishing"}]
  BY DEF HealStatus, SInv, TypeOK
<1> QED
  BY <1>1, QuietSInv DEF HealStatus, SInv, TypeOK, Labels

\* release_publisher gives up at once when the name has no hub.
LEMMA FindHeldSInv ==
  ASSUME SInv, NEW s \in Sessions, NEW from, NEW found \in Labels, NEW none \in Idlers,
         FindHeld(s, from, found, none)
  PROVE  SInv'
<1> DEFINE to == IF hub = 0 THEN none ELSE found
<1>1. Move(s, from, to) /\ to \in Labels /\ s \in Tasks
  BY DEF FindHeld, Idlers, Tasks
<1>2. arc' = [arc EXCEPT ![s] = hub] /\ arc \in [Tasks -> 0 .. MaxHubs]
  BY DEF FindHeld, SInv, TypeOK
<1>3. /\ arc' \in [Tasks -> 0 .. MaxHubs]
      /\ \A u \in Tasks : u # s => arc'[u] = arc[u]
      /\ arc'[s] = hub
  BY <1>1, <1>2, HubMade
<1>4. to \in {"take", "free", "fail.free"} => arc'[s] \in Hubs
  BY <1>3, HubMade DEF Idlers
<1>5. pc' \in [Tasks -> Labels] /\ ArcFound'
  <2> HIDE DEF to
  <2> QED
    BY <1>1, <1>3, <1>4, MoveArc DEF SInv, Tasks
<1>6. owns' = IF hub = 0 THEN [owns EXCEPT ![s] = 0] ELSE owns
  BY DEF FindHeld
<1>7. 0 \in 0 .. MaxHubs
  BY MaxHubsAssumption
<1>8. owns' \in [Sessions -> 0 .. MaxHubs]
  BY <1>6, <1>7 DEF SInv, TypeOK
<1>9. TypeOK'
  BY <1>3, <1>5, <1>8 DEF FindHeld, hubs, SInv, TypeOK
<1>10. SlotHeld'
  BY <1>6 DEF FindHeld, hubs, SInv, TypeOK, SlotHeld
<1> QED
  BY <1>5, <1>9, <1>10 DEF SInv

\* A removed hub keeps its slot, and its publisher the slot.
LEMMA RemoveStreamSInv == ASSUME SInv, RemoveStream PROVE SInv'
<1>1. TypeOK'
  BY DEF RemoveStream, SInv, TypeOK
<1>2. ArcFound' /\ SlotHeld'
  BY DEF RemoveStream, SInv, ArcFound, SlotHeld
<1> QED
  BY <1>1, <1>2 DEF SInv
-----------------------------------------------------------------------------
\* The steps of a session, by the phase they belong to.
LEMMA SessionSInv == ASSUME SInv, NEW s \in Sessions, Session(s) PROVE SInv'
<1>0. s \in Tasks /\ Released(s) \in Idlers
  BY DEF Tasks, Released, Idlers, Labels
<1>1. CASE Create(s)
  BY <1>1, CreateSInv
<1>2. CASE Find(s)
  BY <1>2, FindSInv
<1>3. CASE Take(s)
  BY <1>3, TakeSInv
<1>4. CASE Acquired(s)
  <2>1. (IF s \in Rtmp THEN "respond" ELSE "sdp") \in Idlers
    BY DEF Idlers, Labels
  <2>2. {"acquire.config", "acquire.status", "live"} \subseteq Idlers
    BY DEF Idlers, Labels
  <2> QED
    BY <1>0, <1>4, <2>1, <2>2, ResetRingSInv, ResetConfigSInv, SetStatusSInv DEF Acquired
<1>5. CASE Respond(s) \/ StartTrack(s) \/ FailSetup(s) \/ Disconnect(s)
  <2>1. {"publishing", "leaked", "live", "fail", "release"} \subseteq Idlers
    BY DEF Idlers, Labels
  <2>2. StartTrack(s) => Track(s) \in Tasks
    BY DEF StartTrack, Tracks, Tasks
  <2> QED
    BY <1>0, <1>5, <2>1, <2>2, MoveSInv DEF Respond, StartTrack, FailSetup, Disconnect
<1>6. CASE SequenceHeader(s) \/ Offer(s)
  <2>1. {"publishing", "live"} \subseteq Idlers
    BY DEF Idlers, Labels
  <2> QED
    BY <1>0, <1>6, <2>1, SetConfigSInv, MoveSInv DEF SequenceHeader, Offer
<1>7. CASE Release(s)
  <2>1. {"free", "fail.free"} \subseteq Labels /\ {"gone", "release.ring", "end.ring"} \subseteq Idlers
    BY DEF Idlers, Labels
  <2>2. CASE FindHeld(s, "release", "free", Released(s)) \/ FindHeld(s, "fail", "fail.free", "gone")
    BY <1>0, <2>1, <2>2, FindHeldSInv
  <2>3. CASE Free(s, "free", "release.ring", Released(s)) \/ Free(s, "fail.free", "end.ring", "gone")
    BY <1>0, <2>1, <2>3, FreeSInv DEF Idlers
  <2> QED
    BY <1>7, <2>2, <2>3 DEF Release
<1>8. CASE Cleanup(s)
  <2>1. {"release.config", "release.status", "end.config", "gone"} \subseteq Idlers
    BY DEF Idlers, Labels
  <2> QED
    BY <1>0, <1>8, <2>1, ResetRingSInv, ResetConfigSInv, SetStatusSInv DEF Cleanup
<1> QED
  BY <1>1, <1>2, <1>3, <1>4, <1>5, <1>6, <1>7, <1>8 DEF Session

\* A track that ends resets media, never a slot.
LEMMA TrackEndSInv == ASSUME SInv, NEW t \in Tracks, TrackEnd(t) PROVE SInv'
<1>1. t \in Tasks /\ {"end.ring", "end.config", "gone"} \subseteq Idlers
  BY DEF Tasks, Idlers, Labels
<1> QED
  BY <1>1, ResetRingSInv, ResetConfigSInv, SetStatusSInv DEF TrackEnd

\* Every step keeps the invariant.
LEMMA NextSInv == SInv /\ [Next]_vars => SInv'
<1> SUFFICES ASSUME SInv, [Next]_vars PROVE SInv'
  OBVIOUS
<1>1. CASE \E s \in Sessions : Session(s)
  BY <1>1, SessionSInv
<1>2. CASE \E t \in Tasks : PublishFrame(t) \/ HealStatus(t)
  BY <1>2, PublishFrameSInv, HealStatusSInv
<1>3. CASE \E t \in Tracks : TrackEnd(t)
  BY <1>3, TrackEndSInv
<1>4. CASE RemoveStream
  BY <1>4, RemoveStreamSInv
<1>5. CASE UNCHANGED vars
  BY <1>5 DEF vars, hubs, SInv, TypeOK, ArcFound, SlotHeld
<1> QED
  BY <1>1, <1>2, <1>3, <1>4, <1>5 DEF Next

\* The inductive invariant holds throughout.
THEOREM SessionInvariant == Spec => []SInv
BY InitSInv, NextSInv, PTL DEF Spec

\* Every variable keeps its type, and the registry names the hub made last
\* (create_stream, remove_stream).
THEOREM SessionTypeOK == Spec => []TypeOK
<1>1. SInv => TypeOK
  BY DEF SInv
<1> QED
  BY <1>1, SessionInvariant, PTL

\* Whoever acquired a hub's slot has it until it lets go itself, under any
\* contention, removal, re-creation or rejection (stream_hub.rs:103-122).
THEOREM SessionSlotHeld == Spec => []SlotHeld
<1>1. SInv => SlotHeld
  BY DEF SInv
<1> QED
  BY <1>1, SessionInvariant, PTL

\* Hence two sessions are never both the publisher of one hub.
OnePublisher ==
  \A s, t \in Sessions : owns[s] # 0 /\ owns[s] = owns[t] => s = t
THEOREM SessionOnePublisher == Spec => []OnePublisher
<1>1. SInv => OnePublisher
  BY DEF SInv, SlotHeld, OnePublisher
<1> QED
  BY <1>1, SessionInvariant, PTL
-----------------------------------------------------------------------------
\* What the session's variables say of the leases.
Held == Lease!Next \/ UNCHANGED <<slot, [s \in Sessions |-> {owns[s]} \ {0}]>>

\* Steps that change neither slots nor what is owned are stutters of the lease.
LEMMA QuietLease == ASSUME UNCHANGED <<slot, owns>> PROVE Held
BY DEF Held

\* A session that lets go of no slot only forgets.
LEMMA ForgetLease ==
  ASSUME SInv, NEW s \in Sessions, UNCHANGED slot, owns' = [owns EXCEPT ![s] = 0]
  PROVE  Held
<1> DEFINE relies == [u \in Sessions |-> {owns[u]} \ {0}]
<1>1. relies' = [relies EXCEPT ![s] = {}]
  BY DEF SInv, TypeOK
<1>2. {} \in SUBSET relies[s]
  OBVIOUS
<1>3. Lease!Forget(s)
  BY <1>1, <1>2 DEF Lease!Forget
<1> QED
  BY <1>3 DEF Held, Lease!Next

\* acquire_publisher's second half is a grant of the hub, or changes nothing.
LEMMA TakeLease == ASSUME SInv, NEW s \in Sessions, Take(s) PROVE Held
<1> DEFINE relies == [u \in Sessions |-> {owns[u]} \ {0}]
<1>1. CASE ~MayTake(s)
  BY <1>1, QuietLease DEF Take
<1>2. CASE MayTake(s)
  <2>1. PICK l \in Hubs : l = arc[s] /\ l # 0
    BY DEF Take, Move, SInv, ArcFound, Hubs
  <2>2. /\ slot[l] \in {Nobody, s}
        /\ slot' = [slot EXCEPT ![l] = s]
        /\ owns' = [owns EXCEPT ![s] = l]
    BY <1>2, <2>1 DEF Take, MayTake
  <2>3. relies' = [relies EXCEPT ![s] = {} \cup {l}]
    BY <2>1, <2>2 DEF SInv, TypeOK
  <2>4. Lease!Grant(s, l)
    BY <2>2, <2>3 DEF Lease!Grant
  <2> QED
    BY <2>4 DEF Held, Lease!Next
<1> QED
  BY <1>1, <1>2

\* release_publisher's second half gives the hub up, or forgets it: the session's
\* own slot may be on a hub that was removed meanwhile.
LEMMA FreeLease ==
  ASSUME SInv, NEW s \in Sessions, NEW from \in {"free", "fail.free"}, NEW freed, NEW other,
         Free(s, from, freed, other)
  PROVE  Held
<1> DEFINE relies == [u \in Sessions |-> {owns[u]} \ {0}]
<1>1. CASE ~MayFree(s)
  BY <1>1, ForgetLease DEF Free
<1>2. CASE MayFree(s)
  <2>1. PICK l \in Hubs : l = arc[s]
    BY DEF Free, Move, SInv, ArcFound
  <2>2. /\ slot[l] = s
        /\ slot' = [slot EXCEPT ![l] = Nobody]
        /\ owns' = [owns EXCEPT ![s] = 0]
    BY <1>2, <2>1 DEF Free, MayFree
  <2>3. relies' = [relies EXCEPT ![s] = {} \ {l}]
    BY <2>2 DEF SInv, TypeOK
  <2>4. Lease!GiveUp(s, l)
    BY <2>2, <2>3 DEF Lease!GiveUp
  <2> QED
    BY <2>4 DEF Held, Lease!Next
<1> QED
  BY <1>1, <1>2

LEMMA ReleaseLease == ASSUME SInv, NEW s \in Sessions, Release(s) PROVE Held
<1>1. ASSUME NEW from, NEW found, NEW none, FindHeld(s, from, found, none) PROVE Held
  <2>1. CASE hub = 0
    BY <1>1, <2>1, ForgetLease DEF FindHeld, hubs
  <2>2. CASE hub # 0
    BY <1>1, <2>2, QuietLease DEF FindHeld, hubs
  <2> QED
    BY <2>1, <2>2
<1>2. CASE \/ FindHeld(s, "release", "free", Released(s)) \/ FindHeld(s, "fail", "fail.free", "gone")
  BY <1>1, <1>2
<1>3. CASE \/ Free(s, "free", "release.ring", Released(s)) \/ Free(s, "fail.free", "end.ring", "gone")
  BY <1>3, FreeLease
<1> QED
  BY <1>2, <1>3 DEF Release

\* All the others: the registry, the media, the status and the parameter sets.
LEMMA OtherLease ==
  ASSUME NEW s \in Sessions,
         \/ Create(s) \/ Find(s) \/ Acquired(s) \/ Respond(s) \/ SequenceHeader(s)
         \/ Offer(s) \/ StartTrack(s) \/ FailSetup(s) \/ Disconnect(s) \/ Cleanup(s)
  PROVE  Held
<1> SUFFICES UNCHANGED <<slot, owns>>
  BY QuietLease
<1>1. CASE Create(s) \/ Find(s) \/ Respond(s) \/ StartTrack(s) \/ FailSetup(s) \/ Disconnect(s)
  BY <1>1 DEF Create, Find, Respond, StartTrack, FailSetup, Disconnect, hubs
<1>2. CASE Acquired(s) \/ Cleanup(s)
  BY <1>2 DEF Acquired, Cleanup, ResetRing, ResetConfig, SetStatus
<1>3. CASE SequenceHeader(s) \/ Offer(s)
  BY <1>3 DEF SequenceHeader, Offer, SetConfig, hubs
<1> QED
  BY <1>1, <1>2, <1>3

LEMMA NextLease == SInv /\ [Next]_vars => Held
<1> SUFFICES ASSUME SInv, [Next]_vars PROVE Held
  OBVIOUS
<1>1. CASE \E s \in Sessions : Session(s)
  BY <1>1, TakeLease, ReleaseLease, OtherLease DEF Session
<1>2. CASE \E t \in Tasks : PublishFrame(t) \/ HealStatus(t)
  BY <1>2, QuietLease DEF PublishFrame, HealStatus
<1>3. CASE \E t \in Tracks : TrackEnd(t)
  BY <1>3, QuietLease DEF TrackEnd, ResetRing, ResetConfig, SetStatus
<1>4. CASE RemoveStream \/ UNCHANGED vars
  BY <1>4, QuietLease DEF RemoveStream, vars, hubs
<1> QED
  BY <1>1, <1>2, <1>3, <1>4 DEF Next

\* The publisher slots of hubs are leases: with each look-up and each use of a hub
\* a step of its own, and streams removed and recreated in between, a slot is granted
\* only when free or the asker's own and ended only by its holder
\* (StreamHub::acquire_publisher, release_publisher).
THEOREM SessionLeases == Spec => LeaseSpec
<1>1. Init => Lease!Init
  BY DEF Init, Lease!Init
<1>2. SInv /\ [Next]_vars => [Lease!Next]_<<slot, [s \in Sessions |-> {owns[s]} \ {0}]>>
  BY NextLease DEF Held
<1> QED
  BY <1>1, <1>2, SessionInvariant, PTL DEF Spec, LeaseSpec, Lease!Spec
-----------------------------------------------------------------------------
\* Where a session is once it let go of what it owned.
Over ==
  {"idle", "gone", "release.ring", "release.config", "release.status", "end.ring", "end.config"}
Using == {"take", "free", "fail.free"}

\* A hub that is yet to be made has no publisher, and nobody can know it.
FreshHubs ==
  /\ \A h \in Hubs : h > made => slot[h] = Nobody
  /\ \A s \in Sessions : arc[s] <= made /\ owns[s] <= made

\* Whoever the registered hub has for its publisher knows it, and acquires and
\* releases no other: an Arc to an older hub would need the session to be at rest.
HolderInCharge ==
  hub # 0 => \A s \in Sessions :
    slot[hub] = s => owns[s] = hub /\ (pc[s] \in Using => arc[s] = hub)

EndedOwnsNothing == \A s \in Sessions : pc[s] \in Over => owns[s] = 0

\* From its reset on, the owner's ring holds what it pushed itself, and strays.
OwnMedia ==
  hub # 0 => \A s \in Sessions :
    owns[s] = hub /\ pc[s] # "acquire.ring" => media[hub] \subseteq {s, Stray}

PInv == FreshHubs /\ HolderInCharge /\ EndedOwnsNothing /\ OwnMedia

LEMMA InitPInv == Init => PInv
BY DEF Init, PInv, FreshHubs, HolderInCharge, EndedOwnsNothing, OwnMedia, Tasks

\* A step of one task that leaves registry, slots and ownership alone, uses no hub
\* but the registered one, and adds no frames.
LEMMA QuietPInv ==
  ASSUME SInv, PInv, NEW t \in Tasks, NEW from, NEW to, Move(t, from, to),
         UNCHANGED <<hub, made, slot, owns>>,
         \A u \in Tasks : u # t => arc'[u] = arc[u],
         arc'[t] \in {arc[t], 0, hub},
         to \in Using => arc'[t] = hub,
         to \in Over => from \in Over \/ t \notin Sessions,
         hub # 0 => media'[hub] \subseteq media[hub],
         hub # 0 /\ from = "acquire.ring" => media'[hub] = {}
  PROVE  PInv'
<1>1. pc[t] = from /\ pc'[t] = to /\ \A u \in Tasks : u # t => pc'[u] = pc[u]
  BY DEF Move, SInv, TypeOK
<1>2. FreshHubs'
  <2>1. hub <= made /\ 0 <= made
    BY MaxHubsAssumption DEF SInv, TypeOK
  <2> QED
    BY <2>1 DEF PInv, FreshHubs, Tasks
<1>3. HolderInCharge'
  BY <1>1 DEF PInv, HolderInCharge, Tasks
<1>4. EndedOwnsNothing'
  BY <1>1 DEF PInv, EndedOwnsNothing, Tasks
<1>5. OwnMedia'
  <2> SUFFICES ASSUME hub # 0, NEW s \in Sessions, owns[s] = hub, pc'[s] # "acquire.ring"
               PROVE  media'[hub] \subseteq {s, Stray}
    BY DEF OwnMedia
  <2>1. CASE pc[s] = "acquire.ring"
    <3>1. s = t
      BY <1>1, <2>1 DEF Tasks
    <3> QED
      BY <1>1, <2>1, <3>1
  <2>2. CASE pc[s] # "acquire.ring"
    BY <2>2 DEF PInv, OwnMedia
  <2> QED
    BY <2>1, <2>2
<1> QED
  BY <1>2, <1>3, <1>4, <1>5 DEF PInv

\* A new hub is nobody's.
LEMMA CreatePInv == ASSUME SInv, PInv, NEW s \in Sessions, Create(s) PROVE PInv'
<1>1. s \in Tasks /\ \E from \in {"idle", "live"} : Move(s, from, "find")
  BY DEF Create, Tasks
<1>2. CASE hub # 0
  <2>1. UNCHANGED <<hub, made, slot, owns, arc, media>>
    BY <1>2 DEF Create
  <2> QED
    BY <1>1, <2>1, QuietPInv DEF Over, Using
<1>3. CASE hub = 0
  <2>1. /\ made' = made + 1 /\ hub' = made + 1 /\ made < MaxHubs /\ made \in 0 .. MaxHubs
        /\ UNCHANGED <<slot, owns, arc, media>>
    BY <1>3 DEF Create, SInv, TypeOK
  <2>2. hub' \in Hubs /\ slot[hub'] = Nobody
    BY <2>1, MaxHubsAssumption DEF Hubs, PInv, FreshHubs
  <2>3. FreshHubs'
    <3>1. \A u \in Sessions : arc[u] \in 0 .. MaxHubs /\ owns[u] \in 0 .. MaxHubs
      BY DEF SInv, TypeOK, Tasks
    <3> QED
      BY <2>1, <3>1, MaxHubsAssumption DEF PInv, FreshHubs, Hubs
  <2>4. \A u \in Sessions : owns[u] # hub'
    <3>1. \A u \in Sessions : owns[u] \in 0 .. MaxHubs /\ owns[u] <= made
      BY DEF SInv, TypeOK, PInv, FreshHubs
    <3> QED
      BY <2>1, <3>1, MaxHubsAssumption
  <2>5. HolderInCharge' /\ OwnMedia'
    BY <2>1, <2>2, <2>4, SessionsAssumption DEF HolderInCharge, OwnMedia, Sessions
  <2>6. EndedOwnsNothing'
    BY <1>1, <2>1 DEF PInv, EndedOwnsNothing, Move, Over, SInv, TypeOK, Tasks
  <2> QED
    BY <2>3, <2>5, <2>6 DEF PInv
<1> QED
  BY <1>2, <1>3

\* A removed hub never comes back to the registry.
LEMMA RemovePInv == ASSUME PInv, RemoveStream PROVE PInv'
BY DEF RemoveStream, PInv, FreshHubs, HolderInCharge, EndedOwnsNothing, OwnMedia

\* The hub taken is the registered one, or the session holds no registered hub.
LEMMA TakePInv == ASSUME SInv, PInv, NEW s \in Sessions, Take(s) PROVE PInv'
<1>1. /\ s \in Tasks /\ pc[s] = "take" /\ arc[s] \in Hubs
      /\ Move(s, "take", IF MayTake(s) THEN "acquire.ring" ELSE Rejected(s))
      /\ arc' = [arc EXCEPT ![s] = 0]
      /\ UNCHANGED <<hub, made, media>>
  BY DEF Take, Move, SInv, ArcFound, Tasks
<1>2. arc'[s] = 0 /\ \A u \in Tasks : u # s => arc'[u] = arc[u]
  BY <1>1 DEF SInv, TypeOK
<1>3. made \in Nat /\ hub \in Nat
  BY MaxHubsAssumption DEF SInv, TypeOK
<1>4. CASE ~MayTake(s)
  <2>1. UNCHANGED <<slot, owns>> /\ Move(s, "take", Rejected(s))
    BY <1>1, <1>4 DEF Take
  <2>2. pc'[s] = Rejected(s) /\ \A u \in Tasks : u # s => pc'[u] = pc[u]
    BY <1>1, <2>1 DEF Move, SInv, TypeOK
  <2>3. FreshHubs'
    BY <1>1, <1>2, <1>3, <2>1 DEF PInv, FreshHubs, Tasks
  <2>4. HolderInCharge'
    <3>1. Rejected(s) \notin Using
      BY DEF Rejected, Using
    <3> QED
      BY <1>1, <1>2, <2>1, <2>2, <3>1 DEF PInv, HolderInCharge, Tasks
  <2>5. EndedOwnsNothing'
    BY <2>1, <2>2 DEF PInv, EndedOwnsNothing, Rejected, Over, Tasks
  <2>6. OwnMedia'
    BY <1>1, <2>1, <2>2 DEF PInv, OwnMedia, Tasks
  <2> QED
    BY <2>3, <2>4, <2>5, <2>6 DEF PInv
<1>5. CASE MayTake(s)
  <2>1. /\ slot' = [slot EXCEPT ![arc[s]] = s]
        /\ owns' = [owns EXCEPT ![s] = arc[s]]
        /\ slot[arc[s]] \in {Nobody, s} /\ Move(s, "take", "acquire.ring")
    BY <1>1, <1>5 DEF Take, MayTake
  <2>2. pc'[s] = "acquire.ring" /\ \A u \in Tasks : u # s => pc'[u] = pc[u]
    BY <1>1, <2>1 DEF Move, SInv, TypeOK
  <2>3. owns'[s] = arc[s] /\ \A u \in Sessions : u # s => owns'[u] = owns[u]
    BY <2>1 DEF SInv, TypeOK
  <2>4. slot'[arc[s]] = s /\ \A h \in Hubs : h # arc[s] => slot'[h] = slot[h]
    BY <1>1, <2>1 DEF SInv, TypeOK
  <2>5. FreshHubs'
    <3>1. arc[s] <= made /\ ~(arc[s] > made)
      BY <1>1, <1>3 DEF PInv, FreshHubs, Hubs
    <3> QED
      BY <1>1, <1>2, <1>3, <2>3, <2>4, <3>1 DEF PInv, FreshHubs, Tasks
  <2>6. HolderInCharge'
    <3> SUFFICES ASSUME hub # 0, NEW u \in Sessions, slot'[hub] = u
                 PROVE  owns'[u] = hub /\ (pc'[u] \in Using => arc'[u] = hub)
      BY <1>1 DEF HolderInCharge
    <3>1. hub \in Hubs
      BY HubMade
    <3>2. CASE hub = arc[s]
      BY <2>2, <2>3, <2>4, <3>2 DEF Using
    <3>3. CASE hub # arc[s]
      <4>1. slot[hub] = u
        BY <2>4, <3>1, <3>3
      <4>2. owns[u] = hub /\ (pc[u] \in Using => arc[u] = hub)
        BY <4>1 DEF PInv, HolderInCharge
      <4>3. u # s
        BY <1>1, <3>3, <4>2 DEF Using
      <4> QED
        BY <1>2, <2>2, <2>3, <4>2, <4>3 DEF Tasks
    <3> QED
      BY <3>2, <3>3
  <2>7. EndedOwnsNothing'
    BY <2>2, <2>3 DEF PInv, EndedOwnsNothing, Over, Tasks
  <2>8. OwnMedia'
    BY <1>1, <2>2, <2>3 DEF PInv, OwnMedia, Tasks
  <2> QED
    BY <2>5, <2>6, <2>7, <2>8 DEF PInv
<1> QED
  BY <1>4, <1>5

\* After its release a session is no registered hub's publisher.
LEMMA FreePInv ==
  ASSUME SInv, PInv, NEW s \in Sessions, NEW from \in {"free", "fail.free"},
         NEW freed, freed \notin Using, NEW other, other \notin Using,
         Free(s, from, freed, other)
  PROVE  PInv'
<1>1. /\ s \in Tasks /\ pc[s] = from /\ arc[s] \in Hubs
      /\ Move(s, from, IF MayFree(s) THEN freed ELSE other)
      /\ arc' = [arc EXCEPT ![s] = 0] /\ owns' = [owns EXCEPT ![s] = 0]
      /\ UNCHANGED <<hub, made, media>>
  BY DEF Free, Move, SInv, ArcFound, Tasks
<1>2. arc'[s] = 0 /\ \A u \in Tasks : u # s => arc'[u] = arc[u]
  BY <1>1 DEF SInv, TypeOK
<1>3. owns'[s] = 0 /\ \A u \in Sessions : u # s => owns'[u] = owns[u]
  BY <1>1 DEF SInv, TypeOK
<1>4. pc'[s] \notin Using /\ \A u \in Tasks : u # s => pc'[u] = pc[u]
  BY <1>1 DEF Move, SInv, TypeOK
<1>5. slot' = IF slot[arc[s]] = s THEN [slot EXCEPT ![arc[s]] = Nobody] ELSE slot
  BY DEF Free, MayFree
<1>6. /\ \A h \in Hubs : slot'[h] \in {slot[h], Nobody}
      /\ slot'[arc[s]] # s
  BY <1>1, <1>5, SessionsAssumption DEF SInv, TypeOK, Sessions
<1>7. FreshHubs'
  <2>1. made \in Nat
    BY MaxHubsAssumption DEF SInv, TypeOK
  <2> QED
    BY <1>1, <1>2, <1>3, <1>6, <2>1 DEF PInv, FreshHubs, Tasks
<1>8. HolderInCharge'
  <2> SUFFICES ASSUME hub # 0, NEW u \in Sessions, slot'[hub] = u
               PROVE  owns'[u] = hub /\ (pc'[u] \in Using => arc'[u] = hub)
    BY <1>1 DEF HolderInCharge
  <2>1. slot[hub] = u
    BY <1>6, HubMade, SessionsAssumption DEF Sessions
  <2>2. owns[u] = hub /\ (pc[u] \in Using => arc[u] = hub)
    BY <2>1 DEF PInv, HolderInCharge
  <2>3. u # s
    BY <1>1, <1>6, <2>2 DEF Using
  <2> QED
    BY <1>2, <1>3, <1>4, <2>2, <2>3 DEF Tasks
<1>9. EndedOwnsNothing'
  BY <1>3, <1>4 DEF PInv, EndedOwnsNothing, Tasks
<1>10. OwnMedia'
  BY <1>1, <1>3, <1>4 DEF PInv, OwnMedia, Tasks
<1> QED
  BY <1>7, <1>8, <1>9, <1>10 DEF PInv

LEMMA FindHeldPInv ==
  ASSUME SInv, PInv, NEW s \in Sessions, NEW from, from # "acquire.ring", NEW found \in Using,
         NEW none, none \notin Using, FindHeld(s, from, found, none)
  PROVE  PInv'
<1>1. /\ s \in Tasks /\ arc' = [arc EXCEPT ![s] = hub]
      /\ Move(s, from, IF hub = 0 THEN none ELSE found)
      /\ UNCHANGED <<hub, made, slot, media>>
  BY DEF FindHeld, hubs, Tasks
<1>2. arc'[s] = hub /\ \A u \in Tasks : u # s => arc'[u] = arc[u]
  BY <1>1 DEF SInv, TypeOK
<1>3. CASE hub # 0
  <2>1. UNCHANGED owns /\ Move(s, from, found)
    BY <1>1, <1>3 DEF FindHeld
  <2> QED
    BY <1>1, <1>2, <2>1, QuietPInv DEF Over, Using
<1>4. CASE hub = 0
  <2>1. owns'[s] = 0 /\ \A u \in Sessions : u # s => owns'[u] = owns[u]
    BY <1>4 DEF FindHeld, SInv, TypeOK
  <2>2. FreshHubs'
    <3>1. 0 <= made
      BY MaxHubsAssumption DEF SInv, TypeOK
    <3> QED
      BY <1>1, <1>2, <1>4, <2>1, <3>1 DEF PInv, FreshHubs, Tasks
  <2>3. HolderInCharge' /\ OwnMedia'
    BY <1>1, <1>4 DEF HolderInCharge, OwnMedia
  <2>4. EndedOwnsNothing'
    BY <1>1, <2>1 DEF PInv, EndedOwnsNothing, Move, SInv, TypeOK, Tasks
  <2> QED
    BY <2>2, <2>3, <2>4 DEF PInv
<1> QED
  BY <1>3, <1>4

LEMMA FindPInv == ASSUME SInv, PInv, NEW s \in Sessions, Find(s) PROVE PInv'
<1> DEFINE to == IF hub = 0 THEN Rejected(s) ELSE "take"
<1>1. /\ s \in Tasks /\ arc' = [arc EXCEPT ![s] = hub] /\ Move(s, "find", to)
      /\ UNCHANGED <<hub, made, slot, owns, media>>
  BY DEF Find, hubs, Tasks
<1>2. arc'[s] = hub /\ \A u \in Tasks : u # s => arc'[u] = arc[u]
  BY <1>1 DEF SInv, TypeOK
<1>3. CASE hub # 0
  BY <1>1, <1>2, <1>3, QuietPInv DEF Over, Using
<1>4. CASE hub = 0
  <2>1. pc'[s] = Rejected(s) /\ \A u \in Tasks : u # s => pc'[u] = pc[u]
    BY <1>1, <1>4 DEF Move, SInv, TypeOK
  <2>2. FreshHubs'
    <3>1. 0 <= made
      BY MaxHubsAssumption DEF SInv, TypeOK
    <3> QED
      BY <1>1, <1>2, <1>4, <3>1 DEF PInv, FreshHubs, Tasks
  <2>3. HolderInCharge' /\ OwnMedia'
    BY <1>1, <1>4 DEF HolderInCharge, OwnMedia
  <2>4. EndedOwnsNothing'
    BY <1>1, <2>1 DEF PInv, EndedOwnsNothing, Rejected, Over, Tasks
  <2> QED
    BY <2>2, <2>3, <2>4 DEF PInv
<1> QED
  BY <1>3, <1>4

\* reset_stream_media wipes the ring of the registered hub, if there is one.
LEMMA ResetRingPInv ==
  ASSUME SInv, PInv, NEW t \in Tasks, NEW from, NEW wiped, NEW none,
         {wiped, none} \cap Using = {},
         {wiped, none} \cap Over = {} \/ from \in Over \/ t \notin Sessions,
         ResetRing(t, from, wiped, none)
  PROVE  PInv'
<1> DEFINE to == IF hub = 0 THEN none ELSE wiped
<1>1. Move(t, from, to) /\ arc' = [arc EXCEPT ![t] = hub] /\ UNCHANGED <<hub, made, slot, owns>>
  BY DEF ResetRing
<1>2. arc'[t] = hub /\ \A u \in Tasks : u # t => arc'[u] = arc[u]
  BY <1>1 DEF SInv, TypeOK
<1>3. hub # 0 => media'[hub] = {}
  BY HubMade DEF ResetRing, SInv, TypeOK
<1>4. to \notin Using /\ (to \in Over => from \in Over \/ t \notin Sessions)
  OBVIOUS
<1> HIDE DEF to
<1> QED
  BY <1>1, <1>2, <1>3, <1>4, QuietPInv

LEMMA ResetConfigPInv ==
  ASSUME SInv, PInv, NEW t \in Tasks, NEW from, from # "acquire.ring", NEW to, to \notin Using,
         to \in Over => from \in Over \/ t \notin Sessions, ResetConfig(t, from, to)
  PROVE  PInv'
<1>1. arc'[t] = 0 /\ \A u \in Tasks : u # t => arc'[u] = arc[u]
  BY DEF ResetConfig, SInv, TypeOK
<1> QED
  BY <1>1, QuietPInv DEF ResetConfig

\* Steps that leave hubs, slots and rings alone and neither begin nor end a use.
LEMMA MovePInv ==
  ASSUME SInv, PInv, NEW t \in Tasks, NEW from, from # "acquire.ring", NEW to, to \notin Using,
         to \in Over => from \in Over \/ t \notin Sessions, Move(t, from, to),
         UNCHANGED <<hub, made, slot, media, arc, owns>>
  PROVE  PInv'
BY QuietPInv

\* A frame is its session's own only in the hub the session owns, which then is
\* nobody else's.
LEMMA PublishFramePInv == ASSUME SInv, PInv, NEW t \in Tasks, PublishFrame(t) PROVE PInv'
<1> DEFINE s == SessionOf(t)
           mark == IF owns[s] = hub THEN s ELSE Stray
<1>1. /\ Move(t, "live", "heal") /\ UNCHANGED <<hub, made, slot, arc, owns>>
      /\ media' = IF hub = 0 THEN media ELSE [media EXCEPT ![hub] = @ \cup {mark}]
  BY DEF PublishFrame
<1>2. pc[t] = "live" /\ pc'[t] = "heal" /\ \A u \in Tasks : u # t => pc'[u] = pc[u]
  BY <1>1 DEF Move, SInv, TypeOK
<1>3. s \in Sessions
  BY DEF PublishFrame, SessionOf, Tasks, Tracks, Sessions
<1>4. FreshHubs' /\ HolderInCharge' /\ EndedOwnsNothing'
  BY <1>1, <1>2 DEF PInv, FreshHubs, HolderInCharge, EndedOwnsNothing, Tasks, Over, Using
<1>5. OwnMedia'
  <2> SUFFICES ASSUME hub # 0, NEW u \in Sessions, owns[u] = hub, pc'[u] # "acquire.ring"
               PROVE  media'[hub] \subseteq {u, Stray}
    BY <1>1 DEF OwnMedia
  <2>1. pc[u] # "acquire.ring"
    BY <1>2 DEF Tasks
  <2>2. media[hub] \subseteq {u, Stray}
    BY <2>1 DEF PInv, OwnMedia
  <2>3. media'[hub] = media[hub] \cup {mark}
    BY <1>1, HubMade DEF SInv, TypeOK
  <2>4. owns[s] = hub => s = u
    BY <1>3 DEF SInv, SlotHeld
  <2> QED
    BY <2>2, <2>3, <2>4
<1> QED
  BY <1>4, <1>5 DEF PInv
-----------------------------------------------------------------------------
LEMMA SessionPInv == ASSUME SInv, PInv, NEW s \in Sessions, Session(s) PROVE PInv'
<1>0. s \in Tasks /\ Released(s) \notin Using /\ Rejected(s) \notin Using
  BY DEF Tasks, Released, Rejected, Using
<1> USE DEF Over, Using
<1>1. CASE Create(s) \/ Find(s) \/ Take(s)
  BY <1>1, CreatePInv, FindPInv, TakePInv
<1>2. CASE Acquired(s)
  <2>1. CASE ResetRing(s, "acquire.ring", "acquire.config", "acquire.status")
    BY <1>0, <2>1, ResetRingPInv
  <2>2. CASE ResetConfig(s, "acquire.config", "acquire.status")
    BY <1>0, <2>2, ResetConfigPInv
  <2>3. CASE \/ SetStatus(s, "acquire.status",
                          IF s \in Rtmp THEN "respond" ELSE "sdp", "Unpublished")
             \/ SetStatus(s, "publishing", "live", "Publishing")
    BY <1>0, <2>3, MovePInv DEF SetStatus
  <2> QED
    BY <1>2, <2>1, <2>2, <2>3 DEF Acquired
<1>3. CASE Respond(s) \/ FailSetup(s) \/ Disconnect(s)
  BY <1>0, <1>3, MovePInv DEF Respond, FailSetup, Disconnect, hubs
<1>4. CASE SequenceHeader(s) \/ Offer(s)
  BY <1>0, <1>4, MovePInv DEF SequenceHeader, Offer, SetConfig, hubs
<1>5. CASE StartTrack(s)
  <2>1. Track(s) \in Tasks
    BY <1>5 DEF StartTrack, Tasks, Tracks
  <2> QED
    BY <1>5, <2>1, MovePInv DEF StartTrack, hubs
<1>6. CASE Release(s)
  <2>1. CASE \/ FindHeld(s, "release", "free", Released(s))
             \/ FindHeld(s, "fail", "fail.free", "gone")
    BY <1>0, <2>1, FindHeldPInv
  <2>2. CASE \/ Free(s, "free", "release.ring", Released(s))
             \/ Free(s, "fail.free", "end.ring", "gone")
    BY <1>0, <2>2, FreePInv
  <2> QED
    BY <1>6, <2>1, <2>2 DEF Release
<1>7. CASE Cleanup(s)
  <2>1. CASE \/ ResetRing(s, "release.ring", "release.config", "release.status")
             \/ ResetRing(s, "end.ring", "end.config", "gone")
    BY <1>0, <2>1, ResetRingPInv
  <2>2. CASE \/ ResetConfig(s, "release.config", "release.status")
             \/ ResetConfig(s, "end.config", "gone")
    BY <1>0, <2>2, ResetConfigPInv
  <2>3. CASE SetStatus(s, "release.status", Released(s), "Unpublished")
    BY <1>0, <2>3, MovePInv DEF SetStatus
  <2> QED
    BY <1>7, <2>1, <2>2, <2>3 DEF Cleanup
<1> QED
  BY <1>1, <1>2, <1>3, <1>4, <1>5, <1>6, <1>7 DEF Session

\* A track may end at any time: it is no session, and owns nothing.
LEMMA TrackEndPInv == ASSUME SInv, PInv, NEW t \in Tracks, TrackEnd(t) PROVE PInv'
<1>0. t \in Tasks /\ t \notin Sessions
  BY TracksAssumption DEF Tasks
<1> USE DEF Over, Using
<1>1. CASE SetStatus(t, "live", "end.ring", "Unpublished")
  BY <1>0, <1>1, MovePInv DEF SetStatus
<1>2. CASE ResetRing(t, "end.ring", "end.config", "gone")
  BY <1>0, <1>2, ResetRingPInv
<1>3. CASE ResetConfig(t, "end.config", "gone")
  BY <1>0, <1>3, ResetConfigPInv
<1> QED
  BY <1>1, <1>2, <1>3 DEF TrackEnd

LEMMA NextPInv == SInv /\ PInv /\ [Next]_vars => PInv'
<1> SUFFICES ASSUME SInv, PInv, [Next]_vars PROVE PInv'
  OBVIOUS
<1>1. CASE \E s \in Sessions : Session(s)
  BY <1>1, SessionPInv
<1>2. CASE \E t \in Tasks : PublishFrame(t)
  BY <1>2, PublishFramePInv
<1>3. CASE \E t \in Tasks : HealStatus(t)
  BY <1>3, MovePInv DEF HealStatus, Over, Using
<1>4. CASE \E t \in Tracks : TrackEnd(t)
  BY <1>4, TrackEndPInv
<1>5. CASE RemoveStream
  BY <1>5, RemovePInv
<1>6. CASE UNCHANGED vars
  BY <1>6 DEF vars, hubs, PInv, FreshHubs, HolderInCharge, EndedOwnsNothing, OwnMedia
<1> QED
  BY <1>1, <1>2, <1>3, <1>4, <1>5, <1>6 DEF Next

LEMMA PublisherInvariant == Spec => []PInv
BY InitPInv, NextPInv, SessionInvariant, PTL DEF Spec

\* No session that ended in order, or that was refused, stays the publisher of the
\* registered hub, whatever was removed and recreated under it
\* (release_publish_connection, cleanup_publish_session).
THEOREM SessionNoDeadHolder == Spec => []NoDeadHolder
<1>1. SInv /\ PInv => NoDeadHolder
  <2> SUFFICES ASSUME SInv, PInv, hub # 0, NEW s \in Sessions, slot[hub] = s
               PROVE  pc[s] \notin {"idle", "gone"}
    BY DEF NoDeadHolder
  <2>1. owns[s] # 0
    BY DEF PInv, HolderInCharge
  <2> QED
    BY <2>1 DEF PInv, EndedOwnsNothing, Over
<1> QED
  BY <1>1, SessionInvariant, PublisherInvariant, PTL

\* Past its reset a publisher's ring holds its own frames and those of tasks that
\* hold no slot, and none of an earlier publisher (reset_stream_media).
THEOREM SessionNoForeignMedia == Spec => []NoForeignMedia
<1>1. PInv => NoForeignMedia
  BY DEF PInv, OwnMedia, NoForeignMedia, Streaming
<1> QED
  BY <1>1, PublisherInvariant, PTL
-----------------------------------------------------------------------------
\* Where a session is from the acquisition of a slot to its release.
InUse ==
  {"acquire.ring", "acquire.config", "acquire.status", "respond", "sdp", "publishing",
   "live", "heal", "release", "free"}
Owning == \A s \in Sessions : pc[s] \in InUse => owns[s] # 0

\* Only a WebRTC session has a set-up that can fail (cleanup_failed_publish_setup).
Failing == \A s \in Sessions : pc[s] \in {"fail", "fail.free"} => s \in WebRtc

MadeNone == made = 0 => \A h \in Hubs : status[h] = "Created"

\* A task that may show the stream as Publishing, or that has yet to take it back:
\* a connection that keeps its slot after an error never does.
OnAir ==
  {"live", "heal", "release", "free", "release.ring", "release.config", "release.status"}
Busy(t) == pc[t] \in OnAir \/ (t \in Rtmp /\ owns[t] # 0)

\* As long as the first hub is registered, somebody answers for its Publishing.
OnAirByBusy ==
  made = 1 /\ hub # 0 /\ status[hub] = "Publishing" => \E t \in Tasks : Busy(t)

UInv == Owning /\ Failing /\ MadeNone /\ OnAirByBusy

LEMMA InitUInv == Init => UInv
BY DEF Init, UInv, Owning, Failing, MadeNone, OnAirByBusy, InUse, Tasks

\* A step of one task that leaves registry and ownership alone: the stream shows as
\* something else after it, or the task, or another one, answers for it.
LEMMA QuietUInv ==
  ASSUME SInv, UInv, NEW t \in Tasks, NEW from, NEW to, Move(t, from, to),
         UNCHANGED <<hub, made, owns>>,
         hub = 0 => UNCHANGED status,
         t \in Sessions /\ to \in InUse => from \in InUse \/ owns[t] # 0,
         t \in Sessions /\ to \in {"fail", "fail.free"} => t \in WebRtc,
         hub # 0 => \/ status'[hub] # "Publishing"
                    \/ to \in OnAir \/ (t \in Rtmp /\ owns[t] # 0)
                    \/ status'[hub] = status[hub] /\ from \notin OnAir
  PROVE  UInv'
<1>1. pc[t] = from /\ pc'[t] = to /\ \A u \in Tasks : u # t => pc'[u] = pc[u]
  BY DEF Move, SInv, TypeOK
<1>2. Owning'
  BY <1>1 DEF UInv, Owning, Tasks
<1>3. Failing'
  BY <1>1 DEF UInv, Failing, Tasks
<1>4. MadeNone'
  <2>1. made = 0 => hub = 0
    BY DEF SInv, TypeOK
  <2> QED
    BY <2>1 DEF UInv, MadeNone
<1>5. OnAirByBusy'
  <2> SUFFICES ASSUME made = 1, hub # 0, status'[hub] = "Publishing"
               PROVE  \E u \in Tasks : Busy(u)'
    BY DEF OnAirByBusy
  <2>1. CASE to \in OnAir \/ (t \in Rtmp /\ owns[t] # 0)
    BY <1>1, <2>1 DEF Busy
  <2>2. CASE status'[hub] = status[hub] /\ from \notin OnAir
    <3>1. PICK u \in Tasks : Busy(u)
      BY <2>2 DEF UInv, OnAirByBusy
    <3> QED
      BY <1>1, <2>2, <3>1 DEF Busy
  <2> QED
    BY <2>1, <2>2
<1> QED
  BY <1>2, <1>3, <1>4, <1>5 DEF UInv

\* A second publish command comes from a connection that has its slot, and the
\* first hub is made with a status of its own.
LEMMA CreateUInv == ASSUME SInv, UInv, NEW s \in Sessions, Create(s) PROVE UInv'
<1>1. PICK from \in {"idle", "live"} : Move(s, from, "find") /\ (from = "live" => s \in Rtmp)
  BY DEF Create
<1>2. s \in Tasks /\ from = "live" => owns[s] # 0
  BY <1>1 DEF UInv, Owning, InUse, Move, Tasks
<1>3. CASE hub # 0
  <2>1. UNCHANGED <<hub, made, owns, status>>
    BY <1>3 DEF Create
  <2> QED
    BY <1>1, <1>2, <1>3, <2>1, QuietUInv DEF InUse, OnAir, Tasks
<1>4. CASE hub = 0
  <2>1. made' = made + 1 /\ made \in Nat /\ UNCHANGED <<owns, status>> /\ hub' = made + 1
    BY <1>4, MaxHubsAssumption DEF Create, SInv, TypeOK
  <2>2. pc'[s] = "find" /\ \A u \in Tasks : u # s => pc'[u] = pc[u]
    BY <1>1 DEF Move, SInv, TypeOK, Tasks
  <2>3. Owning' /\ Failing'
    BY <2>1, <2>2 DEF UInv, Owning, Failing, InUse, Tasks
  <2>4. MadeNone'
    BY <2>1 DEF MadeNone
  <2>5. OnAirByBusy'
    <3>1. made' = 1 => made = 0 /\ hub' = 1
      BY <2>1
    <3>2. 1 \in Hubs
      BY MaxHubsAssumption DEF Hubs
    <3> QED
      BY <2>1, <3>1, <3>2 DEF UInv, MadeNone, OnAirByBusy
  <2> QED
    BY <2>3, <2>4, <2>5 DEF UInv
<1> QED
  BY <1>3, <1>4

LEMMA FindUInv == ASSUME SInv, UInv, NEW s \in Sessions, Find(s) PROVE UInv'
<1> DEFINE to == IF hub = 0 THEN Rejected(s) ELSE "take"
<1>1. Move(s, "find", to) /\ s \in Tasks /\ UNCHANGED <<hub, made, owns, status>>
  BY DEF Find, hubs, Tasks
<1>2. to \in {"take", "idle", "live"} /\ (to = "live" => owns[s] # 0)
  BY DEF Rejected
<1> HIDE DEF to
<1> QED
  BY <1>1, <1>2, QuietUInv DEF InUse, OnAir

\* A session that takes a slot owns it from then on.
LEMMA TakeUInv == ASSUME SInv, UInv, NEW s \in Sessions, Take(s) PROVE UInv'
<1>1. /\ s \in Tasks /\ pc[s] = "take" /\ arc[s] \in Hubs
      /\ UNCHANGED <<hub, made, status>>
  BY DEF Take, Move, SInv, ArcFound, Tasks
<1>2. CASE ~MayTake(s)
  <2>1. Move(s, "take", Rejected(s)) /\ UNCHANGED owns
    BY <1>2 DEF Take
  <2>2. Rejected(s) \in {"idle", "live"} /\ (Rejected(s) = "live" => owns[s] # 0)
    BY DEF Rejected
  <2> QED
    BY <1>1, <2>1, <2>2, QuietUInv DEF InUse, OnAir
<1>3. CASE MayTake(s)
  <2>1. Move(s, "take", "acquire.ring") /\ owns' = [owns EXCEPT ![s] = arc[s]]
    BY <1>3 DEF Take
  <2>2. pc'[s] = "acquire.ring" /\ \A u \in Tasks : u # s => pc'[u] = pc[u]
    BY <1>1, <2>1 DEF Move, SInv, TypeOK
  <2>3. owns'[s] = arc[s] /\ \A u \in Sessions : u # s => owns'[u] = owns[u]
    BY <2>1 DEF SInv, TypeOK
  <2>4. arc[s] # 0
    BY <1>1 DEF Hubs
  <2>5. Owning' /\ Failing' /\ MadeNone'
    BY <1>1, <2>2, <2>3, <2>4 DEF UInv, Owning, Failing, MadeNone, Tasks
  <2>6. \A u \in Tasks : Busy(u) => Busy(u)'
    BY <1>1, <2>2, <2>3, <2>4 DEF Busy, OnAir, Sessions
  <2>7. OnAirByBusy'
    BY <1>1, <2>6 DEF UInv, OnAirByBusy
  <2> QED
    BY <2>5, <2>7 DEF UInv
<1> QED
  BY <1>2, <1>3

\* Giving up because the name has no hub leaves nothing to answer for.
LEMMA FindHeldUInv ==
  ASSUME SInv, UInv, NEW s \in Sessions, NEW from, NEW found, NEW none,
         FindHeld(s, from, found, none), none \notin InUse \cup {"fail", "fail.free"},
         \/ from = "release" /\ found = "free"
         \/ from = "fail" /\ found = "fail.free"
  PROVE  UInv'
<1>1. /\ s \in Tasks /\ Move(s, from, IF hub = 0 THEN none ELSE found)
      /\ UNCHANGED <<hub, made, status>>
  BY DEF FindHeld, hubs, Tasks
<1>2. CASE hub # 0
  <2>1. Move(s, from, found) /\ UNCHANGED owns
    BY <1>1, <1>2 DEF FindHeld
  <2>2. from = "fail" => s \in WebRtc
    BY <2>1 DEF UInv, Failing, Move
  <2> QED
    BY <1>1, <1>2, <2>1, <2>2, QuietUInv DEF InUse, OnAir
<1>3. CASE hub = 0
  <2>1. owns' = [owns EXCEPT ![s] = 0] /\ Move(s, from, none)
    BY <1>1, <1>3 DEF FindHeld
  <2>2. pc'[s] = none /\ \A u \in Tasks : u # s => pc'[u] = pc[u]
    BY <1>1, <2>1 DEF Move, SInv, TypeOK
  <2>3. \A u \in Sessions : u # s => owns'[u] = owns[u]
    BY <2>1 DEF SInv, TypeOK
  <2>4. Owning' /\ Failing'
    BY <2>2, <2>3 DEF UInv, Owning, Failing, Tasks
  <2> QED
    BY <1>1, <1>3, <2>4 DEF UInv, MadeNone, OnAirByBusy
<1> QED
  BY <1>2, <1>3

\* The session that releases the first hub's slot has it, so it goes on to set the
\* status: the branch of a session that lost its slot needs a second hub.
LEMMA FreeUInv ==
  ASSUME SInv, PInv, UInv, NEW s \in Sessions, NEW from, NEW freed, NEW other,
         Free(s, from, freed, other),
         {freed, other} \cap (InUse \cup {"fail", "fail.free"}) = {},
         \/ from = "free" /\ freed = "release.ring"
         \/ from = "fail.free"
  PROVE  UInv'
<1>1. /\ s \in Tasks /\ pc[s] = from /\ arc[s] \in Hubs
      /\ Move(s, from, IF MayFree(s) THEN freed ELSE other)
      /\ owns' = [owns EXCEPT ![s] = 0] /\ UNCHANGED <<hub, made, status>>
  BY DEF Free, Move, SInv, ArcFound, Tasks
<1>2. pc'[s] = (IF MayFree(s) THEN freed ELSE other) /\ \A u \in Tasks : u # s => pc'[u] = pc[u]
  BY <1>1 DEF Move, SInv, TypeOK
<1>3. \A u \in Sessions : u # s => owns'[u] = owns[u]
  BY <1>1 DEF SInv, TypeOK
<1>4. Owning' /\ Failing'
  <2>1. pc'[s] \notin InUse \cup {"fail", "fail.free"}
    BY <1>2
  <2> QED
    BY <1>2, <1>3, <2>1 DEF UInv, Owning, Failing, Tasks
<1>5. MadeNone'
  BY <1>1 DEF UInv, MadeNone
<1>6. OnAirByBusy'
  <2> SUFFICES ASSUME made = 1, hub # 0, status[hub] = "Publishing"
               PROVE  \E u \in Tasks : Busy(u)'
    BY <1>1 DEF OnAirByBusy
  <2>1. PICK u \in Tasks : Busy(u)
    BY DEF UInv, OnAirByBusy
  <2>2. CASE from = "free"
    <3>1. owns[s] # 0
      BY <1>1, <2>2 DEF UInv, Owning, InUse
    <3>2. arc[s] = 1 /\ owns[s] = 1
      BY <1>1, <3>1 DEF PInv, FreshHubs, SInv, TypeOK, Hubs
    <3>3. slot[arc[s]] = s
      BY <3>1, <3>2 DEF SInv, SlotHeld
    <3>4. pc'[s] = "release.ring"
      BY <1>2, <2>2, <3>3 DEF MayFree
    <3> QED
      BY <1>1, <3>4 DEF Busy, OnAir
  <2>3. CASE from = "fail.free"
    <3>1. s \in WebRtc /\ ~(s \in Rtmp)
      BY <1>1, <2>3, SessionsAssumption DEF UInv, Failing
    <3>2. u # s
      BY <1>1, <2>1, <2>3, <3>1 DEF Busy, OnAir
    <3> QED
      BY <1>2, <1>3, <2>1, <3>2 DEF Busy, Sessions
  <2> QED
    BY <2>2, <2>3
<1> QED
  BY <1>4, <1>5, <1>6 DEF UInv
-----------------------------------------------------------------------------
LEMMA SessionUInv == ASSUME SInv, PInv, UInv, NEW s \in Sessions, Session(s) PROVE UInv'
<1>0. /\ s \in Tasks /\ Released(s) \in {"idle", "end.ring"}
      /\ \A h \in Hubs : status[h] \in {"Created", "Unpublished", "Publishing"}
      /\ hub # 0 => hub \in Hubs
  BY HubMade DEF Tasks, Released, SInv, TypeOK
<1> USE DEF InUse, OnAir
<1>1. CASE Create(s) \/ Find(s) \/ Take(s)
  BY <1>1, CreateUInv, FindUInv, TakeUInv
<1>2. CASE Acquired(s)
  <2>1. CASE ResetRing(s, "acquire.ring", "acquire.config", "acquire.status")
    BY <1>0, <2>1, QuietUInv DEF ResetRing
  <2>2. CASE ResetConfig(s, "acquire.config", "acquire.status")
    BY <1>0, <2>2, QuietUInv DEF ResetConfig
  <2>3. CASE SetStatus(s, "acquire.status",
                       IF s \in Rtmp THEN "respond" ELSE "sdp", "Unpublished")
    <3>1. hub # 0 => status'[hub] = "Unpublished"
      BY <1>0, <2>3 DEF SetStatus, SInv, TypeOK
    <3> QED
      BY <1>0, <2>3, <3>1, QuietUInv DEF SetStatus
  <2>4. CASE SetStatus(s, "publishing", "live", "Publishing")
    BY <1>0, <2>4, QuietUInv DEF SetStatus
  <2> QED
    BY <1>2, <2>1, <2>2, <2>3, <2>4 DEF Acquired
<1>3. CASE Respond(s)
  <2>1. CASE Move(s, "respond", "publishing") \/ Move(s, "respond", "leaked")
    BY <1>0, <1>3, <2>1, QuietUInv DEF Respond, hubs
  <2>2. CASE s \in Rtmp /\ Move(s, "live", "leaked")
    <3>1. owns[s] # 0
      BY <2>2 DEF UInv, Owning, Move
    <3> QED
      BY <1>0, <1>3, <2>2, <3>1, QuietUInv DEF Respond, hubs
  <2> QED
    BY <1>3, <2>1, <2>2 DEF Respond
<1>4. CASE FailSetup(s) \/ Disconnect(s)
  BY <1>0, <1>4, QuietUInv DEF FailSetup, Disconnect, hubs
<1>5. CASE SequenceHeader(s) \/ Offer(s)
  BY <1>0, <1>5, QuietUInv DEF SequenceHeader, Offer, SetConfig, hubs
<1>6. CASE StartTrack(s)
  <2>1. Track(s) \in Tasks /\ Track(s) \notin Sessions
    BY <1>6, TracksAssumption DEF StartTrack, Tasks, Tracks
  <2> QED
    BY <1>6, <2>1, QuietUInv DEF StartTrack, hubs
<1>7. CASE Release(s)
  <2>1. CASE \/ FindHeld(s, "release", "free", Released(s))
             \/ FindHeld(s, "fail", "fail.free", "gone")
    BY <1>0, <2>1, FindHeldUInv
  <2>2. CASE \/ Free(s, "free", "release.ring", Released(s))
             \/ Free(s, "fail.free", "end.ring", "gone")
    BY <1>0, <2>2, FreeUInv
  <2> QED
    BY <1>7, <2>1, <2>2 DEF Release
<1>8. CASE Cleanup(s)
  <2>1. CASE \/ ResetRing(s, "release.ring", "release.config", "release.status")
             \/ ResetRing(s, "end.ring", "end.config", "gone")
    BY <1>0, <2>1, QuietUInv DEF ResetRing
  <2>2. CASE \/ ResetConfig(s, "release.config", "release.status")
             \/ ResetConfig(s, "end.config", "gone")
    BY <1>0, <2>2, QuietUInv DEF ResetConfig
  <2>3. CASE SetStatus(s, "release.status", Released(s), "Unpublished")
    <3>1. hub # 0 => status'[hub] = "Unpublished"
      BY <1>0, <2>3 DEF SetStatus, SInv, TypeOK
    <3> QED
      BY <1>0, <2>3, <3>1, QuietUInv DEF SetStatus
  <2> QED
    BY <1>8, <2>1, <2>2, <2>3 DEF Cleanup
<1> QED
  BY <1>1, <1>2, <1>3, <1>4, <1>5, <1>6, <1>7, <1>8 DEF Session

\* The task that reads the media ends with a set_unpublished of its own.
LEMMA TrackEndUInv == ASSUME SInv, UInv, NEW t \in Tracks, TrackEnd(t) PROVE UInv'
<1>0. t \in Tasks /\ t \notin Sessions
  BY TracksAssumption DEF Tasks
<1> USE DEF InUse, OnAir
<1>1. CASE SetStatus(t, "live", "end.ring", "Unpublished")
  <2>1. hub # 0 => status'[hub] = "Unpublished"
    BY <1>1, HubMade DEF SetStatus, SInv, TypeOK
  <2> QED
    BY <1>0, <1>1, <2>1, QuietUInv DEF SetStatus
<1>2. CASE ResetRing(t, "end.ring", "end.config", "gone")
  BY <1>0, <1>2, QuietUInv DEF ResetRing
<1>3. CASE ResetConfig(t, "end.config", "gone")
  BY <1>0, <1>3, QuietUInv DEF ResetConfig
<1> QED
  BY <1>1, <1>2, <1>3 DEF TrackEnd

LEMMA NextUInv == SInv /\ PInv /\ UInv /\ [Next]_vars => UInv'
<1> SUFFICES ASSUME SInv, PInv, UInv, [Next]_vars PROVE UInv'
  OBVIOUS
<1>1. CASE \E s \in Sessions : Session(s)
  BY <1>1, SessionUInv
<1>2. ASSUME NEW t \in Tasks, PublishFrame(t) \/ HealStatus(t) PROVE UInv'
  BY <1>2, QuietUInv DEF PublishFrame, HealStatus, InUse, OnAir
<1>3. CASE \E t \in Tracks : TrackEnd(t)
  BY <1>3, TrackEndUInv
<1>4. CASE RemoveStream
  BY <1>4 DEF RemoveStream, UInv, Owning, Failing, MadeNone, OnAirByBusy
<1>5. CASE UNCHANGED vars
  BY <1>5 DEF vars, hubs, UInv, Owning, Failing, MadeNone, OnAirByBusy, Busy
<1> QED
  BY <1>1, <1>2, <1>3, <1>4, <1>5 DEF Next

LEMMA StatusInvariant == Spec => []UInv
BY InitUInv, NextUInv, SessionInvariant, PublisherInvariant, PTL DEF Spec

\* Once every session and every task that read media has ended in order, in whatever
\* order, the stream does not go on to show as Publishing (set_unpublished in
\* release_publish_connection, in cleanup_publish_session and at a track's end).
THEOREM SessionIdleUnpublished == Spec => []IdleUnpublished
<1>1. PInv /\ UInv => IdleUnpublished
  <2> SUFFICES ASSUME PInv, UInv, made = 1, hub # 0, status[hub] = "Publishing",
                      \A t \in Tasks : pc[t] \in {"idle", "gone"}
               PROVE  FALSE
    BY DEF IdleUnpublished
  <2>1. PICK t \in Tasks : Busy(t)
    BY DEF UInv, OnAirByBusy
  <2>2. pc[t] \notin OnAir
    BY DEF OnAir
  <2>3. t \in Rtmp => owns[t] = 0
    BY DEF PInv, EndedOwnsNothing, Over, Sessions
  <2> QED
    BY <2>1, <2>2, <2>3 DEF Busy
<1> QED
  BY <1>1, PublisherInvariant, StatusInvariant, PTL
=============================================================================
