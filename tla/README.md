# vcp-media-server: TLA+ models, model checks and proofs

The server takes live media from publishers (RTMP, RTSP, WebRTC, pulled streams),
keeps the newest frames of every stream in a ring buffer, and serves players,
HLS, recordings and analyses from it, each through a cursor of its own. This
directory models who may write a stream, what is kept and what a reader gets,
the protocol sessions around that, the media paths in and out, and the tasks that
live beside a stream.

    RtspServer  RtmpServer  WebRtcServer  Pullers        connections, one step per request
          \         \            /          /
           Streams: registry of slots and statuses      MediaServer composes these
                 |        implements StreamLease
    PublishSession: the same slots, lock by lock, one stream name and its hubs
                 |  publish_frame
    FrameRing <- Dispatch: the ring, and a reader of it, one lock at a time
                 |
    Workers: Hls  Recorder  Analysis  Snapshot  PlayRelays
    MediaPaths: RtmpChunks  H264Ingest  HlsSegmenter  FlvTimeline  RtspPusher

Paths such as `src/src/core/...` are those of `PROJECT.json`; `map` there gives,
for each definition, the lines it models.

## Inventory

| Part | State | Operations | What must hold | Modelled in |
|---|---|---|---|---|
| FrameRing (`core/frame_ring.rs`) | slots, GOP and IDR indexes, write_seq, bytes_used | push with eviction, reads, reset | memory bounded, accounting exact, GOPs evicted whole, a late joiner served | FrameRing |
| StreamHub, StreamManager (`core/stream_hub.rs`, `core/stream_manager.rs`) | registry name -> hub; ring, watch channel, publisher slot, SPS/PPS, status | create, remove, acquire, release, status, publish, reset, subscribe | one publisher; helpers that look a hub up by name hit the right one | PublishSession, Streams, Dispatch |
| DispatchReader, live play (`core/dispatch.rs`, `core/live_play.rs`) | cursor, catch-up bound, resync flag | recv_batch by four policies, priming | order, no silent loss, progress, decodable output | Dispatch |
| RTMP server (`server/rtmp`) | connection state, publisher id, play task; chunk streams | connect, publish, play, deleteStream, end of connection; chunk assembly | slot released once; messages whole | RtmpServer, PublishSession, RtmpChunks |
| RTSP server (`server/rtsp`) | session, UDP receivers, sender task | ANNOUNCE, SETUP, RECORD, DESCRIBE, PLAY, PAUSE, TEARDOWN, media | likewise; no sender without a player | RtspServer |
| H264 over RTP (`server/webrtc/h264_rtp_ingest.rs`, `rtp_h264.rs`) | open access unit, last sequence number | packets | no NAL with a hole | H264Ingest |
| WebRTC (`server/webrtc`) | signalling session, track tasks, relay table, keyframe routes | publish, play, stop, cleanup | tasks that outlive a session harm no successor; relays end | WebRtcServer, PublishSession, PlayRelays |
| Pullers (`server/*/puller.rs`) | a task each | start, frames, end | publishes beside the slot's holder, puts nothing else on air | Pullers |
| RTSP pusher (`server/rtsp/pusher.rs`) | status, RTP counters | handshake, send loop, pause, monitor | one unbroken RTP stream per track | RtspPusher |
| HLS (`server/hls`) | session, abort and access tables; playlist, clocks, directory | ensure, restart, stop, reap, segment, prune | one segmenter per stream; the playlist names files that exist and is true to the media | Hls, HlsSegmenter |
| Recorder (`process/record`) | active table, index, index.json, segments | start, stop, rotate, flush | can be stopped; nothing recorded is lost from the index | Recorder |
| Analysis, snapshot (`process/*`) | active table, metrics, events; entries | start, stop, push_event; submit | can be stopped; bounded; settles | Analysis, Snapshot |
| Timelines (`core/timestamp.rs`, `hls/timing.rs`) | last timestamps | ticks to milliseconds | bounded drift | FlvTimeline, HlsSegmenter |
| HTTP API, HTTP-FLV (`server/http`, `server/http_flv`) | none of their own | REST routes, FLV play loop | as the parts they call | actions of those parts |

What is hard here: readers take the ring's lock once per question, so that
anything may happen between two questions of one `recv_batch`; sequence numbers
start again at 0 when a publisher changes; release, media reset and status are
three accesses by name; a connection keeps one stream name that several commands
overwrite; "look into the table, spawn, insert" is the form of every start;
tasks outlive the session that started them. The list of hazards, each at its
line, is in `PROJECT.json`.

## Modules

**FrameRing** models one ring. The deques of the code hold ascending, never
repeated sequence numbers: they become sets, the deque of slots a function from
seq to frame. A frame is a size and a kind; the kinds tell apart what the code
tells apart, including the IDR whose flag is clear, which `push` indexes (it looks
into the payload) and the front eviction does not recognise (it looks at the
flag). `Push` is `push` up to `evict_if_needed`, whose loop is `EvictOldestGop`,
`EvictFront` and `EvictDone`, one iteration per step with the write lock held
(`evicting`), so that "the loop ends" is a checked property and not an assumption.

**Dispatch** extends FrameRing by one reader. Readers only read the ring, so one
stands for all of them. Each critical section of `recv_batch` is an action, `pc`
names the place between two of them and `loc` holds the locals that survive; a
reader step needs the lock, hence `~evicting`. The catch-up branch, the lag
snap with its re-read, the gap jump with its retry and the IDR scan, which looks
up one seq at a time under a fresh lock, are all there. Before it plays a reader
primes: `prime_live_play` reads and discards batches until an IDR, its deadline or
its fallback; `prime_from_idr` waits for an IDR at or after its baseline. The
hub's `publish` and `reset` send on the watch channel after they released the
lock, in whatever order (`sending`); the reader's end of the channel is "has an
unseen version" (`unseen`). `log` is history: what was handed out.

**PublishSession** models one stream name: the registry, the hubs made for the
name, each hub's slot, ring (whose frames), SPS/PPS (whose) and status, and the
RTMP and WebRTC sessions around them. Every lock is taken for one access, so one
access is one step; acquire and release hold an Arc between two steps (`arc`),
and the `MaxHubs` hubs tell apart the stream before and after a DELETE. `owns` and
`header` are history: the hub whose slot a session took, and whether it has sent
its parameter sets since. A WebRTC track is a task of its own. Failures that the code
does not clean up after (RTMP's `?` on a write) are the label `leaked`.

**StreamLease** is the abstract specification of a publisher slot: a lease is
granted when it is free or the asker's own, and ended by its holder or with the
thing leased. PublishSession implements it with a lease per hub, MediaServer with a
lease per stream name; `LeaseSpec` in each is the instance.

**Streams** is the registry as a handler sees it: every helper a function from
registry to registry, so that a handler that makes several calls is one step.
`relies` and `lost` are history: whose slot an actor was given, and the slots whose
holder can no longer give them back; `stray` marks a stream put on air by somebody
without the slot. **RtspServer**, **RtmpServer**, **WebRtcServer** and **Pullers**
have an action per request or event, a connection's record holding the fields of the
code's session. **MediaServer** composes them; `cast` names who takes part in a
behaviour, so that one run covers every pair of protocols at the cost of pairs.
Handlers are atomic here; what happens inside one is PublishSession's subject.

**Workers** composes **Hls**, **Recorder**, **Analysis**, **Snapshot** and **PlayRelays**,
which share no state: a behaviour is about one of them (`subject`). Each models
its callers lock by lock, its task step by step and the history variable under
which its promises hold (`overlap`, `lingered`, `crowded`, `clashed`, `astray`): two calls
that run into each other do leave a task behind in this code, and every module says so.
In Hls an abort only marks the task: it runs on to its next await, and there is none
between the renaming of a segment and its listing (`TaskEnds`). In PlayRelays a DELETE takes
the slot away from under whoever publishes, and the next to publish makes the stream anew.

**MediaPaths** composes five paths that carry media and share nothing either.
**RtmpChunks**: a peer interleaves chunk streams and changes its chunk size without
waiting for anybody, TCP cuts the bytes anywhere, the assembler parses what it has, and the
size it parses by changes at the end of a read. **H264Ingest**: packets lost, doubled and late become
access units; a packet's number is its place in the order of all fragments, and
`LossesAssumption` keeps packets close enough together for 16 bits to tell them apart, which
is what the code relies on. **HlsSegmenter**: clocks, the split rule, a reader that fell behind, the
window. **FlvTimeline**: from the ticks of a publisher, which may jump, stall and be set back,
to the milliseconds of a recording; how far each track was set back, stalled or replaced
is history (`back`, `stalled`, `skewed`).
**RtspPusher**: the handshake and the send loop with pauses and failed writes.
**WholeServer** puts the servers and the paths side by side.

Definitions marked *mutant* stand beside the one they distort (a dropped guard, an
off-by-one, a missing reset). No specification uses them; substituted for their
neighbour they show that the property named in `PROJECT.json` can fail.

`MC*` modules are the instances that TLC runs, `*_proofs` hold theorems.

## Runs

| Run | Shows | Distinct states |
|---|---|---|
| ring_ok | the ring's invariants, and that a push returns or is jammed in the one way named `Jammed` | 18 400 |
| ring_jam | **violation**: that jam; a GOP over capacity keeps the loop running under the lock | - |
| dispatch_ok | four policies, primed and primed anew: the cursor stays within the ring, order, no silent skip of cached frames, progress unless trapped | 785 000 |
| dispatch_live_stall | **violation**: the trap `CatchUpStuck`, a burst that ends in its IDR | - |
| dispatch_decoder | **violation**: a P-frame handed out right after its reference was dropped | - |
| session_ok | three publishers on one hub: slot, dead holders, foreign frames, status | 270 000 |
| session_recreated | two publishers across DELETE and re-creation implement StreamLease | 1 600 000 |
| session_wipe | **violation**: a release's late reset clears the successor's SPS/PPS | - |
| server_ok | any two of an RTSP and an RTMP connection, a WebRTC socket and a puller on one stream, any one of them on two: leases, dead holders, air, senders; and each media path: `MessagesAsSent`, `UnitsIntact`, `PlaylistTrue`, `DriftBounded`, `PusherWire` | 382 000 |
| rtsp_udp | **violation**: the socket of a second UDP SETUP is never read | - |
| rtmp_chunks | **violation**: a timestamp delta is added twice when its chunk arrives in two reads | - |
| workers_ok | HLS, recording, analysis, snapshots, relays: whatever runs can be stopped, files and indexes agree, keyframe requests find the publisher, what is told to end does | 246 000 |

The six violations are findings in `PROJECT.json`, with the sentence of the
repository they contradict.

### Bounds

- Ring and reader: `MaxSeq` (6 pushes with three frames of capacity, 4 in the reader
  runs) lets the ring fill, evict by GOP and by front, and start over; seqs carry no
  meaning beyond their order. A byte capacity of 5 with sizes 1 and 2 makes bytes and
  frames the binding limit in turn. `MaxBatch = 2` makes a batch shorter than the
  ring; `WebRtcLag = PrimeLag = 1` make the lag snaps reachable. `MaxResets = 1` gives a
  reader one change of publisher. `dispatch_decoder` needs a ring of five.
- Sessions: `MaxHubs` counts the hubs made for a name: 1 for contention, 2 for
  re-creation.
- Servers: one client of each kind and two per behaviour, since the properties relate a
  slot to its holder and one rival; two names where a connection confuses its own.
  `MaxPublish = 2` lets a socket publish again with its track still alive. For slots,
  status and senders the proofs remove these bounds.
- Media paths: three messages on two chunk streams with a control message between
  them, and units under way until there are three (`MaxWire`), so that one read can bring
  a Set Chunk Size and a chunk cut by it; a reader that lost the chunk boundaries
  (`outrun`) is not followed; two access units of four and three packets around the 16-bit wrap
  (`FirstSeq = 65532`), any of which may be lost or come twice, up to two places behind the
  one before it; `Losses = 7` is all of them;
  five video frames whose steps either count as they are and split a segment, or are too
  long to be believed and count as 40 ms, with one sound and one lag snap; ten tags at
  90 kHz and 48 kHz with a jump and a step back; four frames pushed.
- Workers: two starts, of which the second may run into the first, and as many operators
  as can be in each other's way; `MaxSegments = 2` with `MaxSeq = 6` gives a playlist
  neighbours and lets the window slide and prune; `MaxCuts = 1` is one rotation or resync. In
  Hls, Recorder and Analysis no new call, segment or batch begins once two calls overlapped,
  and no segment once an aborted task lingered into the next session: what holds then is
  only that types are kept. The segments of one HLS session together with those of any other
  stay below `MaxSeq`, which is all a run of two starts has.

`CHECK_DEADLOCK FALSE` stands where a bounded publisher, peer or caller stops, and
a reader or task then rightly waits.

### Fairness

A push runs on to its return (`WF(Evict)`): it is straight-line code under a lock. A
send that is owed is made (`WF(Send)`). A reader's task is scheduled (`WF(Call)`):
each of its steps is enabled until taken, except that the lock may be held by a push,
which ends or is jammed; every progress property says "or jammed". Nothing assumes that
a publisher sends another frame, that a session ends or starts, or that a lock is granted
in any order. `StatusHeals` alone assumes that a connected publisher goes on sending,
which is what "healed by the next frame" means. In Workers tokio runs every task that can
run (WF), and a recorder's `select!`, which is not `biased` and picks a ready branch at
random, takes its stop in the end (SF of `Told`). The server and media-path
specifications state no fairness: their properties are about safety.

### What the properties leave out on purpose

`CursorWithinRing` and `InOrderOnce` end at a reset, where the code's seqs begin anew;
`CursorWithinRing` allows for the skipped seq 0 of a stream joined empty.
`NoForeignMedia` lets "stray" frames through, pushed after the reset by a task without a
slot, since publish_frame does not ask; it says that nothing else of a predecessor is
left. `NoDeadHolder` of the sessions is about those that ended in order, not the leaked
ones; in MediaServer it exempts the slots in `lost`, each lost in a way an action names:
a second ANNOUNCE, publish, play or connect on one connection, a RECORD without a stream,
a failed handler, a stop_publish for another stream. `OffAir` exempts a stream somebody
without its slot put on air (a puller, a track, an ingest that kept its first stream's
name). `IdleUnpublished` is about a stream not deleted under its publisher.

`MessagesAsSent` does not compare timestamps; `rtmp_chunks` does. Both end with `outrun`: the
code applies a new chunk size after everything a read brought is parsed ("because remaining
data was encoded with the old chunk_size", rtmp/mod.rs:312-313), but the peer cuts by it from
the next chunk on, without waiting for an answer. A chunk that follows in the same read and is
longer than the old size is taken for two, and the reader loses the boundaries for good.
`UnitsIntact` promises a unit that came whole only if it `ShowsEnd`: a packet that completes a
parameter set returns before its marker is looked at, so that a unit ending in one waits for
the next unit and is lost with a gap before it, and a unit without a slice is dropped. It
promises that what is published is whole NALs, not that none is missing: of a unit that lost a
NAL whole the rest may be published. `DriftBounded` compares a recording with the publisher's
own clock and says how far they part: ahead by what that was set back and a usual step per step
not trusted, behind by the stalls cut out and up to a millisecond per frame. That last error
adds up over a recording, which is what the code does.

`Stoppable`, `PlaylistOnDisk`, `PlaylistGapless` and `IndexFileCurrent` are about calls that do
not overlap (`overlap`, `crowded`, `clashed`), the two of playlists also about sessions that were
not made while an aborted segmenter was still at work (`lingered`): that one finds its successor
by the stream's name and lists its own segment, whose file was wiped. `RouteOfHolder` ends with
`astray`: a stream deleted under its publisher, whose cleanup then removes its successor's
route, or a stop_publish for a stream that another publishes. `RelaysEnd` begins where a relay
is told to stop; one that registers behind the list a publisher's end has read is told by
nobody. It takes a round of `recv_coalesced` to return, which it does not in the trap of
`dispatch_live_stall`. `SnapshotSettles` takes ffmpeg to terminate; the code sets it no limit
(snapshot/mod.rs:153-169).

## Proofs

Every invariant and action property the passing runs check is a theorem, for every value of
the constants that satisfies the modules' assumptions.

| Module | Theorems |
|---|---|
| FrameRing_proofs | `TypeOK`, `KeyTailKept`, `IndexesAgree`, `LateJoinServed`, `KeepsGopHeads`, `BytesExact`, `MemoryBounded` |
| Dispatch_proofs | `DispatchIsRing` (the ring of a reader is FrameRing's), `DTypeOK`, `CursorWithinRing`, `InOrderOnce`, `NoSilentSkip` |
| PublishSession_proofs | `TypeOK`, `SlotHeld`, one publisher per hub, `LeaseSpec`, `NoDeadHolder`, `NoForeignMedia`, `IdleUnpublished` |
| MediaServer_proofs | `TypeOK`, `LeaseSpec`, `NoDeadHolder`, `OffAir`, `SenderOnlyWhilePlaying` |
| RtmpChunks_proofs, MediaPaths_proofs | the paths' invariants, as lemmas |
| WholeServer_proofs | `WholeSpec => Spec`, which carries MediaServer's theorems to what server_ok runs; `PusherWire`, `DriftBounded`, `PlaylistTrue`, `MessagesAsSent`, `UnitsIntact` |
| Workers_proofs | `WTypeOK`, `PlaylistOnDisk`, `PlaylistGapless`, `Stoppable`, `RouteOfHolder`, `RecordingsIndexed`, `IndexFileCurrent` |

**FrameRing**, for every capacity, set of kinds, set of sizes and bound. `KeyTailKept` is
not inductive alone. `IInv` adds that the indexes agree and that every flagged keyframe
still cached is indexed: the eviction of the oldest GOP removes an interval that ends
where the next indexed frame starts, so it takes a flagged keyframe only as its first
frame, together with its index entry; the front eviction stops at the first flagged
keyframe. `DropSafe` is that argument, stated once for both removals.
`LateJoinServed` follows because the newest index entry is then either that keyframe or
lies in its retained tail. `BytesExact` compares a counter with a fold over the slots. What
it needs of the fold (that the recursion it chooses exists, and that a frame's removal takes
its size off the sum) is an induction over finite sets, which the provers cannot instantiate.
It is made without: the recursion is the least relation closed under its two rules
(`SumExists`), and a law false of some subset would be false of a smallest one
(`SmallestSubset`).

**Dispatch**, for every capacity, batch size, lag and policy, and every interleaving of the
reader's critical sections with pushes and evictions. `DInv` says at each place between two
locks what the locals are still worth (`Placed`): a tail or an IDR read under an earlier lock may be
gone, but `write_seq` only grows until a reset, so a cursor moved by a stale answer does not
pass it (`Bounds`); and what was handed out is ascending and lies behind the cursor, for every
policy that may not coalesce (`LogBehind`). `InOrder` speaks of the collected batch as the ranks of a finite set, so that
no recursion is needed.

**PublishSession**, for any number of sessions and hubs. `SInv` adds `ArcFound`: acquire
and release write a slot only through an Arc to a hub they found. `Take` and `Free` are
the only steps that write slots, and all others go through `QuietSInv`. The refinement maps
each step to `Grant`, `GiveUp`, `Forget`, `Revoke` or a stutter of StreamLease.
`PInv` adds four facts for the next two properties: hubs not yet made are as new
(`FreshHubs`), a slot's holder is in charge of the hub the registry names
(`HolderInCharge`), who ended owns nothing (`EndedOwnsNothing`), and past its reset the
ring of an owner holds what it may (`OwnMedia`). `UInv` is for `IdleUnpublished`: as long as
the first hub is registered and Publishing somebody answers for it (`OnAirByBusy`), who may
still show it so or has its release before it; to keep that it must know that a session
that publishes owns a hub (`Owning`) and that only a WebRTC set-up fails in a way that releases
(`Failing`).

**MediaServer**, for any number of connections, sockets, pullers and streams. Every handler
has one of three effects on the registry (`Effect`): it leaves the slots alone, is
granted one, or returns one, and each says what the actor would give back afterwards.
The first half of the module shows that `RegInv` (every slot has somebody who would
give it back, or is lost) survives each effect, the second half that each handler has
one. The invariant joins to `RegInv` what each session knows of its stream
(`RtspState`, `RtmpState`, `RtcState`, `PullerState`). `LeaseSpec` follows effect by effect.

**Media paths**, each with an invariant of its own that the steps of the others leave alone;
a step of WholeServer is a step of one path or of the servers.
`ChunksInv` (RTMP) says of the bytes underway what the reader would do with them, as a function
from chunks to the reader's states that starts where the reader is and ends where the peer is:
writing a chunk extends it, parsing one drops its first value, and TCP's cut does not touch it,
so that the two ends of a queue are related without induction over the bytes. `IngestInv` (H264) says that the fragments
under way are those of the last packet's NAL up to it, that the batch is whole NALs of one unit
none of which lies ahead of that packet, and that nothing is missing of either if the unit
came whole so far; its two lemmas of substance are that the
packet of the next place is one of three (`Neighbours`) and that no other packet within
`Lateness` and `Losses` has the expected number (`GapSeen`). `SegInv` (HLS): the segments of the
window are the last of those committed, the discontinuities dropped are the ones counted, and
the open segment goes on where the last one ended or will say that it does not (`Marked`). `ChunksInv` says nothing after `outrun`, which is why a whole chunk parsed before it is
parsed by the size its peer cut it by. `DriftInv`: what the code makes of the ticks (`MediaTime`:
those of trusted steps, and a usual step for each other) is ahead of its milliseconds by less
than one per frame; that the ticks of trusted steps are those the publisher's clock went on by,
without stalls and set-backs, is `TicksPass`. `PusherInv`: counters run with
what went out, and within a keyframe's sends the parameter sets of that very frame are the
last units on its track.

**Workers**, for any number of callers and starts. A caller that nobody ran into
finds at each lock what the step before left (`Expects` for HLS; `OneStart`, `OneCall` for
the tables of recordings and analyses), which gives `Stoppable`. The HLS playlist is `Playlists`:
the list is the last segments committed (`LastSegments`), all of them on disk (`OnDisk`), and what
a task at work holds between its steps agrees with both (`AtHand`), while a session not
yet inserted has neither list nor number (`Fresh`). Aborted tasks are at work too; that they
all belong to the session of the moment, unless one lingered, is `TasksOfSession`. `OneWriter` says that
without a crowd one task lives and what it is about to write to the file is what the
index says; `SegmentsClosed` that a task leaves a segment only with its mark set;
`RouteOwned` that from taking the slot to taking its route down a publisher is the slot's
owner, so that the route it removes by name is its own - as long as no DELETE takes the slot
away.

Assumptions are those on the constants, named in the modules: capacities are
naturals, kinds are of the four, sessions differ from tracks and from `Nobody`
(`TracksAssumption`), each connection makes up a publisher id of its own
(`ActorsAssumption`), there is at least one hub, the media streams of an RTMP peer are
finitely many, and RTP packets stay within a turn of the sequence numbers
(`LossesAssumption`: beyond it the code does take a stranger for the expected packet).

Only model-checked: liveness under fairness, which is out of the prover's reach -
`PushReturnsOrJams`, `CatchesUpOrTrapped`, `StatusHeals`, `StopsRecording`, `SnapshotSettles`,
`RelaysEnd` - and, by their nature, the six violations.

## Not modelled

- Byte formats (`amf0.rs`, RTSP and SDP text, `ts_muxer.rs`'s bytes, AVCC and Annex B):
  pure functions that the unit tests in these files pin; no actor shares their state.
  What of them decides control, as the kind of a NAL or the completeness of a chunk,
  is a field in the models.
- Configuration and start-up, the self-test driver (`core/tester.rs`), the browser test
  pages: they run the components above and keep no state of the server's.
- `core/pusher.rs` (PusherManager): a map under one lock whose only caller is the HTTP
  route.
- The listings of StreamHub (receivers, tracks, clock estimates) and of HTTP: they only
  read. `WallclockMsTimeline` and the RTCP sender-report mapping stamp by the machine's
  clock. Frames that state no clock rate go a way of their own, by the size of the step
  (timestamp.rs:49-60). `record`'s playback list only reads the index.
- STAP-A packets (rtp_h264.rs:38-41): several whole NALs in one packet, none of them fragmented.
- ICE, DTLS and SRTP are the webrtc crate's; a peer connection's fate is a choice.
- In Dispatch: `recv_coalesced` (it keeps the last playable video frame of a batch, and RTSP
  players that use it never take the resync flag), the HLS lag snap (HlsSegmenter has it
  as `recover_from_lag`) and WebRTC's `snap_to_latest_idr`.
- A restart of the process: nothing but recordings is persisted, and their index.json
  is not read back but rewritten by the next start.

Nineteen hazards have no property, each with its reason in `PROJECT.json`. Two of them
(a gap whose first part was evicted, audio repeated behind a collapsed burst's IDR)
need Dispatch to remember what was written; two are waits of a reader whose stream was reset
or removed; one, the rounding of ticks, adds up as the code is written. The others are steps
that the models take and the properties exempt by a history variable, because the code goes
wrong there: the section above names them.

## Plan

1. A history in Dispatch of what was written, for the two hazards on evicted and repeated
   frames, with its properties joined to `DInv`; a hub that can be removed under its reader.
2. Proofs of what liveness rests on and safety can say: that each round of the eviction loop
   takes bytes off the ring unless `Jammed`, that a reader's round ends in a bounded number
   of steps.
