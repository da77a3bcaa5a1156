------------------------------ MODULE Dispatch ------------------------------
(***************************************************************************)
(* One subscriber of a stream (src/core/dispatch.rs) over the stream's ring*)
(* and its watch channel (src/core/stream_hub.rs).  Readers share nothing  *)
(* but the ring, which they only read, so that one reader stands for all.  *)
(*                                                                         *)
(* recv_batch takes the ring's read lock afresh for every question it asks;*)
(* each such critical section is one step here and anything may be pushed, *)
(* evicted or reset between two of them.  Players first look for an IDR    *)
(* (prime_live_play of src/core/live_play.rs, prime_from_idr for WebRTC).  *)
(* The consumer is the play loop of src/server/rtmp/mod.rs:1021-1042       *)
(* (HTTP-FLV, HLS, recorder and analysis have the same form): call         *)
(* recv_batch again at once on an empty batch, take the resync flag after  *)
(* a non-empty one.  RTSP and WebRTC players never take it.                *)
(***************************************************************************)
EXTENDS FrameRing, SequencesExt

CONSTANTS
  Policies,      \* the DispatchPolicies a reader may subscribe with
  MaxBatch,      \* MAX_SEQUENTIAL_BATCH (96 in the code)
  WebRtcLag,     \* WEBRTC_LAG_SNAP_THRESHOLD (45 in the code)
  PrimeLag,      \* PRIME_EXISTING_IDR_MAX_LAG, and live_play's frame_lag (30)
  MaxResets      \* bound of the model: publisher sessions that end

ASSUME PoliciesAssumption ==
  Policies \subseteq {"LiveCoalesce", "SequentialFromIdr", "WebRtcPlay", "LiveSequential"}
ASSUME BatchAssumption == MaxBatch \in Nat \ {0} /\ {WebRtcLag, PrimeLag} \subseteq Nat
ASSUME MaxResetsAssumption == MaxResets \in Nat

VARIABLES
  sending,   \* calls of publish and reset that owe the channel its send
  unseen,    \* the channel holds a version the reader has not marked seen
  resets,    \* resets so far
  policy, cursor,
  until,     \* video_catchup_until, NoSeq for None
  resync,    \* pending_muxer_resync
  priming,   \* prime_live_play reads batches and keeps nothing but an IDR
  pc,        \* where the reader is in subscribe, a priming or recv_batch
  loc,       \* the locals of recv_batch: the latest_seq it read, a probe (the
             \* oldest_seq it read, or the seq its IDR scan is at), and what is in
             \* the batch it is about to return; while prime_from_idr runs, its
             \* baseline and whether it looks for the last time
  log        \* history: the seqs of the frames recv_batch handed to the consumer
             \* since the last reset, in order

hubVars    == <<sending, unseen, resets>>
readerVars == <<policy, cursor, until, resync, priming, pc, loc, log>>
allVars    == <<vars, hubVars, readerVars>>

Sequential == policy \in {"SequentialFromIdr", "LiveSequential"}
Lesser(a, b)  == IF a <= b THEN a ELSE b
Greater(a, b) == IF a >= b THEN a ELSE b
----------------------------------------------------------------------------
\* The publisher's side: hub.publish and hub.reset change the ring under its
\* write lock, release it, and then send on the channel.

HubPush ==
  /\ "push" \notin sending
  /\ \E frame \in Frames : Push(frame)
  /\ UNCHANGED <<hubVars, readerVars>>

HubEvict_Silent ==                              \* mutant: send not called
  /\ Evict
  /\ UNCHANGED <<sending, unseen, resets, readerVars>>
HubEvict ==
  /\ Evict
  /\ sending' = IF evicting' THEN sending ELSE sending \cup {"push"}
  /\ UNCHANGED <<unseen, resets, readerVars>>

HubReset ==
  /\ "reset" \notin sending /\ resets < MaxResets
  /\ Reset
  /\ sending' = sending \cup {"reset"}
  /\ resets' = resets + 1
  /\ log' = << >>
  /\ UNCHANGED <<unseen, policy, cursor, until, resync, priming, pc, loc>>

\* seq_tx.send: it always marks the value changed.
Send ==
  /\ \E call \in sending : sending' = sending \ {call}
  /\ unseen' = TRUE
  /\ UNCHANGED <<vars, resets, readerVars>>
----------------------------------------------------------------------------
\* The reader's side.  A step that looks at the ring needs the read lock.

\* The locals die when recv_batch returns: to call it again, or to the consumer.
NoLocals == [latest |-> 0, probe |-> NoSeq, got |-> "none"]
Goto(label, locals) ==
  pc' = label /\ loc' = IF label \in {"ensure", "handle"} THEN NoLocals ELSE locals
Keep(others) == UNCHANGED <<vars, sending, resets, policy, priming, others>>

\* Where a read that ended at seq leaves the cursor.
seq_after_Same(seq) == seq                      \* mutant: saturating_add(1) dropped
seq_after(seq) == seq + 1

\* DispatchReader::new: subscribe to the channel, then position the cursor.
Subscribe ==
  /\ pc = "off"
  /\ policy' \in Policies
  /\ unseen' = FALSE
  /\ Goto("start", NoLocals)
  /\ UNCHANGED <<vars, sending, resets, cursor, until, resync, priming, log>>

\* HLS calls finish_prime, recorder and pusher do not; players prime.
Primes ==
  CASE policy = "LiveCoalesce"      -> {"prime"}
    [] policy = "SequentialFromIdr" -> {"prime", "ensure"}
    [] policy = "WebRtcPlay"        -> {"baseline"}
    [] OTHER                        -> {"ensure"}

Start ==
  /\ pc = "start" /\ ~evicting
  /\ cursor' = IF policy = "SequentialFromIdr" THEN snap("LatestIdr")
               ELSE snap("LiveEdge") + 1
  /\ \E label \in Primes : Goto(label, loc)
  /\ Keep(<<unseen, until, resync, log>>)

\* ensure_data: is_empty first, latest_seq second.
EnsureNotEmpty ==
  /\ pc = "ensure" /\ ~evicting
  /\ Goto(IF DOMAIN slots = {} THEN "wait" ELSE "ahead", loc)
  /\ Keep(<<unseen, cursor, until, resync, log>>)

EnsureAhead ==
  /\ pc = "ahead" /\ ~evicting
  /\ Goto(IF cursor <= latest_seq THEN "begin" ELSE "wait", loc)
  /\ Keep(<<unseen, cursor, until, resync, log>>)

\* wake.changed() returns once an unseen version is there, and marks it seen.
Wake ==
  /\ pc = "wait" /\ unseen
  /\ unseen' = FALSE
  /\ Goto("begin", loc)
  /\ Keep(<<cursor, until, resync, log>>)

CatchingUp == policy = "LiveCoalesce" /\ until # NoSeq
Lagging == policy = "WebRtcPlay" /\ Monus(latest_seq, cursor) > WebRtcLag

\* The first read of latest_seq decides between catch-up, a snap to the live
\* edge, an empty batch and the regular read.
Begin ==
  /\ pc = "begin" /\ ~evicting
  /\ Goto(CASE CatchingUp /\ cursor <= latest_seq              -> "catchup"
            [] ~CatchingUp /\ Lagging                          -> "snapLive"
            [] ~CatchingUp /\ ~Lagging /\ cursor <= latest_seq -> "read"
            [] OTHER                                           -> "ensure",
          [loc EXCEPT !.latest = latest_seq])
  /\ Keep(<<unseen, cursor, until, resync, log>>)

\* snap_to_live_edge and the re-read of latest_seq behind it.
SnapLive ==
  /\ pc = "snapLive" /\ ~evicting
  /\ cursor' = snap("LiveEdge") + 1
  /\ until' = NoSeq
  /\ Goto("relatest", NoLocals)
  /\ Keep(<<unseen, resync, log>>)

Relatest ==
  /\ pc = "relatest" /\ ~evicting
  /\ Goto(IF cursor <= latest_seq THEN "read" ELSE "ensure",
          [loc EXCEPT !.latest = latest_seq])
  /\ Keep(<<unseen, cursor, until, resync, log>>)

\* The frames of a batch lie in seq order: the n-th is the one with n up to it.
InOrder(qs) ==
  [n \in 1 .. Cardinality(qs) |-> CHOOSE q \in qs : Cardinality({p \in qs : p <= q}) = n]
HandOut(seqs) == log' = IF priming THEN log ELSE log \o seqs

\* What a batch of these frames is to the caller of recv_batch, and where the caller
\* goes with it: while priming, on to the next batch unless an IDR is in this one.
Holds(frames) ==
  CASE frames = {} -> "none"
    [] priming /\ (\E q \in frames : is_video_keyframe(slots[q].kind)) -> "idr"
    [] OTHER -> "frames"
Returned(got) == IF got = "none" \/ (priming /\ got # "idr") THEN "ensure" ELSE "handle"

\* The catch-up branch: everything from the cursor through the coalesced burst.
CatchUp ==
  /\ pc = "catchup" /\ ~evicting
  /\ LET end == Lesser(loc.latest, until)
         frames == frames_from(cursor, end)
     IN  /\ HandOut(InOrder(frames))
         /\ cursor' = IF frames = {} THEN cursor ELSE seq_after(end)
         /\ until' = IF frames # {} /\ seq_after(end) > until THEN NoSeq ELSE until
         /\ Goto(Returned(Holds(frames)), loc)
  /\ Keep(<<unseen, resync>>)

\* coalesce_flv_batch: everything but video in order, then one video frame, the
\* last IDR when several collapse (none of them, when no IDR is among them).
coalesce_flv_batch(frames) ==
  LET video == {q \in frames : IsVideo(slots[q].kind)}
      idrs  == {q \in video : is_video_keyframe(slots[q].kind)}
      chosen == CASE Cardinality(video) <= 1 -> video
                  [] Cardinality(video) > 1 /\ idrs # {} -> {Max(idrs)}
                  [] OTHER -> {}
  IN  InOrder(frames \ video) \o InOrder(chosen)

batch_end_Uncapped ==                           \* mutant: min(latest) dropped
  CASE Sequential               -> cursor + MaxBatch - 1
    [] policy = "LiveCoalesce"  -> loc.latest
    [] policy = "WebRtcPlay"    -> cursor
batch_end ==
  CASE Sequential               -> Lesser(loc.latest, cursor + MaxBatch - 1)
    [] policy = "LiveCoalesce"  -> loc.latest
    [] policy = "WebRtcPlay"    -> cursor

\* The regular read.  The frames a burst collapses to are fixed here; where the
\* cursor goes then depends on the IDR scan, which reads the ring again.
Read ==
  /\ pc = "read" /\ ~evicting
  /\ LET frames == frames_from(cursor, batch_end)
         burst  == /\ policy = "LiveCoalesce"
                   /\ Cardinality({q \in frames : IsVideo(slots[q].kind)}) > 1
         out    == IF Sequential THEN InOrder(frames) ELSE coalesce_flv_batch(frames)
     IN  /\ HandOut(out)
         /\ cursor' = IF frames = {} \/ burst THEN cursor ELSE seq_after(batch_end)
         /\ Goto(CASE frames = {} -> "gap" [] burst -> "scan"
                   [] OTHER -> Returned(Holds(ToSet(out))),
                 IF burst THEN [loc EXCEPT !.probe = batch_end, !.got = Holds(ToSet(out))]
                 ELSE NoLocals)
  /\ Keep(<<unseen, until, resync>>)

\* last_playable_idr_seq, one hub.get per step, newest first: an IDR found begins
\* the catch-up behind it, none found skips the burst.
ScanIdr ==
  /\ pc = "scan" /\ ~evicting
  /\ LET found == loc.probe \in DOMAIN slots /\ is_video_keyframe(slots[loc.probe].kind)
         over  == found \/ loc.probe = cursor
     IN  /\ cursor' = CASE found          -> loc.probe + 1
                        [] ~found /\ over -> loc.latest + 1
                        [] OTHER          -> cursor
         /\ until' = IF found THEN loc.latest ELSE until
         /\ Goto(IF over THEN Returned(loc.got) ELSE "scan", [loc EXCEPT !.probe = @ - 1])
  /\ Keep(<<unseen, resync, log>>)

\* Nothing was there: a gap only if the oldest frame lies beyond the cursor.
Gap ==
  /\ pc = "gap" /\ ~evicting
  /\ resync' = (resync \/ oldest_seq > cursor)
  /\ Goto(IF oldest_seq > cursor THEN "jump" ELSE "ensure",
          [NoLocals EXCEPT !.probe = oldest_seq])
  /\ Keep(<<unseen, cursor, until, log>>)

Jump ==
  /\ pc = "jump" /\ ~evicting
  /\ cursor' = Greater(snap("LatestIdr"), loc.probe)
  /\ Goto("jumped", NoLocals)
  /\ Keep(<<unseen, until, resync, log>>)

JumpLatest ==
  /\ pc = "jumped" /\ ~evicting
  /\ Goto(IF cursor <= latest_seq THEN "retry" ELSE "ensure",
          [loc EXCEPT !.latest = latest_seq])
  /\ Keep(<<unseen, cursor, until, resync, log>>)

Retry ==
  /\ pc = "retry" /\ ~evicting
  /\ LET end == Lesser(loc.latest, cursor + MaxBatch - 1)
         frames == frames_from(cursor, end)
     IN  /\ HandOut(InOrder(frames))
         /\ cursor' = IF frames = {} THEN cursor ELSE seq_after(end)
         /\ Goto(Returned(Holds(frames)), loc)
  /\ Keep(<<unseen, until, resync>>)

\* The consumer has a batch, or the IDR its priming found: take_muxer_resync, and
\* clear_video_catchup with it.  RTSP and WebRTC players leave both alone.
Handle ==
  /\ pc = "handle"
  /\ \/ resync' = FALSE /\ until' = IF resync THEN NoSeq ELSE until
     \/ ~Sequential /\ UNCHANGED <<resync, until>>
  /\ priming' = FALSE
  /\ Goto("ensure", loc)
  /\ UNCHANGED <<vars, sending, resets, policy, unseen, cursor, log>>
----------------------------------------------------------------------------
\* finish_prime; then a player reads batches until one holds an IDR, ...
FinishPrime ==
  /\ pc = "prime" /\ ~evicting
  /\ IF Sequential THEN cursor' = snap("LatestIdr") /\ UNCHANGED <<until, priming>>
     ELSE cursor' = snap("LiveEdge") + 1 /\ until' = NoSeq /\ priming' = TRUE
  /\ Goto("ensure", loc)
  /\ UNCHANGED <<vars, sending, resets, policy, unseen, resync, log>>

\* ... for 800 ms at most: a batch that waits is given up with recv_batch's future.
Deadline ==
  /\ priming /\ pc \in {"ensure", "wait"}
  /\ Goto("fallback", NoLocals)
  /\ Keep(<<unseen, cursor, until, resync, log>>)

\* The latest IDR, if it is cached and close to the edge when its seq, its frame and the
\* lag are read one after another; then the seq its catch-up goes to.  Without one the
\* consumer waits for it.
Fallback ==
  /\ pc = "fallback" /\ ~evicting
  /\ \/ /\ latest_idr_seq \in DOMAIN slots /\ Monus(latest_seq, latest_idr_seq) <= PrimeLag
        /\ Goto("fallbackUntil", [loc EXCEPT !.probe = latest_idr_seq]) /\ UNCHANGED priming
     \/ Goto("ensure", loc) /\ priming' = FALSE
  /\ UNCHANGED <<vars, sending, resets, policy, unseen, cursor, until, resync, log>>

begin_video_catchup_after_idr ==
  /\ pc = "fallbackUntil" /\ ~evicting
  /\ cursor' = loc.probe + 1 /\ until' = latest_seq
  /\ Goto("handle", loc)
  /\ Keep(<<unseen, resync, log>>)

\* prime_from_idr: the baseline, ...
Baseline ==
  /\ pc = "baseline" /\ ~evicting
  /\ Goto("primeLook", [loc EXCEPT !.latest = latest_seq])
  /\ Keep(<<unseen, cursor, until, resync, log>>)

\* ... an IDR newer than that, or close to the edge, and cached still when it is fetched.
\* It may be too old by media time, which frames here do not have.  The cursor stays on
\* the IDR, so that recv_batch returns it once more.
idr_is_close_to_live(seq) == Monus(latest_seq, seq) <= PrimeLag
PrimeLook ==
  /\ pc = "primeLook" /\ ~evicting
  /\ \/ /\ latest_idr_seq \in DOMAIN slots
        /\ latest_idr_seq > loc.latest \/ idr_is_close_to_live(latest_idr_seq)
        /\ cursor' = latest_idr_seq /\ Goto("handle", loc)
     \/ /\ IF loc.got = "last" THEN Goto("primeEmpty", NoLocals) ELSE Goto("primeWait", loc)
        /\ UNCHANGED cursor
  /\ Keep(<<unseen, until, resync, log>>)

\* wait_new_frames, and one look more behind the deadline.
PrimeWait ==
  /\ pc = "primeWait"
  /\ \/ unseen /\ unseen' = FALSE /\ Goto("primeLook", loc)
     \/ Goto("primeLook", [loc EXCEPT !.got = "last"]) /\ UNCHANGED unseen
  /\ Keep(<<cursor, until, resync, log>>)

\* An empty ring, which then has an IDR after all (get_last_keyframe).
PrimeEmpty ==
  /\ pc = "primeEmpty" /\ ~evicting
  /\ Goto(IF DOMAIN slots = {} THEN "primeBytes" ELSE "ensure", NoLocals)
  /\ Keep(<<unseen, cursor, until, resync, log>>)
PrimeBytes ==
  /\ pc = "primeBytes" /\ ~evicting
  /\ IF latest_idr_seq \in DOMAIN slots THEN cursor' = snap("LatestIdr") /\ Goto("handle", loc)
     ELSE UNCHANGED cursor /\ Goto("ensure", loc)
  /\ Keep(<<unseen, until, resync, log>>)
----------------------------------------------------------------------------
DInit ==
  /\ Init
  /\ sending = {} /\ unseen = FALSE /\ resets = 0
  /\ policy = "none" /\ cursor = 0 /\ until = NoSeq /\ resync = FALSE
  /\ priming = FALSE /\ pc = "off" /\ loc = NoLocals
  /\ log = << >>

Hub == HubPush \/ HubEvict \/ HubReset \/ Send

Call ==
  \/ EnsureNotEmpty \/ EnsureAhead \/ Wake \/ Begin \/ SnapLive \/ Relatest
  \/ CatchUp \/ Read \/ ScanIdr \/ Gap \/ Jump \/ JumpLatest \/ Retry \/ Handle
  \/ FinishPrime \/ Deadline \/ Fallback \/ begin_video_catchup_after_idr
  \/ Baseline \/ PrimeLook \/ PrimeWait \/ PrimeEmpty \/ PrimeBytes

DNext == Hub \/ Subscribe \/ Start \/ Call

\* A write lock is given back, a send that is owed is made, and the consumer
\* task keeps running: none of them waits for anything but the other two.
DSpec ==
  /\ DInit /\ [][DNext]_allVars
  /\ WF_allVars(HubEvict \/ Send) /\ WF_allVars(Start \/ Call)
----------------------------------------------------------------------------
\* Every variable of the reader has its type, and a scan stays in its burst.
DTypeOK ==
  /\ TypeOK
  /\ sending \subseteq {"push", "reset"} /\ unseen \in BOOLEAN /\ resets \in 0 .. MaxResets
  /\ policy \in Policies \cup {"none"}
  /\ cursor \in 0 .. MaxSeq + 1 /\ until \in NoSeq .. (MaxSeq - 1)
  /\ resync \in BOOLEAN /\ (priming => policy = "LiveCoalesce")
  /\ loc \in [latest : 0 .. MaxSeq, probe : NoSeq .. (MaxSeq - 1),
             got : {"none", "frames", "idr", "last"}]
  /\ pc = "scan" => cursor <= loc.probe /\ loc.probe <= loc.latest
  /\ ToSet(log) \subseteq 0 .. (write_seq - 1)

\* However the locked reads of recv_batch interleave with pushes and evictions,
\* the cursor never passes a frame that is still to be written, so none is lost
\* that way; until a reset, that is, and save for seq 0 of a stream that a live
\* reader joins before its first frame (dispatch.rs:62).
CursorWithinRing == resets = 0 => cursor <= Greater(write_seq, 1)

\* A reader that may not coalesce hands every frame out at most once and in the
\* order it was written (dispatch.rs:27-34, 349).
InOrderOnce ==
  policy # "LiveCoalesce" /\ resets = 0 =>
    \A i, j \in DOMAIN log : i < j => log[i] < log[j]

\* A sequential reader's cursor passes a frame still cached only by handing it
\* out, or with the resync flag raised (dispatch.rs:293, 349).
NoSilentSkip ==
  [][Sequential /\ cursor' > cursor /\ pc \notin {"start", "prime"} =>
       \/ \A q \in DOMAIN slots : cursor <= q /\ q < cursor' => q \in ToSet(log')
       \/ resync']_allVars

\* The two ways a reader can spin on empty batches for good.  A burst that ended
\* in its IDR, or whose rest was evicted, leaves a catch-up with nothing to read
\* (dispatch.rs:313-317); frames from before the first keyframe, which GOP
\* eviction spares, hide a gap wider than the batch (dispatch.rs:367-369).
CatchUpStuck ==
  CatchingUp /\ until < write_seq /\ frames_from(cursor, until) = {}
GapMasked ==
  /\ oldest_seq <= cursor
  /\ frames_from(cursor, IF Sequential THEN cursor + MaxBatch - 1 ELSE cursor) = {}

Behind == pc # "off" /\ \E q \in DOMAIN slots : cursor <= q

\* No wake-up is lost: a reader with a cached frame in front of it gets past the
\* newest one, unless it sits in one of the traps above or the ring is jammed.
CatchesUpOrTrapped == Behind ~> (~Behind \/ CatchUpStuck \/ GapMasked \/ Jammed)

\* A LiveCoalesce reader that is behind catches up (docs/ring-buffer-dispatcher.md:377).
LiveCatchesUp == Behind ~> (~Behind \/ Jammed)

\* Once an IDR was handed out, a delta frame follows the video frame it refers to
\* (dispatch.rs:500-501: otherwise the player would receive P-frames without
\* their reference pictures).  Stated for a stream of video only, nothing evicted.
DecoderSafe ==
  \A i \in DOMAIN log :
    slots[log[i]].kind = "delta" /\ (\E h \in 1 .. (i - 1) : slots[log[h]].kind = "key") =>
      log[i-1] = log[i] - 1
=============================================================================
