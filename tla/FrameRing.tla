----------------------------- MODULE FrameRing -----------------------------
(***************************************************************************)
(* The bounded, GOP-aware cache of one stream (src/core/frame_ring.rs).    *)
(*                                                                         *)
(* The code keeps its slots and its two indexes in deques of ascending,    *)
(* never repeated sequence numbers, so a deque of seqs is the set of its   *)
(* members and the deque of slots is a function from seq to frame.  A      *)
(* frame is abstracted to its payload size and to one of four kinds:       *)
(*   "key"    H264/H265 with the is_keyframe flag set;                     *)
(*   "idr"    H264/H265 whose flag is clear but whose Annex-B payload holds*)
(*            an IDR unit (is_video_keyframe looks into the payload, the   *)
(*            front eviction looks at the flag only);                      *)
(*   "delta"  any other video frame;                                       *)
(*   "audio"  everything else.                                             *)
(* push and reset run under the ring's write lock (src/core/stream_hub.rs);*)
(* "evicting" says that a push is inside its eviction loop and still holds *)
(* the lock, one iteration of the loop being one step.                     *)
(***************************************************************************)
EXTENDS Integers, FiniteSets, FiniteSetsExt, Functions

CONSTANTS
  CapacityFrames,   \* capacity_frames
  CapacityBytes,    \* capacity_bytes
  Kinds,            \* kinds of frame the publisher sends
  Sizes,            \* payload sizes
  MaxSeq            \* bound of the model: frames pushed since the last reset

ASSUME CapacityAssumption == CapacityFrames \in Nat /\ CapacityBytes \in Nat
ASSUME KindsAssumption == Kinds \subseteq {"key", "idr", "delta", "audio"}
ASSUME SizesAssumption == Sizes \subseteq Nat
ASSUME MaxSeqAssumption == MaxSeq \in Nat

VARIABLES
  slots,       \* seq -> frame, the frames retained
  gop_starts,  \* seqs that open a GOP
  idr_seqs,    \* seqs a late joiner may be pointed at
  write_seq,   \* seq of the next frame
  bytes_used,  \* running total of the retained payload
  evicting     \* a push holds the write lock in evict_if_needed

vars == <<slots, gop_starts, idr_seqs, write_seq, bytes_used, evicting>>

MIN_GOPS_RETAINED == 1
Frames == [kind : Kinds, size : Sizes]
NoSeq == -1                         \* Option::None for a sequence number
Monus(a, b) == IF a >= b THEN a - b ELSE 0              \* saturating_sub
----------------------------------------------------------------------------
\* The read side, evaluated under the read lock (hence only when ~evicting).

latest_seq_Raw == write_seq                     \* mutant: saturating_sub(1) dropped
latest_seq == Monus(write_seq, 1)
oldest_seq == IF DOMAIN slots = {} THEN NoSeq ELSE Min(DOMAIN slots)
latest_idr_seq == IF idr_seqs = {} THEN NoSeq ELSE Max(idr_seqs)

snap(mode) ==
  IF mode = "LatestIdr" /\ latest_idr_seq # NoSeq THEN latest_idr_seq ELSE latest_seq

\* The retained frames of from..to (frames_from returns them in seq order).
frames_from_Exclusive(from, to) == {q \in DOMAIN slots : from <= q /\ q < to}   \* mutant
frames_from(from, to) == {q \in DOMAIN slots : from <= q /\ q <= to}

IsVideo(kind) == kind \in {"key", "idr", "delta"}
is_video_keyframe(kind) == kind \in {"key", "idr"}
----------------------------------------------------------------------------
Init ==
  /\ slots = << >>
  /\ gop_starts = {}
  /\ idr_seqs = {}
  /\ write_seq = 0
  /\ bytes_used = 0
  /\ evicting = FALSE

\* push, up to its call of evict_if_needed.
Push(frame) ==
  /\ ~evicting
  /\ write_seq < MaxSeq
  /\ LET index == IF is_video_keyframe(frame.kind) THEN {write_seq} ELSE {}
     IN  /\ gop_starts' = gop_starts \cup index
         /\ idr_seqs' = idr_seqs \cup index
  /\ slots' = [q \in DOMAIN slots \cup {write_seq} |->
                 IF q = write_seq THEN frame ELSE slots[q]]
  /\ bytes_used' = bytes_used + frame.size
  /\ write_seq' = write_seq + 1
  /\ evicting' = TRUE

Bytes(f) == FoldFunction(+, 0, [q \in DOMAIN f |-> f[q].size])

\* Removing the frames in seqs, with the byte count that goes with them.
Drop_Leaks(seqs) ==                             \* mutant: bytes not given back
  slots' = Restrict(slots, DOMAIN slots \ seqs) /\ UNCHANGED bytes_used
Drop(seqs) ==
  /\ slots' = Restrict(slots, DOMAIN slots \ seqs)
  /\ bytes_used' = Monus(bytes_used, Bytes(Restrict(slots, DOMAIN slots \cap seqs)))

needs_evict_FramesOnly == Cardinality(DOMAIN slots) > CapacityFrames    \* mutant
needs_evict == Cardinality(DOMAIN slots) > CapacityFrames \/ bytes_used > CapacityBytes

\* From the oldest GOP start up to the next one.
OldestGop_PastEnd ==                            \* mutant: the next head goes too
  Min(gop_starts) .. Min(gop_starts \ {Min(gop_starts)})
OldestGop_KeepsHead ==                          \* mutant: seq > start, not >=
  (Min(gop_starts) + 1) .. (Min(gop_starts \ {Min(gop_starts)}) - 1)
OldestGop == Min(gop_starts) .. (Min(gop_starts \ {Min(gop_starts)}) - 1)

Unindex_Inverted(start) ==                      \* mutant: retain(s == start)
  gop_starts' = gop_starts \ {start} /\ idr_seqs' = idr_seqs \cap {start}
Unindex_Peek(start) ==                          \* mutant: front() for pop_front()
  UNCHANGED <<gop_starts, idr_seqs>>
Unindex(start) == gop_starts' = gop_starts \ {start} /\ idr_seqs' = idr_seqs \ {start}

\* evict_oldest_gop: what lies before the oldest GOP start stays.
EvictOldestGop ==
  /\ evicting /\ needs_evict
  /\ Cardinality(gop_starts) > MIN_GOPS_RETAINED
  /\ Drop(OldestGop)
  /\ Unindex(Min(gop_starts))
  /\ UNCHANGED <<write_seq, evicting>>

FlaggedKeys == {q \in DOMAIN slots : slots[q].kind = "key"}
Unheaded == {q \in DOMAIN slots : \A k \in FlaggedKeys : q < k}

\* evict_front_until_keyframe_or_empty: the indexes are not touched, and the
\* step changes nothing when a flagged keyframe is already in front.
EvictFront ==
  /\ evicting /\ needs_evict
  /\ Cardinality(gop_starts) <= MIN_GOPS_RETAINED
  /\ Cardinality(DOMAIN slots) > 1
  /\ Drop(Unheaded)
  /\ UNCHANGED <<gop_starts, idr_seqs, write_seq, evicting>>

\* The loop's condition fails, or its last branch breaks; the lock is released.
EvictDone ==
  /\ evicting
  /\ \/ ~needs_evict
     \/ /\ Cardinality(gop_starts) <= MIN_GOPS_RETAINED
        /\ Cardinality(DOMAIN slots) <= 1
  /\ evicting' = FALSE
  /\ UNCHANGED <<slots, gop_starts, idr_seqs, write_seq, bytes_used>>

Reset_KeepsIndexes ==                           \* mutant: slots.clear() only
  /\ ~evicting
  /\ slots' = << >> /\ write_seq' = 0 /\ bytes_used' = 0
  /\ UNCHANGED <<gop_starts, idr_seqs, evicting>>
\* StreamHub::reset replaces the ring by a new one.
Reset ==
  /\ ~evicting
  /\ slots' = << >>
  /\ gop_starts' = {}
  /\ idr_seqs' = {}
  /\ write_seq' = 0
  /\ bytes_used' = 0
  /\ UNCHANGED evicting

Evict == EvictOldestGop \/ EvictFront \/ EvictDone

Next == (\E frame \in Frames : Push(frame)) \/ Evict \/ Reset

\* A push that started runs on to its return: it is plain, non-blocking code.
Spec == Init /\ [][Next]_vars /\ WF_vars(Evict)
----------------------------------------------------------------------------
\* Every variable has its type and every retained or indexed seq was written.
TypeOK ==
  /\ write_seq \in 0 .. MaxSeq
  /\ DOMAIN slots \subseteq 0 .. (write_seq - 1)
  /\ \A q \in DOMAIN slots : slots[q] \in Frames
  /\ gop_starts \subseteq 0 .. (write_seq - 1)
  /\ idr_seqs \subseteq 0 .. (write_seq - 1)
  /\ evicting \in BOOLEAN

\* bytes_used never drifts from the payload retained, whichever path removed
\* frames: evict_oldest_gop, the front eviction or reset (frame_ring.rs:90,175,183).
BytesExact == bytes_used = Bytes(slots)

\* Whenever a push has returned, the cache is within both capacities, measured
\* on the frames themselves, or holds one oversized frame (docs: bounded memory).
MemoryBounded ==
  ~evicting => \/ /\ Cardinality(DOMAIN slots) <= CapacityFrames
                  /\ Bytes(slots) <= CapacityBytes
               \/ Cardinality(DOMAIN slots) <= 1

\* From a retained flagged keyframe on, nothing is missing up to the newest
\* frame: a decoder started there finds every reference (evict_if_needed).
KeyTailKept ==
  \A k \in FlaggedKeys : k .. (write_seq - 1) \subseteq DOMAIN slots

\* While some flagged keyframe is retained, the seq that snap(LatestIdr) gives a
\* late joiner is retained too (frame_ring.rs:117-131).
LateJoinServed ==
  FlaggedKeys # {} => snap("LatestIdr") \in DOMAIN slots

\* The two indexes, written at three places, stay equal.
IndexesAgree == gop_starts = idr_seqs

\* No step evicts in the middle of a GOP: a frame that survives keeps the GOP
\* head it had (docs/ring-buffer-dispatcher.md:140).
GopHead(q) == {g \in gop_starts \cap DOMAIN slots :
                 g <= q /\ \A h \in gop_starts : h <= q => h <= g}
KeepsGopHeads ==
  [][\A q \in DOMAIN slots \cap DOMAIN slots' : GopHead(q) \subseteq DOMAIN slots']_vars

\* The loop cannot make progress: one GOP left, a flagged keyframe in front, and
\* still over capacity (frame_ring.rs:148-172).
Jammed ==
  /\ needs_evict
  /\ Cardinality(gop_starts) <= MIN_GOPS_RETAINED
  /\ Cardinality(DOMAIN slots) > 1
  /\ Unheaded = {}

\* A push returns, unless the loop runs into the jam above.
PushReturnsOrJams == evicting ~> (~evicting \/ Jammed)

\* A push returns: docs/ring-buffer-dispatcher.md:133 evicts only while a whole
\* GOP can be evicted; the code's loop has no such condition.
PushReturns == evicting ~> ~evicting
----------------------------------------------------------------------------
=============================================================================
