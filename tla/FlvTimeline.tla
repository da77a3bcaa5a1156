---------------------------- MODULE FlvTimeline ----------------------------
(***************************************************************************)
(* The clock of a recorded file (FlvPlayTimeline and the delta helpers of  *)
(* src/core/timestamp.rs, used by SegmentWriter::write_frame of            *)
(* src/process/record/mod.rs): video and audio count milliseconds of their *)
(* own, from the rate of each track, and tags leave in one rising order.   *)
(***************************************************************************)
EXTENDS Integers, FiniteSets, FiniteSetsExt

CONSTANTS
  VideoTicks, VideoRate,  \* steps of the video track's clock, and its rate
  AudioTicks, AudioRate,  \* the same for AAC
  MaxTags                 \* bound of the model: tags written
ASSUME TimelineAssumption ==
  /\ VideoTicks \cup AudioTicks \subseteq Int
  /\ {VideoRate, AudioRate} \subseteq Nat \ {0} /\ MaxTags \in Nat

TrackKinds == {"video", "audio"}
Rate(k) == IF k = "video" THEN VideoRate ELSE AudioRate

VARIABLES
  raw,       \* track -> timestamp of its last frame, NoTs before it has one
  ms,        \* video_ms and audio_ms
  emitted,   \* last_emit_ms
  count,     \* track -> frames so far
  skewed,    \* history: track -> frames whose step the code did not trust
  back,      \* history: track -> ticks by which its clock was set back
  stalled    \* history: track -> ticks it went on in steps not trusted
timeVars == <<raw, ms, emitted, count, skewed, back, stalled>>

NoTs == -1
FirstTs == 1000000  \* large enough for what the steps take back
TimelineInit ==
  /\ raw = [k \in TrackKinds |-> NoTs] /\ ms = [k \in TrackKinds |-> 0] /\ emitted = 0
  /\ count = [k \in TrackKinds |-> 0] /\ skewed = count /\ back = count /\ stalled = count

\* media_timestamp_delta_ms_with_clock for a frame that states its rate.
delta_ms_Rounded(d, rate) == (d * 1000 + rate - 1) \div rate     \* mutant
delta_ms(d, rate) == (d * 1000) \div rate

\* What stands in for a step that cannot be: 1 ms of video, a frame of 1024 samples.
Usual(k) == IF k = "video" THEN 1 ELSE 1024000 \div AudioRate
Trusted(k, ts) == raw[k] # NoTs /\ ts > raw[k] /\ delta_ms(ts - raw[k], Rate(k)) \in 1 .. 1999
Ideal(k, ts) ==
  IF raw[k] = NoTs THEN 0
  ELSE ms[k] + IF Trusted(k, ts) THEN delta_ms(ts - raw[k], Rate(k)) ELSE Usual(k)

\* FlvPlayTimeline::map.
map(k, ts) ==
  LET ideal == Ideal(k, ts)
      d == ts - raw[k]
      odd == raw[k] # NoTs /\ ~Trusted(k, ts)
  IN  /\ count["video"] + count["audio"] < MaxTags
      /\ ms' = [ms EXCEPT ![k] = ideal] /\ raw' = [raw EXCEPT ![k] = ts]
      /\ count' = [count EXCEPT ![k] = @ + 1]
      /\ emitted' = IF ideal > emitted THEN ideal
                    ELSE IF ideal = 0 /\ emitted = 0 THEN 0 ELSE emitted + 1
      /\ skewed' = [skewed EXCEPT ![k] = @ + IF odd THEN 1 ELSE 0]
      /\ back' = [back EXCEPT ![k] = @ + IF odd /\ d < 0 THEN -d ELSE 0]
      /\ stalled' = [stalled EXCEPT ![k] = @ + IF odd /\ d > 0 THEN d ELSE 0]

Tag(k, ticks) ==
  \E d \in ticks :
    LET ts == IF raw[k] = NoTs THEN FirstTs ELSE raw[k] + d IN ts >= 0 /\ map(k, ts)
TimelineNext == Tag("video", VideoTicks) \/ Tag("audio", AudioTicks)
----------------------------------------------------------------------------
\* What the publisher's own clock of track k has gone on by, in ticks.
Elapsed(k) == IF raw[k] = NoTs THEN 0 ELSE raw[k] - FirstTs

\* How far a file's clock is off the publisher's, however that jumps, stalls or is set
\* back.  It runs ahead by no more than what was set back, and one usual step for each that
\* was not trusted; it falls behind by no more than the stalls it cuts out, and less than a
\* millisecond per frame, which adds up and is never made good.  And no tag is later than
\* the further track's clock by more than one per tag (timestamp.rs:34-47, 125-187).
DriftBounded ==
  /\ \A k \in TrackKinds :
       /\ ms[k] * Rate(k) <= (Elapsed(k) + back[k]) * 1000 + skewed[k] * Usual(k) * Rate(k)
       /\ (Elapsed(k) + back[k] - stalled[k]) * 1000 - ms[k] * Rate(k) <= count[k] * (Rate(k) - 1)
  /\ Max({ms[k] : k \in TrackKinds}) <= emitted
  /\ emitted <= Max({ms[k] : k \in TrackKinds}) + count["video"] + count["audio"]
=============================================================================
