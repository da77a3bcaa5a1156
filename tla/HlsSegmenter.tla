---------------------------- MODULE HlsSegmenter ----------------------------
(***************************************************************************)
(* How an HLS session cuts a stream into segments (HlsSession of           *)
(* src/server/hls/mod.rs, timing.rs, m3u8.rs, the counters of ts_muxer.rs):*)
(* the publisher's timestamps become one mux timeline in milliseconds,     *)
(* segments are closed at keyframes, a reader that fell behind throws the  *)
(* open segment away, and the playlist slides.                             *)
(*                                                                         *)
(* Sessions, tasks and files are Hls's subject.  A keyframe takes two TS   *)
(* packets and any other frame one.                                        *)
(***************************************************************************)
EXTENDS Integers, Sequences, FiniteSets

CONSTANTS
  Target, WindowSize,  \* segment_duration in ms, max_segments
  Ticks,               \* steps of the publisher's clock from frame to frame, in ms
  MaxFrames, MaxSounds, MaxSnaps  \* bounds of the model: video, audio, falling behind
ASSUME SegmenterAssumption ==
  /\ {Target, WindowSize} \subseteq Nat \ {0} /\ Ticks \subseteq Nat
  /\ {MaxFrames, MaxSounds, MaxSnaps} \subseteq Nat

NoRaw == -1
Smaller(x, y) == IF x < y THEN x ELSE y
Larger(x, y) == IF x < y THEN y ELSE x

VARIABLES
  clock,     \* the publisher's clock
  frames, sounds, snaps,  \* counters of the bounds
  hs,        \* the HlsSession, without its playlist
  segments, media_sequence, discontinuity_sequence, next_sequence,  \* M3u8Generator
  unwritten,      \* history: a segment was not written since the last one that was
  committed       \* history: every segment the playlist was given
playlistVars == <<segments, media_sequence, discontinuity_sequence, next_sequence, unwritten, committed>>
segVars == <<clock, frames, sounds, snaps, hs, playlistVars>>

\* rawVideo, rawAudio, videoMux, audioMux: session_last_raw_* and session_*_mux_ms; pubRaw,
\* pubMs: last_video_timestamp and segment_duration_acc; open, last: the open segment's
\* mux span; filled: segment_buffer has media; keyed, firstCc: how the segment starts.
SegmenterInit ==
  /\ clock = 0 /\ frames = 0 /\ sounds = 0 /\ snaps = 0
  /\ hs = [primed |-> FALSE, rawVideo |-> 0, videoMux |-> 0, rawAudio |-> NoRaw, audioMux |-> 0,
           pubRaw |-> 0, pubMs |-> 0, open |-> 0, last |-> 0, filled |-> FALSE,
           keyed |-> FALSE, firstCc |-> 0, cc |-> 0, pending |-> FALSE]
  /\ segments = <<>> /\ committed = <<>> /\ unwritten = FALSE
  /\ media_sequence = 0 /\ discontinuity_sequence = 0 /\ next_sequence = 0

\* The mux timeline: a step the publisher's clock cannot justify counts as one at 25 fps.
advance_video_mux_ms(s, raw) ==
  LET step == IF s.rawVideo > 0 /\ raw > s.rawVideo
                THEN IF raw - s.rawVideo < 500 THEN raw - s.rawVideo ELSE 40
                ELSE IF s.videoMux = 0 THEN 0 ELSE 40
  IN  s.videoMux + step

\* Audio follows its own clock, no further from the video than this.
AudioMux(s, raw) ==
  LET pts == IF s.rawAudio = NoRaw \/ raw - s.rawAudio >= 2000 THEN s.videoMux
             ELSE s.audioMux + Larger(0, raw - s.rawAudio)
  IN  Smaller(Larger(pts, s.videoMux - 200), s.videoMux + 100)

Muxed(s, f) ==
  IF f.video
    THEN LET now == advance_video_mux_ms(s, f.raw)
         IN  [s EXCEPT !.rawVideo = f.raw, !.videoMux = now, !.last = now, !.filled = TRUE,
                       !.cc = (@ + IF f.key THEN 2 ELSE 1) % 16]
    ELSE [s EXCEPT !.rawAudio = f.raw, !.audioMux = AudioMux(s, f.raw), !.filled = TRUE]

\* The buffer is empty: a segment opens with whatever frame this is.
Opened(s, f) ==
  IF s.filled THEN s
  ELSE [s EXCEPT !.open = s.videoMux, !.keyed = f.key, !.firstCc = s.cc]

\* The publisher's clock, in case the mux timeline lags it.
Clocked(s, f) ==
  IF ~f.video THEN s
  ELSE LET d == IF s.pubRaw > 0 THEN f.raw - s.pubRaw ELSE 0
       IN  [s EXCEPT !.pubRaw = f.raw, !.pubMs = @ + IF d < 2000 THEN Larger(0, d) ELSE 0]

\* should_split_segment: at 85 % of the target, of 350 ms for the first segment.
should_split(s, f) ==
  LET threshold == IF segments = <<>> THEN 350 ELSE Target
  IN  /\ f.key /\ s.filled /\ s.last > s.open
      /\ Larger(s.last - s.open, s.pubMs) * 100 >= threshold * 85

begin_new_segment(s) ==
  [s EXCEPT !.pubMs = 0, !.pubRaw = 0, !.open = s.videoMux, !.pending = FALSE,
            !.keyed = TRUE, !.firstCc = s.cc]

\* M3u8Generator::add_segment: the window slides, and the numbers of what left it count on.
add_segment_InWindow(segment) ==
  LET all == Append(segments, segment)
      over == IF Len(all) > WindowSize THEN 1 ELSE 0
  IN  /\ segments' = SubSeq(all, 1 + over, Len(all))
      /\ media_sequence' = media_sequence + over
      /\ discontinuity_sequence' =
           discontinuity_sequence + IF over = 1 /\ Head(all).disc THEN 1 ELSE 0
      /\ next_sequence' = segment.seq + 1
      /\ committed' = Append(committed, segment) /\ unwritten' = FALSE

\* The task writes a closed segment and lists it; when it cannot, the segment is gone.
Committed(s) ==
  \/ add_segment_InWindow([seq |-> next_sequence, open |-> s.open, last |-> s.last,
                           disc |-> s.pending, keyed |-> s.keyed, firstCc |-> s.firstCc,
                           endCc |-> s.cc, unwritten |-> unwritten])
  \/ /\ unwritten' = TRUE
     /\ UNCHANGED <<segments, media_sequence, discontinuity_sequence, next_sequence, committed>>

\* HlsSession::on_frame, and what the task does with the segment it returns: nothing is
\* taken before the first keyframe, and only a keyframe ends a segment.
Admitted(f) == Clocked(Opened([hs EXCEPT !.primed = TRUE], f), f)
on_video(f) ==
  /\ frames < MaxFrames /\ frames' = frames + 1 /\ clock' = f.raw /\ UNCHANGED <<sounds, snaps>>
  /\ IF ~hs.primed /\ ~f.key THEN UNCHANGED <<hs, playlistVars>>
     ELSE IF should_split(Admitted(f), f)
       THEN hs' = Muxed(begin_new_segment(Admitted(f)), f) /\ Committed(Admitted(f))
       ELSE hs' = Muxed(Admitted(f), f) /\ UNCHANGED playlistVars
on_audio(f) ==
  /\ sounds < MaxSounds /\ sounds' = sounds + 1 /\ UNCHANGED <<clock, frames, snaps, playlistVars>>
  /\ hs' = IF hs.primed THEN Muxed(Admitted(f), f) ELSE hs

recover_from_lag_Silent(s) ==                                   \* mutant
  [s EXCEPT !.filled = FALSE, !.pubMs = 0, !.pubRaw = 0, !.open = s.videoMux, !.last = s.videoMux]
recover_from_lag(s) ==
  [s EXCEPT !.filled = FALSE, !.pubMs = 0, !.pubRaw = 0, !.open = s.videoMux, !.last = s.videoMux,
            !.pending = TRUE]

\* The reader fell behind, was snapped to the live edge, or lost its place in the ring.
Snap ==
  /\ snaps < MaxSnaps /\ snaps' = snaps + 1 /\ hs' = recover_from_lag(hs)
  /\ UNCHANGED <<clock, frames, sounds, playlistVars>>

SegmenterNext ==
  \/ \E tick \in Ticks, key \in BOOLEAN : on_video([video |-> TRUE, key |-> key, raw |-> clock + tick])
  \/ on_audio([video |-> FALSE, key |-> FALSE, raw |-> clock])
  \/ Snap
----------------------------------------------------------------------------
Discontinuities(list) == Cardinality({i \in 1 .. Len(list) : list[i].disc})

\* A segment begins where the one before it in the playlist ended, with a keyframe and
\* without a hole in its TS counters, or says that it does not; only the segment behind
\* one that could not be written gets neither.
TilesOrMarked ==
  \A i \in 1 .. Len(committed) - 1 :
    \/ committed[i + 1].disc \/ committed[i + 1].unwritten
    \/ /\ committed[i + 1].open = committed[i].last /\ committed[i + 1].firstCc = committed[i].endCc
       /\ committed[i + 1].keyed

\* A player that comes back sees each segment under the same numbers, however far the
\* window slid: its media sequence number is that of its file, and its discontinuity
\* number counts all the discontinuities there were.
NumbersStable ==
  \A i \in 1 .. Len(segments) :
    /\ media_sequence + i - 1 = segments[i].seq /\ segments[i] = committed[media_sequence + i]
    /\ discontinuity_sequence + Discontinuities(SubSeq(segments, 1, i))
         = Discontinuities(SubSeq(committed, 1, media_sequence + i))

\* The playlist a player reads is true to the media (hls/mod.rs:152-187, 286-525,
\* m3u8.rs:61-97, 131-168).
PlaylistTrue == TilesOrMarked /\ NumbersStable
=============================================================================
