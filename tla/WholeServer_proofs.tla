------------------------- MODULE WholeServer_proofs -------------------------
(***************************************************************************)
(* What holds of the servers holds beside any media path.                  *)
(***************************************************************************)
EXTENDS WholeServer, MediaServer_proofs, MediaPaths_proofs

\* The servers beside the media paths behave as the servers alone: a step of a path is
\* a stutter of theirs, so that every theorem about Spec is one about WholeSpec.
THEOREM WholeIsServer == WholeSpec => Spec
<1>1. WholeInit => Init
  BY DEF WholeInit
<1>2. [WholeNext]_<<vars, pathVars>> => [Next]_vars
  <2> SUFFICES ASSUME [WholeNext]_<<vars, pathVars>> PROVE [Next]_vars
    OBVIOUS
  <2>1. CASE WholeNext
    BY <2>1 DEF WholeNext
  <2>2. CASE UNCHANGED <<vars, pathVars>>
    <3> HIDE DEF vars, pathVars
    <3> QED
      BY <2>2
  <2> QED
    BY <2>1, <2>2
<1> QED
  BY <1>1, <1>2, PTL DEF WholeSpec, Spec

\* A step beside the servers is a step of one media path.
LEMMA WholeIsPaths == [WholeNext]_<<vars, pathVars>> => [PathsNext]_pathVars
<1> SUFFICES ASSUME [WholeNext]_<<vars, pathVars>> PROVE [PathsNext]_pathVars
  OBVIOUS
<1>1. CASE WholeNext
  BY <1>1 DEF WholeNext
<1>2. CASE UNCHANGED <<vars, pathVars>>
  <2> HIDE DEF vars, pathVars
  <2> QED
    BY <1>2
<1> QED
  BY <1>1, <1>2

\* The peer of a pusher gets one RTP stream per track: its sequence numbers have no hole,
\* its keyframes stand behind their parameter sets, and a pause holds, for any tracks,
\* any batches and any number of lost writes (pusher.rs:258-426, 499-520).
THEOREM WholePusherWire == WholeSpec => []PusherWire
<1>1. WholeInit => PusherInv
  BY InitPusher DEF WholeInit, PathsInit
<1>2. PusherInv /\ [WholeNext]_<<vars, pathVars>> => PusherInv'
  BY WholeIsPaths, PathsKeepPusher
<1>3. PusherInv => PusherWire
  BY PusherOnWire
<1> QED
  BY <1>1, <1>2, <1>3, PTL DEF WholeSpec

\* Against the publisher's own clock a recorded file runs ahead by at most what that was set
\* back and one usual step per step not trusted, and behind by at most the stalls it cut out
\* and less than a millisecond per frame, which adds up; a tag is later than its clock by at
\* most one per tag.  For any clock rates, and any steps (timestamp.rs:36-58, 117-185).
THEOREM WholeDriftBounded == WholeSpec => []DriftBounded
<1>1. WholeInit => DriftInv
  BY InitDrift DEF WholeInit, PathsInit
<1>2. DriftInv /\ [WholeNext]_<<vars, pathVars>> => DriftInv'
  BY WholeIsPaths, PathsKeepDrift
<1>3. DriftInv => DriftBounded
  BY DriftOfFile
<1> QED
  BY <1>1, <1>2, <1>3, PTL DEF WholeSpec

\* The playlist of an HLS session is true to the media, for any target and window, any
\* clock of the publisher, and whatever was lost to lag or to a write that failed
\* (hls/mod.rs:152-187, 286-525, m3u8.rs:61-97, 131-168).
THEOREM WholePlaylistTrue == WholeSpec => []PlaylistTrue
<1>1. WholeInit => SegInv
  BY InitSeg DEF WholeInit, PathsInit
<1>2. SegInv /\ [WholeNext]_<<vars, pathVars>> => SegInv'
  BY WholeIsPaths, PathsKeepSeg
<1>3. SegInv => PlaylistTrue
  BY PlaylistOfInv
<1> QED
  BY <1>1, <1>2, <1>3, PTL DEF WholeSpec

\* Every message comes out as its peer sent it, for any chunk streams, chunk sizes and
\* payload lengths, wherever TCP cuts the bytes, until one read brings a Set Chunk Size and
\* behind it a chunk that the new size cuts differently (chunk.rs:89-310, rtmp/mod.rs:306-317).
THEOREM WholeMessagesAsSent == WholeSpec => []MessagesAsSent
<1>1. WholeInit => ChunksInv
  BY ChunksStart DEF WholeInit, PathsInit
<1>2. ChunksInv /\ [WholeNext]_<<vars, pathVars>> => ChunksInv'
  BY WholeIsPaths, PathsKeepChunks
<1>3. ChunksInv => MessagesAsSent
  BY ChunksOfInv
<1> QED
  BY <1>1, <1>2, <1>3, PTL DEF WholeSpec

\* What is published of H264 over RTP is of one access unit, its NALs whole and in order,
\* and a unit that came whole and shows its end is published whole, for any units, any
\* first sequence number, and whatever is lost, late or doubled within 65535 packets
\* (h264_rtp_ingest.rs:67-112, 189-219, rtp_h264.rs:51-80).
THEOREM WholeUnitsIntact == WholeSpec => []UnitsIntact
<1>1. WholeInit => IngestInv
  BY InitIngest DEF WholeInit, PathsInit
<1>2. IngestInv /\ [WholeNext]_<<vars, pathVars>> => IngestInv'
  BY WholeIsPaths, PathsKeepIngest
<1>3. IngestInv => UnitsIntact
  BY UnitsOfInv
<1> QED
  BY <1>1, <1>2, <1>3, PTL DEF WholeSpec
=============================================================================
