----------------------------- MODULE H264Ingest -----------------------------
(***************************************************************************)
(* H264 over RTP into a stream (src/server/webrtc/h264_rtp_ingest.rs and   *)
(* rtp_h264.rs, fed by the RTSP server and the RTSP puller; read_h264_track*)
(* of src/server/webrtc/publisher.rs does the same with its own copy):     *)
(* packets that UDP loses, repeats and reorders become access units.       *)
(*                                                                         *)
(* The peer's packets are those of packetize_h264_access_unit_for_rtp      *)
(* (src/server/rtsp/common.rs): a NAL fits one packet or is cut into FU-A  *)
(* fragments, and the last packet of an access unit has the marker.  Bytes *)
(* are the fragments they come from.                                       *)
(***************************************************************************)
EXTENDS Integers, Sequences, FiniteSets

CONSTANTS
  AccessUnits,     \* the units sent: sequences of NALs [kind, parts]
  FirstSeq,        \* sequence number of the first packet
  Copies,          \* bound of the model: deliveries of a packet
  Lateness, Losses \* how far behind and ahead of the packet before it one may come
SentNals == [kind : {"config", "info", "slice"}, parts : Nat \ {0}]
ASSUME UnitsAssumption == AccessUnits \in Seq(Seq(SentNals))
ASSUME IngestAssumption ==
  /\ FirstSeq \in Nat /\ FirstSeq < 65536
  /\ {Copies, Lateness, Losses} \subseteq Nat
\* A packet is told from the expected one by 16 bits: 65536 lost in a row would not be noticed.
ASSUME LossesAssumption == Lateness + Losses < 65535

NoSeq == -1
Units == 1 .. Len(AccessUnits)
Nals(a) == 1 .. Len(AccessUnits[a])

\* packetize_h264_nal_for_rtp: the fragments of a NAL, a packet each.
packetize_nal(a, i) ==
  [j \in 1 .. AccessUnits[a][i].parts |-> [unit |-> a, nal |-> i, part |-> j]]
Fragmented(k) == AccessUnits[k.unit][k.nal].parts > 1
NalEnds(k) == k.part = AccessUnits[k.unit][k.nal].parts

\* packetize_h264_access_unit_for_rtp: all packets, and their order.
Packets == UNION {UNION {{packetize_nal(a, i)[j] : j \in DOMAIN packetize_nal(a, i)} :
                         i \in Nals(a)} : a \in Units}
Before(o, k) ==
  \/ o.unit < k.unit
  \/ o.unit = k.unit /\ o.nal < k.nal
  \/ o.unit = k.unit /\ o.nal = k.nal /\ o.part < k.part
Rank(k) == Cardinality({o \in Packets : Before(o, k)})
Number(k) == (FirstSeq + Rank(k)) % 65536
Marker(k) == NalEnds(k) /\ k.nal = Len(AccessUnits[k.unit])
NoPacket == [unit |-> 0, nal |-> 0, part |-> 0]

VARIABLES
  times,     \* packet -> how often it arrived
  expected,  \* expected_seq
  fu,        \* fu_buffer: fragments of the NAL under way, <<>> when None
  batch,     \* parts: the NALs of the unit under way
  batchUnit, \* its timestamp: the unit it says it is
  published, \* the access units published, as sequences of NALs
  last,      \* history: the packet that came last
  whole,     \* history: of its unit all packets up to it came one after the other
  clean,     \* history: units that came whole and in order
  open       \* the connection is there
ingestVars == <<times, expected, fu, batch, batchUnit, published, last, whole, clean, open>>

IngestInit ==
  /\ times = [k \in Packets |-> 0] /\ expected = NoSeq
  /\ fu = <<>> /\ batch = <<>> /\ batchUnit = 0 /\ published = {}
  /\ last = NoPacket /\ whole = FALSE /\ clean = {} /\ open = TRUE

Kind(nal) == AccessUnits[Head(nal).unit][Head(nal).nal].kind

\* flush_access_unit publishes nothing without a slice.
Flushed(nals) ==
  IF \E i \in DOMAIN nals : Kind(nals[i]) = "slice" THEN {nals} ELSE {}

is_fu_a_continuation(k) == Fragmented(k) /\ k.part > 1

\* H264RtpDepacketizer: the fragments collected, and the NAL that is complete, if any.
Collected(k, buffer) ==
  IF k.part = 1 THEN <<k>> ELSE IF buffer = <<>> THEN <<>> ELSE Append(buffer, k)
Complete(k, buffer) ==
  IF ~Fragmented(k) THEN <<k>> ELSE IF NalEnds(k) THEN Collected(k, buffer) ELSE <<>>

\* accept_sequence: on a gap the NAL and the unit under way are given up.
Gap_Ignored(k, seq) == FALSE                                    \* mutant
Gap(k, seq) == expected # NoSeq /\ seq # expected

\* ingest_payload: a NAL joins the unit of its timestamp; a new timestamp, or the marker,
\* ends the unit.
Joins(k, nal, parts) ==
  LET turn == parts # <<>> /\ batchUnit # k.unit
      now == IF turn THEN <<nal>> ELSE Append(parts, nal)
  IN  /\ published' = published \cup (IF turn THEN Flushed(parts) ELSE {})
                                \cup (IF Marker(k) THEN Flushed(now) ELSE {})
      /\ batch' = IF Marker(k) THEN <<>> ELSE now
      /\ batchUnit' = k.unit

ingest_rtp_packet(k) ==
  LET gap == Gap(k, Number(k))
      buffer == IF gap THEN <<>> ELSE fu
      parts == IF gap THEN <<>> ELSE batch
      nal == Complete(k, buffer)
  IN  /\ expected' = (Number(k) + 1) % 65536
      /\ IF gap /\ is_fu_a_continuation(k)
           THEN fu' = <<>> /\ batch' = <<>> /\ UNCHANGED <<batchUnit, published>>
           ELSE /\ fu' = IF ~Fragmented(k) THEN buffer ELSE IF NalEnds(k) THEN <<>> ELSE Collected(k, buffer)
                /\ IF nal = <<>> \/ Kind(nal) = "config"
                     THEN batch' = parts /\ UNCHANGED <<batchUnit, published>>
                     ELSE Joins(k, nal, parts)

\* Packet k arrives, whatever came before it within the bounds.
Follows(k) == last # NoPacket /\ Rank(k) = Rank(last) + 1
Deliver(k) ==
  /\ open /\ times[k] < Copies
  /\ last # NoPacket => Rank(k) \in Rank(last) - Lateness .. Rank(last) + Losses
  /\ times' = [times EXCEPT ![k] = @ + 1]
  /\ last' = k
  /\ whole' = ((k.nal = 1 /\ k.part = 1) \/ (whole /\ Follows(k)))
  /\ clean' = IF whole' /\ Marker(k) THEN clean \cup {k.unit} ELSE clean
  /\ ingest_rtp_packet(k)
  /\ UNCHANGED open

\* The connection ends: flush_remaining.
flush_remaining ==
  /\ open /\ open' = FALSE
  /\ published' = published \cup Flushed(batch) /\ batch' = <<>>
  /\ UNCHANGED <<times, expected, fu, batchUnit, last, whole, clean>>

IngestNext == flush_remaining \/ \E k \in Packets : Deliver(k)
----------------------------------------------------------------------------
NalWhole(nal) == nal = packetize_nal(Head(nal).unit, Head(nal).nal)
Media(a) == {i \in Nals(a) : AccessUnits[a][i].kind # "config"}
\* A unit that shows its end: the marker on a parameter set goes unheard.
ShowsEnd(a) ==
  /\ Len(AccessUnits[a]) \in Media(a)
  /\ \E i \in Nals(a) : AccessUnits[a][i].kind = "slice"

\* What is published is of one access unit, its NALs whole and in their order, whatever
\* UDP does to the packets; and a unit whose packets came one after the other is
\* published with all its NALs but parameter sets, whatever came before it
\* (h264_rtp_ingest.rs:67-112, 189-219, rtp_h264.rs:51-80).
UnitsIntact ==
  /\ \A u \in published :
       /\ \A i \in DOMAIN u : NalWhole(u[i]) /\ Head(u[i]).unit = Head(u[1]).unit
       /\ \A i, j \in DOMAIN u : i < j => Head(u[i]).nal < Head(u[j]).nal
  /\ \A a \in clean : ShowsEnd(a) =>
       \E u \in published : {u[i] : i \in DOMAIN u} = {packetize_nal(a, i) : i \in Media(a)}
=============================================================================
