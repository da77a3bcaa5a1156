----------------------------- MODULE RtmpChunks -----------------------------
(***************************************************************************)
(* One direction of an RTMP connection (src/server/rtmp/chunk.rs, the read *)
(* loop of src/server/rtmp/mod.rs): a peer cuts messages into chunks and   *)
(* interleaves its chunk streams, TCP cuts the bytes anywhere, the reader  *)
(* puts the messages together again.                                       *)
(*                                                                         *)
(* The wire carries units: a chunk header, or as much payload as the       *)
(* smallest chunk holds.  A header cut in two is not parsed                *)
(* (chunk.rs:107, 149) and so is one that has not arrived.                 *)
(***************************************************************************)
EXTENDS Integers, Sequences, FiniteSets

CONSTANTS
  MediaStreams,         \* chunk streams messages are interleaved on
  ControlStream,        \* CSID_PROTOCOL, for Set Chunk Size
  FirstSize, NextSize,  \* chunk size at first, and after the peer sets it
  Lengths, Steps,       \* payload lengths; timestamps and deltas
  MaxMessages, MaxWire  \* bounds of the model: messages, one Set Chunk Size among them;
                        \*   units on their way that stop the peer
ASSUME ChunksAssumption ==
  /\ IsFiniteSet(MediaStreams) /\ ControlStream \notin MediaStreams
  /\ {MaxMessages, MaxWire} \subseteq Nat
  /\ {FirstSize, NextSize} \cup Lengths \subseteq Nat \ {0} /\ Steps \subseteq Nat

ChunkStreams == MediaStreams \cup {ControlStream}
Unsaid == [ts |-> -1, len |-> 0]                    \* no header on this chunk stream yet

VARIABLES
  spoken, sending, finished, outSize,  \* the peer: last header, message under way,
                                       \* messages it ended, its chunk size
  wire,                                \* units on their way
  buf, headers, states, chunkSize,     \* the reader: buf, chunk_message_headers,
  pendingSize, parsing, got,           \*   chunk_states, ..., the messages returned
  outrun                               \* history: it cut a chunk at a size no more in force
peerVars == <<spoken, sending, finished, outSize>>
readerVars == <<buf, headers, states, chunkSize, pendingSize, parsing, got, outrun>>
chunkVars == <<peerVars, wire, readerVars>>

ChunksInit ==
  /\ spoken = [c \in ChunkStreams |-> Unsaid] /\ finished = <<>> /\ outSize = FirstSize
  /\ sending = [c \in ChunkStreams |-> <<>>]
  /\ wire = <<>> /\ buf = <<>> /\ got = <<>>
  /\ headers = [c \in ChunkStreams |-> Unsaid]
  /\ states = [c \in ChunkStreams |-> [len |-> 0, data |-> <<>>]]
  /\ chunkSize = FirstSize /\ pendingSize = 0 /\ parsing = FALSE /\ outrun = FALSE

\* The peer ---------------------------------------------------------------

Header(f, c, ts, len) == [unit |-> "header", fmt |-> f, cs |-> c, ts |-> ts, len |-> len]
Payload(n, len) == [i \in 1 .. len |-> [unit |-> "data", of |-> n, at |-> i]]
Begun == Len(finished) + Cardinality({c \in ChunkStreams : sending[c] # <<>>})

\* Nothing tells the peer what the reader has handled: it writes on, in its new chunk size.
MayWrite == Len(wire) < MaxWire

\* The next chunk of `data` on c, of a message whose header says `said`.
WriteChunk(c, said, head, data) ==
  LET room == IF Len(data) < outSize THEN Len(data) ELSE outSize
  IN  /\ wire' = wire \o <<head>> \o SubSeq(data, 1, room)
      /\ sending' = [sending EXCEPT ![c] = SubSeq(data, room + 1, Len(data))]
      /\ finished' = IF room < Len(data) THEN finished
                     ELSE Append(finished, [cs |-> c, ts |-> said.ts,
                                            data |-> Payload(data[1].of, said.len)])
      /\ spoken' = [spoken EXCEPT ![c] = said]

\* A first chunk has the full header (encode_message, chunk.rs:319-361), or leaves out
\* what is as in the message before (fmt 1 and 2, which other programs write).
Begin(c, f, step, len) ==
  /\ sending[c] = <<>> /\ Begun < MaxMessages /\ MayWrite
  /\ f # 0 => spoken[c] # Unsaid
  /\ f = 2 => len = spoken[c].len
  /\ WriteChunk(c, [ts |-> IF f = 0 THEN step ELSE spoken[c].ts + step, len |-> len],
           Header(f, c, step, len), Payload(Begun + 1, len))
  /\ outSize' = IF c = ControlStream THEN NextSize ELSE outSize
  /\ UNCHANGED readerVars

Continue(c) ==
  /\ sending[c] # <<>> /\ MayWrite
  /\ WriteChunk(c, spoken[c], Header(3, c, 0, 0), sending[c])
  /\ UNCHANGED <<outSize, readerVars>>

\* The reader -------------------------------------------------------------

\* One read of the socket: any number of the units on their way.  Bound of the model: a
\* reader that lost the chunk boundaries is not followed any further.
Read ==
  /\ ~parsing /\ ~outrun /\ parsing' = TRUE
  /\ \E k \in 1 .. Len(wire) :
       buf' = buf \o SubSeq(wire, 1, k) /\ wire' = SubSeq(wire, k + 1, Len(wire))
  /\ UNCHANGED <<peerVars, headers, states, chunkSize, pendingSize, got, outrun>>

\* parse_chunk_header.
ParsedHeader(h) ==
  LET prev == headers[h.cs]
  IN  CASE h.fmt = 0 -> [ts |-> h.ts, len |-> h.len]
        [] h.fmt = 1 -> [ts |-> h.ts + prev.ts, len |-> h.len]
        [] h.fmt = 2 -> [ts |-> h.ts + prev.ts, len |-> prev.len]
        [] h.fmt = 3 -> prev

Left(h) ==
  LET a == states[h.cs]
  IN  IF a.len > 0 THEN a.len - Len(a.data) ELSE ParsedHeader(h).len
Part(left, size) == IF left < size THEN left ELSE size
DataSize(h) == Part(Left(h), chunkSize)

Whole == buf # <<>> /\ Len(buf) >= 1 + DataSize(Head(buf))

\* A new size waits for the end of the read (rtmp/mod.rs:306-317), in which a chunk may
\* follow that the peer cut by it already.
Outruns(h) == pendingSize # 0 /\ Part(Left(h), pendingSize) # DataSize(h)

\* parse_chunks returns None; the header it parsed has been stored all the same.
ChunkShort ==
  /\ parsing /\ ~outrun /\ ~Whole /\ parsing' = FALSE
  /\ headers' = IF buf = <<>> THEN headers
                ELSE [headers EXCEPT ![Head(buf).cs] = ParsedHeader(Head(buf))]
  /\ chunkSize' = IF pendingSize = 0 THEN chunkSize ELSE pendingSize
  /\ pendingSize' = 0
  /\ UNCHANGED <<peerVars, wire, buf, states, got, outrun>>

cleared_KeepsBuffer(a) == [a EXCEPT !.len = 0]                  \* mutant
cleared(a) == [len |-> 0, data |-> <<>>]

\* A chunk is there as a whole; with its last one a message is returned, and handled.
parse_chunks ==
  /\ parsing /\ ~outrun /\ Whole /\ outrun' = Outruns(Head(buf))
  /\ LET h == Head(buf)
         p == ParsedHeader(h)
         size == DataSize(h)
         a == [len |-> p.len, data |-> states[h.cs].data \o SubSeq(buf, 2, 1 + size)]
         done == Len(a.data) >= a.len
     IN  /\ headers' = [headers EXCEPT ![h.cs] = p]
         /\ buf' = SubSeq(buf, 2 + size, Len(buf))
         /\ states' = [states EXCEPT ![h.cs] = IF done THEN cleared(a) ELSE a]
         /\ got' = IF done THEN Append(got, [cs |-> h.cs, ts |-> p.ts, data |-> a.data]) ELSE got
         /\ pendingSize' = IF done /\ h.cs = ControlStream THEN NextSize ELSE pendingSize
  /\ UNCHANGED <<peerVars, wire, chunkSize, parsing>>

ChunksNext ==
  \/ \E c \in MediaStreams, f \in 0 .. 2, step \in Steps, len \in Lengths : Begin(c, f, step, len)
  \/ outSize = FirstSize /\ Begin(ControlStream, 0, 0, 1)
  \/ \E c \in MediaStreams : Continue(c)
  \/ Read \/ ChunkShort \/ parse_chunks
----------------------------------------------------------------------------
AllRead == wire = <<>> /\ buf = <<>>

\* Wherever TCP cuts the bytes and however chunk streams interleave, the messages come
\* out with their own payload, in the order they were ended, and none stays behind, also
\* when the chunk size changes in the middle of one (chunk.rs:220-310); until a read
\* brings, behind Set Chunk Size, a chunk that the two sizes cut differently.
MessagesAsSent ==
  outrun \/ /\ Len(got) <= Len(finished)
            /\ \A i \in 1 .. Len(got) :
                 got[i].cs = finished[i].cs /\ got[i].data = finished[i].data
            /\ AllRead => Len(got) = Len(finished)

\* fmt 1 and 2 carry "timestamp_delta" (chunk.rs:12-15): the time of a message is the
\* delta after the one before it on its chunk stream.
TimestampsAsSent == outrun \/ \A i \in 1 .. Len(got) : got[i].ts = finished[i].ts
=============================================================================
