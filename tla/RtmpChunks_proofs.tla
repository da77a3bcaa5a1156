------------------------- MODULE RtmpChunks_proofs -------------------------
(***************************************************************************)
(* Why the reader of RTMP chunks gives back the messages as they were sent *)
(* (RtmpChunks), for any chunk streams, sizes and payload lengths.  The    *)
(* invariant says what the reader would do with the bytes on their way: it *)
(* would cut them at the chunks the peer wrote, and end where the peer     *)
(* stands.  It says so with a function of the chunks, so that no induction *)
(* is needed: writing a chunk extends it, parsing one drops its first      *)
(* value.  It stands until a chunk outruns its Set Chunk Size, and says    *)
(* nothing from then on.                                                   *)
(***************************************************************************)
EXTENDS RtmpChunks, TLAPS, SequenceTheorems, FiniteSetTheorems

\* What is on the way, whether or not the socket has been read.
Underway == buf \o wire

HeaderUnits == [unit : {"header"}, fmt : 0 .. 3, cs : ChunkStreams, ts : Nat, len : Nat]
ChunkUnits == HeaderUnits \cup [unit : {"data"}, of : Nat, at : Nat]
Messages == [cs : ChunkStreams, ts : Int, data : Seq(ChunkUnits)]
Saids == [ts : Int, len : Nat]

ChunkTypes ==
  /\ buf \in Seq(ChunkUnits) /\ wire \in Seq(ChunkUnits)
  /\ got \in Seq(Messages) /\ finished \in Seq(Messages)
  /\ spoken \in [ChunkStreams -> Saids] /\ headers \in [ChunkStreams -> Saids]
  /\ sending \in [ChunkStreams -> Seq(ChunkUnits)]
  /\ states \in [ChunkStreams -> [len : Nat, data : Seq(ChunkUnits)]]
  /\ parsing \in BOOLEAN

\* The reader between two chunks: where it stands, the size the next one is cut by, the
\* length of each chunk stream's message, the payload gathered, how many messages it
\* returned.
Snaps ==
  [at : Nat, size : Nat \ {0}, len : [ChunkStreams -> Nat],
   data : [ChunkStreams -> Seq(ChunkUnits)], got : Nat]

MessageLength(h, len) == IF h.fmt \in {0, 1} THEN h.len ELSE len[h.cs]
Gathered(s, r, h, n) == r.data[h.cs] \o SubSeq(s, r.at + 2, r.at + 1 + n)

\* The reader gets from r to q over the next chunk of s.  The message on the control
\* stream sets the size of what follows it.
Chunk(s, ended, r, q) ==
  LET h == s[r.at + 1]
      total == MessageLength(h, r.len)
      left == total - Len(r.data[h.cs])
      n == Part(left, r.size)
  IN  /\ h \in HeaderUnits /\ left > 0
      /\ r.data[h.cs] # <<>> => h.fmt = 3
      /\ q.at = r.at + 1 + n /\ q.at <= Len(s)
      /\ q.len = [r.len EXCEPT ![h.cs] = total]
      /\ q.got <= Len(ended)
      /\ q.size = IF h.cs = ControlStream /\ left <= r.size THEN NextSize ELSE r.size
      /\ IF left <= r.size
           THEN /\ q.data = [r.data EXCEPT ![h.cs] = <<>>] /\ q.got = r.got + 1
                /\ ended[q.got].cs = h.cs /\ ended[q.got].data = Gathered(s, r, h, n)
           ELSE q.data = [r.data EXCEPT ![h.cs] = Gathered(s, r, h, n)] /\ q.got = r.got

\* R takes the reader over the n chunks that s consists of.
Replays(s, ended, n, R) ==
  /\ R \in [0 .. n -> Snaps] /\ R[0].at = 0 /\ R[n].at = Len(s)
  /\ \A j, k \in 0 .. n : j <= k => R[j].at <= R[k].at
  /\ \A k \in 0 .. n - 1 : Chunk(s, ended, R[k], R[k + 1])

\* It starts where the reader is,
Starts(r) ==
  /\ r.got = Len(got) /\ r.got <= Len(finished)
  /\ r.size = IF pendingSize = 0 THEN chunkSize ELSE pendingSize
  /\ \A c \in ChunkStreams :
       /\ r.len[c] = headers[c].len /\ r.data[c] = states[c].data
       /\ states[c].len = IF r.data[c] = <<>> THEN 0 ELSE r.len[c]
\* and ends where the peer is.
Ends(q) ==
  /\ q.got = Len(finished) /\ q.size = outSize
  /\ \A c \in ChunkStreams :
       /\ q.len[c] = spoken[c].len
       /\ IF sending[c] = <<>> THEN q.data[c] = <<>>
          ELSE /\ q.data[c] # <<>>
               /\ \E number \in Nat : q.data[c] \o sending[c] = Payload(number, spoken[c].len)

CameOut ==
  \A i \in 1 .. Len(got) : got[i].cs = finished[i].cs /\ got[i].data = finished[i].data

Underlies(n, R) ==
  Replays(Underway, finished, n, R) /\ Starts(R[0]) /\ Ends(R[n])

ChunksHold == ChunkTypes /\ CameOut /\ \E n \in Nat : \E R \in [0 .. n -> Snaps] : Underlies(n, R)
ChunksInv == outrun \/ ChunksHold

----------------------------------------------------------------------------
\* Sequences.
LEMMA Rejoined ==
  ASSUME NEW T, NEW d \in Seq(T), NEW s \in Seq(T), NEW n \in 1 .. Len(s)
  PROVE  (d \o SubSeq(s, 1, n)) \o SubSeq(s, n + 1, Len(s)) = d \o s
<1> DEFINE p == SubSeq(s, 1, n)
           q == SubSeq(s, n + 1, Len(s))
<1>1. p \o q = s
  <2>1. 1 \in 1 .. Len(s) + 1 /\ n \in 1 - 1 .. Len(s) /\ Len(s) \in n .. Len(s)
    OBVIOUS
  <2>2. p \o q = SubSeq(s, 1, Len(s))
    BY <2>1, ConcatAdjacentSubSeq
  <2> QED
    BY <2>2, SubSeqFull
<1>2. p \in Seq(T) /\ q \in Seq(T)
  <2>1. (\A i \in 1 .. n : s[i] \in T) /\ (\A i \in n + 1 .. Len(s) : s[i] \in T)
    OBVIOUS
  <2>2. 1 \in Int /\ n \in Int /\ n + 1 \in Int /\ Len(s) \in Int
    OBVIOUS
  <2> QED
    BY <2>1, <2>2, SubSeqProperties
<1> HIDE DEF p, q
<1>3. (d \o p) \o q = d \o (p \o q)
  BY <1>2
<1> QED
  BY <1>1, <1>3 DEF p, q

LEMMA SameParts ==
  ASSUME NEW T, NEW s \in Seq(T), NEW z \in Seq(T), NEW d \in Nat, NEW m \in Nat, NEW n \in Nat,
         m > d, n <= Len(s), \A j \in m .. n : z[j - d] = s[j], n - d <= Len(z)
  PROVE  SubSeq(z, m - d, n - d) = SubSeq(s, m, n)
<1>1. Len(s) \in Nat /\ Len(z) \in Nat
  OBVIOUS
<1>2. \A i \in m .. n : s[i] \in T
  BY <1>1
<1>3. \A i \in m - d .. n - d : z[i] \in T
  <2> TAKE i \in m - d .. n - d
  <2>1. i \in 1 .. Len(z)
    BY <1>1
  <2> QED
    BY <2>1
<1>4. /\ SubSeq(s, m, n) \in Seq(T) /\ Len(SubSeq(s, m, n)) = IF m <= n THEN n - m + 1 ELSE 0
      /\ \A i \in 1 .. n - m + 1 : SubSeq(s, m, n)[i] = s[m + i - 1]
  BY <1>2, SubSeqProperties
<1> DEFINE a == m - d
           b == n - d
<1>5. a \in Int /\ b \in Int /\ b - a = n - m /\ (a <= b <=> m <= n)
  OBVIOUS
<1>6. /\ SubSeq(z, a, b) \in Seq(T) /\ Len(SubSeq(z, a, b)) = IF a <= b THEN b - a + 1 ELSE 0
      /\ \A i \in 1 .. b - a + 1 : SubSeq(z, a, b)[i] = z[a + i - 1]
  BY <1>3, <1>5, SubSeqProperties
<1>7. \A i \in 1 .. n - m + 1 : z[a + i - 1] = s[m + i - 1]
  <2> TAKE i \in 1 .. n - m + 1
  <2>1. m + i - 1 \in m .. n /\ (m + i - 1) - d = a + i - 1
    OBVIOUS
  <2> QED
    BY <2>1
<1> HIDE DEF a, b
<1>8. Len(SubSeq(z, a, b)) = Len(SubSeq(s, m, n))
  BY <1>4, <1>5, <1>6
<1>9. \A i \in 1 .. Len(SubSeq(z, a, b)) : SubSeq(z, a, b)[i] = SubSeq(s, m, n)[i]
  <2> TAKE i \in 1 .. Len(SubSeq(z, a, b))
  <2>1. i \in 1 .. n - m + 1 /\ i \in 1 .. b - a + 1
    BY <1>5, <1>6
  <2> QED
    BY <1>4, <1>6, <1>7, <2>1
<1>10. SubSeq(z, a, b) = SubSeq(s, m, n)
  BY <1>4, <1>6, <1>8, <1>9, SeqEqual
<1> QED
  BY <1>10 DEF a, b

LEMMA Payloads ==
  ASSUME NEW number \in Nat, NEW len \in Nat
  PROVE  /\ Payload(number, len) \in Seq(ChunkUnits) /\ Len(Payload(number, len)) = len
         /\ \A i \in 1 .. len : Payload(number, len)[i].of = number
<1> DEFINE u(i) == [unit |-> "data", of |-> number, at |-> i]
<1>1. \A i \in 1 .. len : u(i) \in ChunkUnits
  BY DEF ChunkUnits
<1>2. Payload(number, len) = [i \in 1 .. len |-> u(i)]
  BY DEF Payload
<1> HIDE DEF ChunkUnits
<1>3. Payload(number, len) \in Seq(ChunkUnits) /\ Len(Payload(number, len)) = len
  BY <1>1, <1>2
<1>4. \A i \in 1 .. len : Payload(number, len)[i].of = number
  BY <1>2
<1> QED
  BY <1>3, <1>4

\* z has what s has behind its first d, and may have more; so for messages.
Covers(z, s, d) == Len(s) - d <= Len(z) /\ \A j \in d + 1 .. Len(s) : z[j - d] = s[j]
Continues(f, e) == Len(e) <= Len(f) /\ \A j \in 1 .. Len(e) : f[j] = e[j]
\* a is the reader r, d units later.
Moved(r, a, d) ==
  r.at >= d /\ a.at = r.at - d /\ a.size = r.size /\ a.len = r.len /\ a.data = r.data /\ a.got = r.got

\* A chunk takes a header and at least one unit of payload.
LEMMA ChunkFits ==
  ASSUME NEW s, NEW e, NEW r \in Snaps, NEW q \in Snaps,
         Len(s) \in Nat, Chunk(s, e, r, q)
  PROVE  r.at + 1 <= Len(s) /\ q.at <= Len(s) /\ r.at + 2 <= q.at
<1> DEFINE h == s[r.at + 1]
           total == MessageLength(h, r.len)
           left == total - Len(r.data[h.cs])
           n == Part(left, r.size)
<1>1. h \in HeaderUnits /\ left > 0 /\ q.at = r.at + 1 + n /\ q.at <= Len(s)
  BY DEF Chunk
<1> HIDE DEF h, left, n
<1>2. h.cs \in ChunkStreams /\ total \in Nat
  BY <1>1 DEF HeaderUnits, MessageLength, Snaps
<1> HIDE DEF total
<1>3. Len(r.data[h.cs]) \in Nat
  <2>1. r.data[h.cs] \in Seq(ChunkUnits)
    BY <1>2 DEF Snaps
  <2> HIDE DEF ChunkUnits
  <2> QED
    BY <2>1
<1>4. n \in Nat \ {0}
  <2>1. r.size \in Nat \ {0}
    BY DEF Snaps
  <2> QED
    BY <1>1, <1>2, <1>3, <2>1 DEF Part, n, left
<1>5. r.at \in Nat
  BY DEF Snaps
<1> QED
  BY <1>1, <1>4, <1>5

\* What a chunk is remains true when more is written, and when d units were consumed.
LEMMA ChunkMoves ==
  ASSUME NEW s \in Seq(ChunkUnits), NEW z \in Seq(ChunkUnits), NEW d \in Nat,
         Covers(z, s, d), NEW e \in Seq(Messages), NEW f \in Seq(Messages), Continues(f, e),
         NEW r \in Snaps, NEW q \in Snaps, NEW a \in Snaps, NEW b \in Snaps,
         Moved(r, a, d), Moved(q, b, d), Chunk(s, e, r, q)
  PROVE  Chunk(z, f, a, b)
<1> DEFINE h == s[r.at + 1]
           total == MessageLength(h, r.len)
           left == total - Len(r.data[h.cs])
           n == Part(left, r.size)
<1>1. /\ h \in HeaderUnits /\ left > 0 /\ (r.data[h.cs] # <<>> => h.fmt = 3)
      /\ q.at = r.at + 1 + n /\ q.at <= Len(s)
      /\ q.len = [r.len EXCEPT ![h.cs] = total] /\ q.got <= Len(e)
      /\ q.size = (IF h.cs = ControlStream /\ left <= r.size THEN NextSize ELSE r.size)
      /\ IF left <= r.size
           THEN /\ q.data = [r.data EXCEPT ![h.cs] = <<>>] /\ q.got = r.got + 1
                /\ e[q.got].cs = h.cs /\ e[q.got].data = Gathered(s, r, h, n)
           ELSE q.data = [r.data EXCEPT ![h.cs] = Gathered(s, r, h, n)] /\ q.got = r.got
  BY DEF Chunk
<1> HIDE DEF h, left, n
<1>2. h.cs \in ChunkStreams /\ total \in Nat
  BY <1>1 DEF HeaderUnits, MessageLength, Snaps
<1> HIDE DEF total
<1>3. Len(r.data[h.cs]) \in Nat
  <2>1. r.data[h.cs] \in Seq(ChunkUnits)
    BY <1>2 DEF Snaps
  <2> HIDE DEF ChunkUnits
  <2> QED
    BY <2>1
<1>4. n \in Nat \ {0}
  <2>1. r.size \in Nat \ {0}
    BY DEF Snaps
  <2> QED
    BY <1>1, <1>2, <1>3, <2>1 DEF Part, n, left
<1>5. r.at \in Nat /\ q.at \in Nat /\ r.got \in Nat /\ q.got \in Nat
  BY DEF Snaps
<1>14. Len(s) \in Nat /\ Len(z) \in Nat
  OBVIOUS
<1>15. q.at = r.at + 1 + n /\ q.at <= Len(s)
  BY <1>1
<1>16. /\ r.at >= d /\ a.at = r.at - d /\ a.size = r.size /\ a.len = r.len /\ a.data = r.data /\ a.got = r.got
       /\ b.at = q.at - d /\ b.size = q.size /\ b.len = q.len /\ b.data = q.data /\ b.got = q.got
  BY DEF Moved
<1>17. Len(s) - d <= Len(z)
  BY DEF Covers
<1>18. r.at >= d /\ a.at = r.at - d /\ b.at = q.at - d
  BY <1>16
<1>19. d \in Nat /\ r.at \in Nat /\ q.at \in Nat /\ n \in Nat \ {0}
  BY <1>4, <1>5
<1>6. z[a.at + 1] = h
  <2> HIDE DEF ChunkUnits
  <2>2. r.at >= d /\ a.at = r.at - d
    BY <1>16
  <2>3. r.at + 1 <= Len(s)
    BY <1>4, <1>5, <1>14, <1>15
  <2>4. (r.at + 1) - d = a.at + 1
    BY <1>5, <2>2
  <2>5. r.at + 1 >= d + 1
    BY <1>5, <2>2
  <2>6. r.at + 1 \in d + 1 .. Len(s)
    BY <1>5, <1>14, <2>3, <2>5
  <2>1. r.at + 1 \in d + 1 .. Len(s) /\ (r.at + 1) - d = a.at + 1
    BY <2>4, <2>6
  <2> QED
    BY <2>1 DEF h, Covers
<1>7. b.at = a.at + 1 + n /\ b.at <= Len(z)
  BY SMTT(30), <1>14, <1>15, <1>17, <1>18, <1>19
<1>8. Gathered(z, a, h, n) = Gathered(s, r, h, n)
  <2>1. SubSeq(z, (r.at + 2) - d, (r.at + 1 + n) - d) = SubSeq(s, r.at + 2, r.at + 1 + n)
    <3> DEFINE m == r.at + 2
               o == r.at + 1 + n
    <3>6. r.at >= d
      BY <1>18
    <3>7. m \in Nat /\ o \in Nat
      BY SMTT(30), <1>19
    <3>8. m > d
      BY <1>19, <3>6
    <3>4. m \in Nat /\ o \in Nat /\ m > d
      BY <3>7, <3>8
    <3>5. o <= Len(s)
      BY <1>15
    <3>1. m \in Nat /\ o \in Nat /\ m > d /\ o <= Len(s) /\ o - d <= Len(z)
      <4> HIDE DEF o, m
      <4> QED
        BY <1>14, <1>17, <3>4, <3>5
    <3>2. \A j \in m .. o : z[j - d] = s[j]
      <4> TAKE j \in m .. o
      <4>1. j \in d + 1 .. Len(s)
        BY <3>1
      <4> QED
        BY <4>1 DEF Covers
    <3> HIDE DEF m, o, ChunkUnits
    <3>3. SubSeq(z, m - d, o - d) = SubSeq(s, m, o)
      BY <3>1, <3>2, SameParts
    <3> QED
      BY <3>3 DEF m, o
  <2>2. (r.at + 2) - d = a.at + 2 /\ (r.at + 1 + n) - d = a.at + 1 + n
    BY SMTT(30), <1>4, <1>5, <1>16
  <2> QED
    BY <1>16, <2>1, <2>2 DEF Gathered
<1>9. q.got <= Len(f) /\ (q.got >= 1 => f[q.got] = e[q.got])
  <2>1. Len(e) \in Nat /\ Len(f) \in Nat
    OBVIOUS
  <2> QED
    BY <1>1, <1>5, <2>1 DEF Continues
<1>10. MessageLength(h, a.len) = total
  BY <1>16 DEF total
<1>11. IF left <= a.size
         THEN /\ b.data = [a.data EXCEPT ![h.cs] = <<>>] /\ b.got = a.got + 1
              /\ f[b.got].cs = h.cs /\ f[b.got].data = Gathered(z, a, h, n)
         ELSE b.data = [a.data EXCEPT ![h.cs] = Gathered(z, a, h, n)] /\ b.got = a.got
  <2>1. CASE left <= r.size
    <3>1. q.got >= 1
      BY <1>1, <1>5, <2>1
    <3> QED
      BY <1>1, <1>8, <1>9, <1>16, <2>1, <3>1
  <2>2. CASE ~(left <= r.size)
    BY <1>1, <1>8, <1>16, <2>2
  <2> QED
    BY <2>1, <2>2
<1>12. /\ h \in HeaderUnits /\ left > 0 /\ (a.data[h.cs] # <<>> => h.fmt = 3)
       /\ b.at = a.at + 1 + n /\ b.at <= Len(z)
       /\ b.len = [a.len EXCEPT ![h.cs] = total] /\ b.got <= Len(f)
       /\ b.size = (IF h.cs = ControlStream /\ left <= a.size THEN NextSize ELSE a.size)
  BY <1>1, <1>7, <1>9, <1>16
<1>13. n = Part(left, a.size) /\ left = total - Len(a.data[h.cs])
  BY <1>16 DEF n, left
<1> QED
  BY <1>6, <1>10, <1>11, <1>12, <1>13 DEF Chunk

----------------------------------------------------------------------------
\* The peer writes a chunk.
Longer(s, z, head, data, room) ==
  /\ s \in Seq(ChunkUnits) /\ z \in Seq(ChunkUnits)
  /\ Len(z) = Len(s) + 1 + room /\ Covers(z, s, 0) /\ z[Len(s) + 1] = head
  /\ SubSeq(z, Len(s) + 2, Len(s) + 1 + room) = SubSeq(data, 1, room)

LEMMA WrittenUnits ==
  ASSUME NEW b \in Seq(ChunkUnits), NEW w \in Seq(ChunkUnits), NEW head \in ChunkUnits, NEW data \in Seq(ChunkUnits),
         NEW room \in Nat, room <= Len(data)
  PROVE  LET v == w \o <<head>> \o SubSeq(data, 1, room)
         IN  v \in Seq(ChunkUnits) /\ Longer(b \o w, b \o v, head, data, room)
<1> HIDE DEF ChunkUnits
<1> DEFINE s == b \o w
           p == SubSeq(data, 1, room)
           u == w \o <<head>>
           v == u \o p
           z == b \o v
<1>1. s \in Seq(ChunkUnits) /\ Len(s) = Len(b) + Len(w) /\ Len(b) \in Nat /\ Len(w) \in Nat
  BY ConcatProperties
<1>2. \A i \in 1 .. Len(b) + Len(w) : s[i] = IF i <= Len(b) THEN b[i] ELSE w[i - Len(b)]
  BY ConcatProperties
<1>3. p \in Seq(ChunkUnits) /\ Len(p) = room /\ \A i \in 1 .. room : p[i] = data[i]
  <2>1. \A i \in 1 .. room : data[i] \in ChunkUnits
    OBVIOUS
  <2>2. 1 \in Int /\ room \in Int
    OBVIOUS
  <2>3. /\ p \in Seq(ChunkUnits) /\ Len(p) = IF 1 <= room THEN room - 1 + 1 ELSE 0
        /\ \A i \in 1 .. room - 1 + 1 : p[i] = data[1 + i - 1]
    BY <2>1, <2>2, SubSeqProperties
  <2> HIDE DEF p
  <2>4. Len(p) = room
    BY <2>3
  <2>5. \A i \in 1 .. room : p[i] = data[i]
    <3> TAKE i \in 1 .. room
    <3>1. i \in 1 .. room - 1 + 1 /\ 1 + i - 1 = i
      OBVIOUS
    <3> QED
      BY <2>3, <3>1
  <2> QED
    BY <2>3, <2>4, <2>5
<1>4. <<head>> \in Seq(ChunkUnits) /\ Len(<<head>>) = 1 /\ <<head>>[1] = head
  OBVIOUS
<1>5. /\ u \in Seq(ChunkUnits) /\ Len(u) = Len(w) + 1 /\ u[Len(w) + 1] = head
      /\ \A i \in 1 .. Len(w) : u[i] = w[i]
  <2>1. /\ u \in Seq(ChunkUnits) /\ Len(u) = Len(w) + 1
        /\ \A i \in 1 .. Len(w) + 1 : u[i] = IF i <= Len(w) THEN w[i] ELSE <<head>>[i - Len(w)]
    BY <1>4, ConcatProperties
  <2>2. Len(w) + 1 \in 1 .. Len(w) + 1 /\ (Len(w) + 1) - Len(w) = 1 /\ ~(Len(w) + 1 <= Len(w))
    BY <1>1
  <2>3. u[Len(w) + 1] = head
    BY <1>4, <2>1, <2>2
  <2>4. \A i \in 1 .. Len(w) : u[i] = w[i]
    BY <1>1, <2>1
  <2> QED
    BY <2>1, <2>3, <2>4
<1> HIDE DEF p, u
<1>6. /\ v \in Seq(ChunkUnits) /\ Len(v) = Len(w) + 1 + room
      /\ \A i \in 1 .. Len(u) + Len(p) : v[i] = IF i <= Len(u) THEN u[i] ELSE p[i - Len(u)]
  <2>1. u \in Seq(ChunkUnits) /\ p \in Seq(ChunkUnits)
    BY <1>3, <1>5
  <2>2. /\ v \in Seq(ChunkUnits) /\ Len(v) = Len(u) + Len(p)
        /\ \A i \in 1 .. Len(u) + Len(p) : v[i] = IF i <= Len(u) THEN u[i] ELSE p[i - Len(u)]
    BY <2>1, ConcatProperties
  <2> HIDE DEF v
  <2>3. Len(v) = Len(w) + 1 + room
    BY <1>3, <1>5, <2>2
  <2> QED
    BY <2>2, <2>3
<1> HIDE DEF v
<1>7. /\ z \in Seq(ChunkUnits) /\ Len(z) = Len(b) + Len(v)
      /\ \A i \in 1 .. Len(b) + Len(v) : z[i] = IF i <= Len(b) THEN b[i] ELSE v[i - Len(b)]
  <2>1. v \in Seq(ChunkUnits)
    BY <1>6
  <2> QED
    BY <2>1, ConcatProperties
<1> HIDE DEF z, s
<1>8. Len(z) = Len(s) + 1 + room
  BY <1>1, <1>6, <1>7
<1>9. Len(s) \in Nat /\ Len(z) \in Nat /\ Len(v) \in Nat /\ Len(u) \in Nat
  BY <1>1, <1>5, <1>6, <1>7
<1>10. \A j \in 1 .. Len(s) : z[j] = s[j]
  <2> TAKE j \in 1 .. Len(s)
  <2>1. j \in 1 .. Len(b) + Len(v) /\ j \in 1 .. Len(b) + Len(w)
    BY <1>1, <1>6
  <2>2. CASE j <= Len(b)
    BY <1>2, <1>7, <2>1, <2>2
  <2>3. CASE ~(j <= Len(b))
    <3>1. j - Len(b) \in 1 .. Len(w) /\ j - Len(b) <= Len(u) /\ j - Len(b) \in 1 .. Len(u) + Len(p)
      BY <1>1, <1>3, <1>5, <2>1, <2>3
    <3>2. z[j] = v[j - Len(b)] /\ s[j] = w[j - Len(b)]
      BY <1>2, <1>7, <2>1, <2>3
    <3>3. v[j - Len(b)] = u[j - Len(b)]
      BY <1>6, <3>1
    <3> QED
      BY <1>5, <3>1, <3>2, <3>3
  <2> QED
    BY <2>2, <2>3
<1>11. Covers(z, s, 0)
  <2>1. \A j \in 0 + 1 .. Len(s) : z[j - 0] = s[j]
    <3> TAKE j \in 0 + 1 .. Len(s)
    <3>1. j \in 1 .. Len(s) /\ j - 0 = j
      BY <1>9
    <3> QED
      BY <1>10, <3>1
  <2>2. Len(s) - 0 <= Len(z)
    BY <1>8, <1>9
  <2> QED
    BY <2>1, <2>2 DEF Covers
<1>12. z[Len(s) + 1] = head
  <2>1. Len(s) + 1 \in 1 .. Len(b) + Len(v) /\ ~(Len(s) + 1 <= Len(b)) /\ (Len(s) + 1) - Len(b) = Len(w) + 1
    BY <1>1, <1>6
  <2>2. z[Len(s) + 1] = v[Len(w) + 1]
    BY <1>7, <2>1
  <2>3. Len(w) + 1 \in 1 .. Len(u) + Len(p) /\ Len(w) + 1 <= Len(u)
    BY <1>1, <1>3, <1>5
  <2> QED
    BY <1>5, <1>6, <2>2, <2>3
<1>13. ASSUME NEW i \in 1 .. room PROVE z[Len(s) + 1 + i] = data[i]
  <2>1. /\ Len(s) + 1 + i \in 1 .. Len(b) + Len(v) /\ ~(Len(s) + 1 + i <= Len(b))
        /\ (Len(s) + 1 + i) - Len(b) = Len(w) + 1 + i
    BY <1>1, <1>6
  <2>2. z[Len(s) + 1 + i] = v[Len(w) + 1 + i]
    BY <1>7, <2>1
  <2>3. /\ Len(w) + 1 + i \in 1 .. Len(u) + Len(p) /\ ~(Len(w) + 1 + i <= Len(u))
        /\ (Len(w) + 1 + i) - Len(u) = i
    BY <1>1, <1>3, <1>5
  <2>4. v[Len(w) + 1 + i] = p[i]
    BY <1>6, <2>3
  <2> QED
    BY <1>3, <2>2, <2>4
<1>14. SubSeq(z, Len(s) + 2, Len(s) + 1 + room) = SubSeq(data, 1, room)
  <2> DEFINE d == Len(s) + 1
             m == d + 1
             n == d + room
  <2>1. d \in Nat /\ m \in Nat /\ n \in Nat /\ m > d /\ n <= Len(z) /\ n - d <= Len(data) /\ m - d = 1 /\ n - d = room
    BY <1>8, <1>9
  <2>2. \A j \in m .. n : data[j - d] = z[j]
    <3> TAKE j \in m .. n
    <3>1. j - d \in 1 .. room /\ Len(s) + 1 + (j - d) = j
      BY <1>9
    <3> QED
      BY <1>13, <3>1
  <2>3. m = Len(s) + 2 /\ n = Len(s) + 1 + room
    BY <1>9
  <2> HIDE DEF d, m, n
  <2>4. SubSeq(data, m - d, n - d) = SubSeq(z, m, n)
    BY <1>7, <2>1, <2>2, SameParts
  <2> QED
    BY <2>1, <2>3, <2>4
<1> QED
  BY <1>1, <1>6, <1>7, <1>8, <1>11, <1>12, <1>14 DEF s, p, u, v, z, Longer

\* A payload, of which d went before and data is left, cut in two.
CutAt(d, data, number, total, room) ==
  LET m == d \o SubSeq(data, 1, room)
      rest == SubSeq(data, room + 1, Len(data))
  IN  /\ total = Len(d) + Len(data) /\ Len(d) \in Nat /\ Len(data) \in Nat
      /\ data[1].of = number
      /\ m \in Seq(ChunkUnits) /\ rest \in Seq(ChunkUnits) /\ m # <<>>
      /\ room = Len(data) => m = Payload(number, total) /\ rest = <<>>
      /\ room # Len(data) => rest # <<>> /\ m \o rest = Payload(number, total)

LEMMA Cuts ==
  ASSUME NEW d \in Seq(ChunkUnits), NEW data \in Seq(ChunkUnits), data # <<>>, NEW number \in Nat,
         NEW total \in Nat, d \o data = Payload(number, total), NEW room \in 1 .. Len(data)
  PROVE  CutAt(d, data, number, total, room)
<1> HIDE DEF ChunkUnits
<1> DEFINE p == SubSeq(data, 1, room)
           m == d \o p
           rest == SubSeq(data, room + 1, Len(data))
<1>1. Len(d) \in Nat /\ Len(data) \in Nat /\ Len(data) > 0
  OBVIOUS
<1>2. /\ Len(d \o data) = Len(d) + Len(data)
      /\ \A i \in 1 .. Len(d) + Len(data) : (d \o data)[i] = IF i <= Len(d) THEN d[i] ELSE data[i - Len(d)]
  BY ConcatProperties
<1>3. Len(Payload(number, total)) = total /\ \A i \in 1 .. total : Payload(number, total)[i].of = number
  BY Payloads
<1>4. total = Len(d) + Len(data)
  BY <1>2, <1>3
<1>5. data[1].of = number
  <2>1. Len(d) + 1 \in 1 .. total /\ ~(Len(d) + 1 <= Len(d)) /\ (Len(d) + 1) - Len(d) = 1
    BY <1>1, <1>4
  <2>2. (d \o data)[Len(d) + 1] = data[1]
    BY <1>2, <1>4, <2>1
  <2> QED
    BY <1>3, <2>1, <2>2
<1>6. p \in Seq(ChunkUnits) /\ Len(p) = room
  <2>1. \A i \in 1 .. room : data[i] \in ChunkUnits
    BY <1>1
  <2>2. 1 \in Int /\ room \in Int
    OBVIOUS
  <2>3. p \in Seq(ChunkUnits) /\ Len(p) = IF 1 <= room THEN room - 1 + 1 ELSE 0
    BY <2>1, <2>2, SubSeqProperties
  <2> HIDE DEF p
  <2> QED
    BY <2>3
<1>7. rest \in Seq(ChunkUnits) /\ Len(rest) = Len(data) - room
  <2>1. \A i \in room + 1 .. Len(data) : data[i] \in ChunkUnits
    BY <1>1
  <2> DEFINE a == room + 1
  <2>2. a \in Int /\ Len(data) \in Int
    BY <1>1
  <2>3. rest \in Seq(ChunkUnits) /\ Len(rest) = IF a <= Len(data) THEN Len(data) - a + 1 ELSE 0
    BY <2>1, <2>2, SubSeqProperties
  <2> HIDE DEF rest
  <2> QED
    BY <1>1, <2>3
<1> HIDE DEF p, rest
<1>8. m \in Seq(ChunkUnits) /\ Len(m) = Len(d) + room
  BY <1>6, ConcatProperties
<1>9. m # <<>>
  BY <1>1, <1>8
<1>10. ASSUME room = Len(data) PROVE m = Payload(number, total) /\ rest = <<>>
  <2>1. p = data
    BY <1>10, SubSeqFull DEF p
  <2>2. Len(rest) = 0
    BY <1>1, <1>7, <1>10
  <2> QED
    BY <1>7, <2>1, <2>2
<1>11. ASSUME room # Len(data) PROVE rest # <<>> /\ m \o rest = Payload(number, total)
  <2>1. Len(rest) > 0
    <3>1. room < Len(data)
      BY <1>1, <1>11
    <3>2. Len(rest) = Len(data) - room /\ room \in Nat
      BY <1>7
    <3> QED
      BY <1>1, <3>1, <3>2
  <2>2. m \o rest = d \o data
    BY Rejoined DEF m, p, rest
  <2> QED
    BY <1>7, <2>1, <2>2
<1> QED
  BY <1>1, <1>4, <1>5, <1>7, <1>8, <1>9, <1>10, <1>11 DEF p, m, rest, CutAt

\* The reader r, behind that chunk: room units of the payload data on c.
Behind(r, c, total, data, room) ==
  [at |-> r.at + 1 + room, size |-> IF c = ControlStream THEN NextSize ELSE r.size,
   len |-> [r.len EXCEPT ![c] = total],
   data |-> [r.data EXCEPT ![c] = IF room < Len(data) THEN r.data[c] \o SubSeq(data, 1, room)
                                  ELSE <<>>],
   got |-> IF room < Len(data) THEN r.got ELSE r.got + 1]

\* One more chunk after those there are.
Added(R, n, q) == [k \in 0 .. n + 1 |-> IF k <= n THEN R[k] ELSE q]

LEMMA Extended ==
  ASSUME NEW s \in Seq(ChunkUnits), NEW z \in Seq(ChunkUnits), Covers(z, s, 0),
         NEW e \in Seq(Messages), NEW f \in Seq(Messages), Continues(f, e),
         NEW n \in Nat, NEW R, Replays(s, e, n, R),
         NEW q \in Snaps, q.at = Len(z), Len(s) <= Len(z), Chunk(z, f, R[n], q)
  PROVE  Replays(z, f, n + 1, Added(R, n, q))
<1> DEFINE Q == [k \in 0 .. n + 1 |-> IF k <= n THEN R[k] ELSE q]
<1> HIDE DEF ChunkUnits, Messages, Snaps
<1>1. /\ R \in [0 .. n -> Snaps] /\ R[0].at = 0 /\ R[n].at = Len(s)
      /\ \A j, k \in 0 .. n : j <= k => R[j].at <= R[k].at
      /\ \A k \in 0 .. n - 1 : Chunk(s, e, R[k], R[k + 1])
  BY DEF Replays
<1>2. \A k \in 0 .. n : k \in 0 .. n + 1 /\ Q[k] = R[k]
  OBVIOUS
<1>3. n + 1 \in 0 .. n + 1 /\ Q[n + 1] = q
  OBVIOUS
<1>4. Q \in [0 .. n + 1 -> Snaps]
  BY <1>1
<1>5. 0 \in 0 .. n /\ n \in 0 .. n
  OBVIOUS
<1>6. \A k \in 0 .. n : R[k].at \in Nat /\ R[k].at <= Len(s)
  BY SMTT(30), <1>1, <1>5 DEF Snaps
<1> HIDE DEF Q
<1>7. ASSUME NEW j \in 0 .. n + 1, NEW k \in 0 .. n + 1, j <= k PROVE Q[j].at <= Q[k].at
  <2>1. CASE k \in 0 .. n
    <3>1. j \in 0 .. n
      BY <1>7, <2>1
    <3> QED
      BY <1>1, <1>2, <1>7, <2>1, <3>1
  <2>2. CASE k = n + 1 /\ j \in 0 .. n
    <3>1. Len(s) \in Nat /\ Len(z) \in Nat
      OBVIOUS
    <3>2. Q[j] = R[j] /\ Q[k] = q /\ R[j].at \in Nat /\ R[j].at <= Len(s)
      BY <1>2, <1>3, <1>6, <2>2
    <3> QED
      BY <3>1, <3>2
  <2>3. CASE k = n + 1 /\ j = n + 1
    <3>1. q.at \in Nat
      OBVIOUS
    <3> QED
      BY <1>3, <2>3, <3>1
  <2> QED
    BY <1>7, <2>1, <2>2, <2>3
<1>8. ASSUME NEW k \in 0 .. (n + 1) - 1 PROVE Chunk(z, f, Q[k], Q[k + 1])
  <2>1. CASE k \in 0 .. n - 1
    <3>1. k \in 0 .. n /\ k + 1 \in 0 .. n
      BY <2>1
    <3>2. R[k] \in Snaps /\ R[k + 1] \in Snaps /\ Chunk(s, e, R[k], R[k + 1])
      BY <1>1, <2>1, <3>1
    <3>3. Moved(R[k], R[k], 0) /\ Moved(R[k + 1], R[k + 1], 0)
      <4>1. R[k].at \in Nat /\ R[k + 1].at \in Nat
        BY <1>6, <3>1
      <4> QED
        BY <4>1 DEF Moved
    <3>4. 0 \in Nat
      OBVIOUS
    <3> DEFINE a == R[k]
               b == R[k + 1]
    <3> HIDE DEF a, b
    <3>6. a \in Snaps /\ b \in Snaps /\ Chunk(s, e, a, b) /\ Moved(a, a, 0) /\ Moved(b, b, 0)
      BY <3>2, <3>3 DEF a, b
    <3>7. Chunk(z, f, a, b)
      BY <3>4, <3>6, ChunkMoves
    <3>5. Chunk(z, f, R[k], R[k + 1])
      BY <3>7 DEF a, b
    <3> QED
      BY <1>2, <3>1, <3>5
  <2>2. CASE k = n
    BY <1>2, <1>3, <1>5, <2>2
  <2> QED
    BY <1>8, <2>1, <2>2
<1>9. Q[0].at = 0 /\ Q[n + 1].at = Len(z)
  BY <1>1, <1>2, <1>3, <1>5
<1>10. n + 1 \in Nat
  OBVIOUS
<1>11. Replays(z, f, n + 1, Q)
  BY <1>4, <1>7, <1>8, <1>9 DEF Replays
<1> QED
  BY <1>11 DEF Q, Added

\* The reader gets over the chunk the peer wrote last.
Receives(z, e, f, r, q) ==
  /\ q \in Snaps /\ q.at = Len(z) /\ q.got = Len(f) /\ Chunk(z, f, r, q)
  /\ Continues(f, e)

LEMMA WrittenChunk ==
  ASSUME NEW z \in Seq(ChunkUnits), NEW e \in Seq(Messages), NEW f \in Seq(Messages),
         NEW r \in Snaps, r.got = Len(e), NEW head \in HeaderUnits, NEW data \in Seq(ChunkUnits), data # <<>>,
         NEW number \in Nat, NEW total \in Nat, MessageLength(head, r.len) = total,
         r.data[head.cs] \o data = Payload(number, total), r.data[head.cs] # <<>> => head.fmt = 3,
         NEW room, room = Part(Len(data), r.size), Len(z) = r.at + 1 + room, z[r.at + 1] = head,
         SubSeq(z, r.at + 2, r.at + 1 + room) = SubSeq(data, 1, room),
         head.cs = ControlStream => room = Len(data), NEW ts, IF room < Len(data) THEN f = e
                 ELSE f = Append(e, [cs |-> head.cs, ts |-> ts, data |-> Payload(data[1].of, total)])
  PROVE  Receives(z, e, f, r, Behind(r, head.cs, total, data, room))
<1> DEFINE c == head.cs
           q == Behind(r, c, total, data, room)
           m == r.data[c] \o SubSeq(data, 1, room)
<1>1. c \in ChunkStreams
  BY DEF HeaderUnits
<1>2. /\ r.at \in Nat /\ r.got \in Nat /\ r.len \in [ChunkStreams -> Nat]
      /\ r.data \in [ChunkStreams -> Seq(ChunkUnits)]
  BY DEF Snaps
<1>3. r.data[c] \in Seq(ChunkUnits)
  BY <1>1, <1>2
<1>4. Len(data) \in Nat \ {0}
  <2> HIDE DEF ChunkUnits
  <2> QED
    OBVIOUS
<1>5. room \in 1 .. Len(data) /\ (room < Len(data) <=> ~(Len(data) <= r.size))
  <2>1. r.size \in Nat \ {0}
    BY DEF Snaps
  <2> QED
    BY SMTT(30), <1>4, <2>1 DEF Part
<1>6. /\ total = Len(r.data[c]) + Len(data) /\ Len(r.data[c]) \in Nat /\ data[1].of = number
      /\ m \in Seq(ChunkUnits) /\ (room = Len(data) => m = Payload(number, total))
  <2> DEFINE d == r.data[c]
  <2> HIDE DEF d, ChunkUnits
  <2>1. d \in Seq(ChunkUnits) /\ d \o data = Payload(number, total)
    BY <1>3 DEF d
  <2>2. /\ total = Len(d) + Len(data) /\ Len(d) \in Nat /\ data[1].of = number
        /\ d \o SubSeq(data, 1, room) \in Seq(ChunkUnits)
        /\ room = Len(data) => d \o SubSeq(data, 1, room) = Payload(number, total)
    <3>1. CutAt(d, data, number, total, room)
      BY <1>5, <2>1, Cuts
    <3> QED
      BY <3>1 DEF CutAt
  <2> QED
    BY <2>2 DEF d
<1> HIDE DEF m, ChunkUnits, Messages
<1>7. <<>> \in Seq(ChunkUnits)
  OBVIOUS
<1>8. /\ q.at = r.at + 1 + room /\ q.len = [r.len EXCEPT ![c] = total]
      /\ q.size = (IF c = ControlStream THEN NextSize ELSE r.size)
      /\ (room < Len(data) => q.data = [r.data EXCEPT ![c] = m] /\ q.got = r.got)
      /\ (~(room < Len(data)) => q.data = [r.data EXCEPT ![c] = <<>>] /\ q.got = r.got + 1)
  BY DEF Behind, m
<1>9. q = [at |-> q.at, size |-> q.size, len |-> q.len, data |-> q.data, got |-> q.got]
  BY DEF Behind
<1> HIDE DEF q, c
<1>10. q \in Snaps
  <2>1. q.at \in Nat /\ q.got \in Nat
    <3>1. r.at \in Nat /\ r.got \in Nat /\ room \in Nat
      BY <1>2, <1>4, <1>5
    <3>2. q.at = r.at + 1 + room /\ (q.got = r.got \/ q.got = r.got + 1)
      BY <1>8
    <3>3. r.at + 1 + room \in Nat /\ r.got + 1 \in Nat
      BY <3>1
    <3>4. q.at \in Nat
      BY <3>2, <3>3
    <3>5. q.got \in Nat
      BY <3>1, <3>2, <3>3
    <3> QED
      BY <3>4, <3>5
  <2>2. q.len \in [ChunkStreams -> Nat]
    BY <1>1, <1>2, <1>8
  <2>3. q.data \in [ChunkStreams -> Seq(ChunkUnits)]
    BY <1>1, <1>2, <1>6, <1>7, <1>8
  <2> QED
    <3>1. q.size \in Nat \ {0}
      BY <1>8, ChunksAssumption DEF Snaps, ChunksAssumption
    <3> QED
      BY <1>9, <2>1, <2>2, <2>3, <3>1 DEF Snaps
<1>11. /\ Len(e) \in Nat /\ Continues(f, e) /\ q.got = Len(f)
       /\ (room = Len(data) => /\ f[q.got].cs = c /\ f[q.got].data = m)
  <2> DEFINE x == [cs |-> c, ts |-> ts, data |-> Payload(data[1].of, total)]
  <2>1. Len(e) \in Nat
    OBVIOUS
  <2>2. CASE room < Len(data)
    <3>1. f = e /\ room # Len(data)
      BY <1>4, <1>5, <2>2
    <3>2. Continues(f, e)
      BY <2>1, <3>1 DEF Continues
    <3> QED
      BY <1>8, <2>1, <2>2, <3>1, <3>2
  <2>3. CASE ~(room < Len(data))
    <3>1. f = Append(e, x) /\ room = Len(data)
      BY <1>4, <1>5, <2>3 DEF c
    <3>2. x.cs = c /\ x.data = m
      BY <1>6, <3>1
    <3> HIDE DEF x
    <3>3. Len(f) = Len(e) + 1 /\ f[Len(e) + 1] = x /\ \A i \in 1 .. Len(e) : f[i] = e[i]
      BY <3>1
    <3>4. Continues(f, e)
      BY <2>1, <3>3 DEF Continues
    <3>5. q.got = Len(e) + 1
      BY <1>8, <2>3
    <3> QED
      BY <2>1, <3>2, <3>3, <3>4, <3>5
  <2> QED
    BY <2>2, <2>3
<1>12. Chunk(z, f, r, q)
  <2> DEFINE left == total - Len(r.data[c])
  <2>1. left = Len(data) /\ room = Part(left, r.size)
    BY <1>4, <1>6
  <2>2. Gathered(z, r, head, room) = m
    BY DEF Gathered, m, c
  <2>3. q.at <= Len(z) /\ q.got <= Len(f)
    BY <1>2, <1>5, <1>8, <1>11
  <2>6. left > 0
    BY <1>4, <2>1
  <2>7. q.size = IF c = ControlStream /\ left <= r.size THEN NextSize ELSE r.size
    <3>1. c = ControlStream => ~(room < Len(data))
      <4>1. c = ControlStream => room = Len(data)
        BY DEF c
      <4> QED
        BY <1>4, <4>1
    <3>2. c = ControlStream => left <= r.size
      BY <1>5, <2>1, <3>1
    <3> QED
      BY <1>8, <3>2
  <2> HIDE DEF left
  <2>4. CASE left <= r.size
    <3>1. room = Len(data) /\ ~(room < Len(data))
      BY <1>4, <1>5, <2>1, <2>4
    <3>2. /\ q.data = [r.data EXCEPT ![c] = <<>>] /\ q.got = r.got + 1
          /\ f[q.got].cs = c /\ f[q.got].data = Gathered(z, r, head, room)
      BY <1>8, <1>11, <2>2, <3>1
    <3> QED
      BY <1>8, <2>1, <2>3, <2>4, <2>6, <2>7, <3>2 DEF Chunk, c, left
  <2>5. CASE ~(left <= r.size)
    <3>1. room < Len(data)
      BY <1>4, <1>5, <2>1, <2>5
    <3>2. q.data = [r.data EXCEPT ![c] = Gathered(z, r, head, room)] /\ q.got = r.got
      BY <1>8, <2>2, <3>1
    <3> QED
      BY <1>8, <2>1, <2>3, <2>5, <2>6, <2>7, <3>2 DEF Chunk, c, left
  <2> QED
    BY <2>4, <2>5
<1> QED
  <2>1. Receives(z, e, f, r, q)
    <3>1. q.at = Len(z)
      BY <1>8
    <3> QED
      BY <1>10, <1>11, <1>12, <3>1 DEF Receives
  <2> QED
    BY <2>1 DEF q, c

\* A chunk that opens a message has its length and its payload; any other goes on.
Opening(c, said, head, data) ==
  /\ head.cs = c
  /\ said.len = IF head.fmt \in {0, 1} THEN head.len ELSE spoken[c].len
  /\ (sending[c] = <<>> => \E number \in Nat : data = Payload(number, said.len))
  /\ (sending[c] # <<>> => head.fmt = 3 /\ data = sending[c] /\ said.len = spoken[c].len)
Sizing(c) ==
  /\ (c # ControlStream => outSize' = outSize)
  /\ (c = ControlStream => outSize' = NextSize)

LEMMA WriteKeeps ==
  ASSUME ChunksHold, NEW c \in ChunkStreams, NEW said \in Saids, NEW head \in HeaderUnits,
         NEW data \in Seq(ChunkUnits), data # <<>>, c = ControlStream => Len(data) = 1,
         WriteChunk(c, said, head, data), Opening(c, said, head, data), Sizing(c),
         UNCHANGED readerVars
  PROVE  ChunksHold'
<1> HIDE DEF ChunkUnits, Messages, Snaps, HeaderUnits
<1>1. ChunkTypes /\ CameOut
  BY DEF ChunksHold
<1>28. PICK n \in Nat : \E R \in [0 .. n -> Snaps] : Underlies(n, R)
  BY DEF ChunksHold
<1>2. PICK R \in [0 .. n -> Snaps] : Underlies(n, R)
  BY <1>28
<1>3. /\ Replays(Underway, finished, n, R) /\ Starts(R[0]) /\ Ends(R[n])
  BY <1>2 DEF Underlies
<1>5. PICK s : s = Underway
  OBVIOUS
<1>6. PICK room : room = Part(Len(data), outSize)
  OBVIOUS
<1>7. PICK r : r = R[n]
  OBVIOUS
<1>8. PICK z : z = Underway'
  OBVIOUS
<1>9. PICK f : f = finished'
  OBVIOUS
<1>10. PICK total : total = said.len
  OBVIOUS
<1>11. /\ buf \in Seq(ChunkUnits) /\ wire \in Seq(ChunkUnits) /\ finished \in Seq(Messages)
       /\ got \in Seq(Messages) /\ spoken \in [ChunkStreams -> Saids]
       /\ sending \in [ChunkStreams -> Seq(ChunkUnits)]
  BY <1>1 DEF ChunkTypes
<1>12. /\ wire' = wire \o <<head>> \o SubSeq(data, 1, room)
       /\ sending' = [sending EXCEPT ![c] = SubSeq(data, room + 1, Len(data))]
       /\ f = IF room < Len(data) THEN finished
              ELSE Append(finished, [cs |-> c, ts |-> said.ts, data |-> Payload(data[1].of, total)])
       /\ spoken' = [spoken EXCEPT ![c] = said]
  BY <1>6, <1>9, <1>10 DEF WriteChunk, Part
<1>13. /\ buf' = buf /\ got' = got /\ headers' = headers /\ states' = states
       /\ chunkSize' = chunkSize /\ pendingSize' = pendingSize /\ parsing' = parsing
  BY DEF readerVars
<1>14. /\ n \in 0 .. n /\ 0 \in 0 .. n
  OBVIOUS
<1>15. r \in Snaps /\ r.at = Len(s) /\ r.got = Len(finished) /\ Ends(r) /\ r.size = outSize
  BY <1>3, <1>5, <1>7, <1>14 DEF Replays, Ends
<1>4. outSize \in Nat \ {0}
  BY <1>15 DEF Snaps
<1>16. r.data[c] \in Seq(ChunkUnits) /\ r.len[c] = spoken[c].len
  BY <1>15 DEF Snaps, Ends
<1>17. total \in Nat
  BY <1>10 DEF Saids
<1>18. \E number \in Nat : r.data[c] \o data = Payload(number, total)
  <2>1. CASE sending[c] = <<>>
    <3>1. r.data[c] = <<>>
      BY <1>15, <2>1 DEF Ends
    <3>2. <<>> \o data = data
      OBVIOUS
    <3> QED
      BY <1>10, <2>1, <3>1, <3>2 DEF Opening
  <2>2. CASE sending[c] # <<>>
    BY <1>10, <1>15, <2>2 DEF Ends, Opening
  <2> QED
    BY <2>1, <2>2
<1>19. PICK number \in Nat : r.data[c] \o data = Payload(number, total)
  BY <1>18
<1>20. MessageLength(head, r.len) = total /\ head.cs = c
  BY <1>10, <1>16 DEF MessageLength, Opening
<1>21. r.data[head.cs] # <<>> => head.fmt = 3
  BY <1>15, <1>20 DEF Ends, Opening
<1>22. Len(data) \in Nat \ {0}
  OBVIOUS
<1>23. room \in 1 .. Len(data)
  BY <1>4, <1>6, <1>22 DEF Part
<1>24. /\ s \in Seq(ChunkUnits) /\ wire' \in Seq(ChunkUnits) /\ z \in Seq(ChunkUnits)
       /\ Len(z) = Len(s) + 1 + room /\ Covers(z, s, 0) /\ z[Len(s) + 1] = head
       /\ SubSeq(z, Len(s) + 2, Len(s) + 1 + room) = SubSeq(data, 1, room)
  <2>1. head \in ChunkUnits
    BY DEF ChunkUnits
  <2>2. room \in Nat /\ room <= Len(data)
    BY <1>22, <1>23
  <2>3. z = buf \o wire' /\ s = buf \o wire
    BY <1>5, <1>8, <1>13 DEF Underway
  <2> QED
    <3>1. PICK w : w = wire
      OBVIOUS
    <3>2. PICK b : b = buf
      OBVIOUS
    <3>3. PICK v : v = w \o <<head>> \o SubSeq(data, 1, room)
      OBVIOUS
    <3>4. b \in Seq(ChunkUnits) /\ w \in Seq(ChunkUnits)
      BY <1>11, <3>1, <3>2
    <3>5. v \in Seq(ChunkUnits) /\ Longer(b \o w, b \o v, head, data, room)
      BY <2>1, <2>2, <3>3, <3>4, WrittenUnits
    <3>6. b \o w = s /\ b \o v = z /\ v = wire'
      BY <1>12, <2>3, <3>1, <3>2, <3>3
    <3> QED
      BY <3>5, <3>6 DEF Longer
<1>25. CutAt(r.data[c], data, number, total, room)
  <2>1. PICK d : d = r.data[c]
    OBVIOUS
  <2>2. d \in Seq(ChunkUnits) /\ d \o data = Payload(number, total)
    BY <1>16, <1>19, <2>1
  <2>3. CutAt(d, data, number, total, room)
    BY <1>17, <1>23, <2>2, Cuts
  <2> QED
    BY <2>1, <2>3
<1>26. f \in Seq(Messages)
  <2>1. data[1].of = number
    BY <1>25 DEF CutAt
  <2>2. Payload(number, total) \in Seq(ChunkUnits)
    BY <1>17, Payloads
  <2>3. [cs |-> c, ts |-> said.ts, data |-> Payload(data[1].of, total)] \in Messages
    BY <2>1, <2>2 DEF Messages, Saids
  <2> QED
    BY <1>11, <1>12, <2>3
<1> DEFINE q == Behind(r, c, total, data, room)
           Q == Added(R, n, q)
<1>27. q \in Snaps /\ q.at = Len(z) /\ q.got = Len(f) /\ Chunk(z, f, r, q) /\ Continues(f, finished)
  <2>2. PICK e : e = finished
    OBVIOUS
  <2>3. /\ e \in Seq(Messages) /\ r.got = Len(e)
        /\ room = Part(Len(data), r.size)
        /\ IF room < Len(data) THEN f = e
           ELSE f = Append(e, [cs |-> head.cs, ts |-> said.ts, data |-> Payload(data[1].of, total)])
    BY <1>6, <1>11, <1>12, <1>15, <1>20, <2>2
  <2>4. /\ Len(z) = r.at + 1 + room /\ z[r.at + 1] = head
        /\ SubSeq(z, r.at + 2, r.at + 1 + room) = SubSeq(data, 1, room)
    BY <1>15, <1>24
  <2>5. r.data[head.cs] \o data = Payload(number, total)
    BY <1>19, <1>20
  <2>7. head.cs = ControlStream => room = Len(data)
    BY SMTT(30), <1>20, <1>22, <1>23
  <2>6. Receives(z, e, f, r, Behind(r, head.cs, total, data, room))
    BY <1>15, <1>17, <1>19, <1>20, <1>21, <1>24, <1>26, <2>3, <2>4, <2>5, <2>7, WrittenChunk
  <2> QED
    BY <1>20, <2>2, <2>6 DEF Receives
<1>29. Len(s) <= Len(z) /\ Len(s) \in Nat
  BY <1>23, <1>24
<1>30. Replays(z, f, n + 1, Q)
  <2>2. PICK e : e = finished
    OBVIOUS
  <2>3. PICK p : p = q
    OBVIOUS
  <2> DEFINE P == Added(R, n, p)
  <2>4. /\ e \in Seq(Messages) /\ Replays(s, e, n, R)
        /\ p \in Snaps /\ p.at = Len(z) /\ Chunk(z, f, R[n], p) /\ Continues(f, e)
    BY <1>3, <1>5, <1>7, <1>11, <1>27, <2>2, <2>3
  <2> HIDE DEF q
  <2>5. Replays(z, f, n + 1, P)
    BY <1>24, <1>26, <1>29, <2>4, Extended
  <2> QED
    BY <2>2, <2>3, <2>5
<1>31. Q \in [0 .. n + 1 -> Snaps] /\ Q[0] = R[0] /\ Q[n + 1] = q
  <2>1. 0 \in 0 .. n + 1 /\ 0 <= n /\ n + 1 \in 0 .. n + 1 /\ ~(n + 1 <= n)
    OBVIOUS
  <2> HIDE DEF q
  <2>2. Q[0] = R[0] /\ Q[n + 1] = q
    BY <2>1 DEF Added
  <2> QED
    BY <1>30, <2>2 DEF Replays
<1> HIDE DEF Q
<1>32. (Replays(Underway, finished, n + 1, Q))'
  BY <1>8, <1>9, <1>13, <1>30 DEF Replays
<1>33. Starts(Q[0])'
  <2>1. R[0].got <= Len(f)
    <3>1. Len(finished) \in Nat /\ Len(f) \in Nat /\ R[0].got \in Nat
      BY SMTT(30), <1>11, <1>14, <1>26 DEF Snaps
    <3> QED
      BY <1>3, <1>27, <3>1 DEF Starts, Continues
  <2> QED
    BY <1>3, <1>9, <1>13, <1>31, <2>1 DEF Starts
<1>34. Ends(q)'
  <2> DEFINE m == r.data[c] \o SubSeq(data, 1, room)
             rest == SubSeq(data, room + 1, Len(data))
  <2>1. /\ m \in Seq(ChunkUnits) /\ rest \in Seq(ChunkUnits) /\ m # <<>>
        /\ room = Len(data) => rest = <<>>
        /\ room # Len(data) => rest # <<>> /\ m \o rest = Payload(number, total)
    BY <1>25 DEF CutAt
  <2>2. /\ r.len \in [ChunkStreams -> Nat] /\ r.data \in [ChunkStreams -> Seq(ChunkUnits)]
    BY <1>15 DEF Snaps
  <2>3. sending' = [sending EXCEPT ![c] = rest]
    BY <1>12
  <2>4. /\ q.len = [r.len EXCEPT ![c] = total]
        /\ (room < Len(data) => q.data = [r.data EXCEPT ![c] = m])
        /\ (~(room < Len(data)) => q.data = [r.data EXCEPT ![c] = <<>>])
    BY DEF Behind
  <2>5. room < Len(data) <=> room # Len(data)
    BY <1>22, <1>23
  <2> HIDE DEF m, rest, q
  <2>6. ASSUME NEW d \in ChunkStreams
        PROVE  /\ q.len[d] = spoken'[d].len
               /\ IF sending'[d] = <<>> THEN q.data[d] = <<>>
                  ELSE /\ q.data[d] # <<>>
                       /\ \E num \in Nat : q.data[d] \o sending'[d] = Payload(num, spoken'[d].len)
    <3>1. CASE d = c
      <4>1. q.len[d] = total /\ sending'[d] = rest /\ spoken'[d].len = total
        BY <1>10, <1>11, <1>12, <2>2, <2>3, <2>4, <3>1
      <4>2. CASE room < Len(data)
        <5>1. q.data[d] = m /\ rest # <<>> /\ m \o rest = Payload(number, total)
          BY <2>1, <2>2, <2>4, <2>5, <3>1, <4>2
        <5> QED
          BY <2>1, <4>1, <5>1
      <4>3. CASE ~(room < Len(data))
        <5>1. q.data[d] = <<>> /\ rest = <<>>
          BY <2>1, <2>2, <2>4, <2>5, <3>1, <4>3
        <5> QED
          BY <4>1, <5>1
      <4> QED
        BY <4>2, <4>3
    <3>2. CASE d # c
      <4>1. q.len[d] = r.len[d] /\ sending'[d] = sending[d] /\ spoken'[d] = spoken[d] /\ q.data[d] = r.data[d]
        BY <1>11, <1>12, <2>2, <2>3, <2>4, <3>2
      <4> QED
        BY <1>15, <4>1 DEF Ends
    <3> QED
      BY <3>1, <3>2
  <2>7. q.got = Len(finished')
    BY <1>9, <1>27 DEF q
  <2>8. q.size = outSize'
    BY <1>15 DEF q, Behind, Sizing
  <2> QED
    BY <2>6, <2>7, <2>8 DEF Ends
<1>36. Underlies(n + 1, Q)'
  BY <1>31, <1>32, <1>33, <1>34 DEF Underlies
<1>37. ChunkTypes'
  <2>1. SubSeq(data, room + 1, Len(data)) \in Seq(ChunkUnits)
    BY <1>25 DEF CutAt
  <2>2. sending' \in [ChunkStreams -> Seq(ChunkUnits)]
    BY <1>11, <1>12, <2>1
  <2>3. spoken' \in [ChunkStreams -> Saids]
    BY <1>11, <1>12
  <2> QED
    BY <1>1, <1>9, <1>13, <1>24, <1>26, <2>2, <2>3 DEF ChunkTypes
<1>38. CameOut'
  <2>1. Len(got) <= Len(finished) /\ Len(got) \in Nat /\ Len(finished) \in Nat
    BY <1>3, <1>11 DEF Starts
  <2>2. \A i \in 1 .. Len(got) : f[i] = finished[i]
    BY <1>27, <2>1 DEF Continues
  <2> QED
    BY <1>1, <1>9, <1>13, <2>2 DEF CameOut
<1>39. n + 1 \in Nat
  OBVIOUS
<1> QED
  BY <1>31, <1>36, <1>37, <1>38, <1>39 DEF ChunksHold

LEMMA BeginKeeps ==
  ASSUME ChunksHold, NEW c \in ChunkStreams, NEW f \in 0 .. 2, NEW step \in Nat,
         NEW len \in Nat \ {0}, Begin(c, f, step, len), c = ControlStream => len = 1
  PROVE  ChunksHold'
<1> DEFINE said == [ts |-> IF f = 0 THEN step ELSE spoken[c].ts + step, len |-> len]
           head == Header(f, c, step, len)
           data == Payload(Begun + 1, len)
<1>1. Begun \in Nat
  <2>1. IsFiniteSet(MediaStreams)
    BY ChunksAssumption DEF ChunksAssumption
  <2>2. IsFiniteSet(ChunkStreams)
    BY <2>1, FS_AddElement DEF ChunkStreams
  <2>3. {d \in ChunkStreams : sending[d] # <<>>} \subseteq ChunkStreams
    OBVIOUS
  <2>4. Cardinality({d \in ChunkStreams : sending[d] # <<>>}) \in Nat
    BY <2>2, <2>3, FS_Subset, FS_CardinalityType
  <2>5. finished \in Seq(Messages)
    BY DEF ChunksHold, ChunkTypes
  <2>6. Len(finished) \in Nat
    <3> HIDE DEF Messages
    <3> QED
      BY <2>5
  <2> QED
    BY <2>4, <2>6 DEF Begun
<1>2. data \in Seq(ChunkUnits) /\ Len(data) = len
  <2>1. PICK b : b = Begun + 1
    OBVIOUS
  <2>2. b \in Nat /\ len \in Nat
    BY <1>1, <2>1
  <2>3. Payload(b, len) \in Seq(ChunkUnits) /\ Len(Payload(b, len)) = len
    BY <2>2, Payloads
  <2> QED
    BY <2>1, <2>3
<1>3. data # <<>>
  BY <1>2
<1>4. head \in HeaderUnits
  BY DEF HeaderUnits, Header
<1>5. said \in Saids
  <2>1. spoken[c].ts \in Int
    BY DEF ChunksHold, ChunkTypes, Saids
  <2>2. spoken[c].ts + step \in Int
    BY <2>1
  <2> QED
    BY <2>2 DEF Saids
<1>6. WriteChunk(c, said, head, data) /\ UNCHANGED readerVars
  BY DEF Begin
<1>7. Opening(c, said, head, data)
  <2>1. sending[c] = <<>>
    BY DEF Begin
  <2>2. head.cs = c /\ head.fmt = f /\ head.len = len /\ said.len = len
    BY DEF Header
  <2>3. f = 2 => len = spoken[c].len
    BY DEF Begin
  <2>4. \E number \in Nat : data = Payload(number, len)
    BY <1>1
  <2>5. said.len = IF head.fmt \in {0, 1} THEN head.len ELSE spoken[c].len
    BY <2>2, <2>3
  <2> HIDE DEF said, head, data
  <2> QED
    BY <2>1, <2>2, <2>4, <2>5 DEF Opening
<1>8. Sizing(c)
  BY DEF Sizing, Begin
<1> HIDE DEF said, head, data
<1> QED
  BY <1>2, <1>3, <1>4, <1>5, <1>6, <1>7, <1>8, WriteKeeps

LEMMA ContinueKeeps ==
  ASSUME ChunksHold, NEW c \in MediaStreams, Continue(c)
  PROVE  ChunksHold'
<1> DEFINE said == spoken[c]
           head == Header(3, c, 0, 0)
           data == sending[c]
<1>1. c \in ChunkStreams /\ c # ControlStream
  BY ChunksAssumption DEF ChunksAssumption, ChunkStreams
<1>2. data \in Seq(ChunkUnits) /\ said \in Saids
  BY <1>1 DEF ChunksHold, ChunkTypes
<1>3. data # <<>>
  BY DEF Continue
<1>4. head \in HeaderUnits
  BY <1>1 DEF HeaderUnits, Header
<1>6. WriteChunk(c, said, head, data) /\ UNCHANGED readerVars
  BY DEF Continue
<1>7. Opening(c, said, head, data)
  BY <1>3 DEF Opening, Header
<1>8. Sizing(c)
  BY <1>1 DEF Sizing, Continue
<1> HIDE DEF said, head, data
<1> QED
  BY <1>1, <1>2, <1>3, <1>4, <1>6, <1>7, <1>8, WriteKeeps

----------------------------------------------------------------------------
\* The reader reads and parses.

\* What it finds at the head of its buffer is the first chunk.
AtHead(n, R) ==
  LET h == Head(buf)
      total == MessageLength(h, R[0].len)
      left == total - Len(R[0].data[h.cs])
  IN  /\ n > 0 /\ h \in HeaderUnits /\ Underway[1] = h
      /\ ParsedHeader(h) \in Saids /\ ParsedHeader(h).len = total
      /\ Left(h) = left
      /\ (R[0].data[h.cs] # <<>> => total = R[0].len[h.cs])

LEMMA FirstChunk ==
  ASSUME ChunkTypes, NEW n \in Nat, NEW R \in [0 .. n -> Snaps], Underlies(n, R), buf # <<>>
  PROVE  AtHead(n, R)
<1> DEFINE h == Head(buf)
           r == R[0]
           c == h.cs
           total == MessageLength(h, r.len)
           left == total - Len(r.data[c])
<1> HIDE DEF ChunkUnits, Messages, Snaps, HeaderUnits
<1>1. /\ buf \in Seq(ChunkUnits) /\ wire \in Seq(ChunkUnits) /\ headers \in [ChunkStreams -> Saids]
      /\ states \in [ChunkStreams -> [len : Nat, data : Seq(ChunkUnits)]]
  BY DEF ChunkTypes
<1>2. Replays(Underway, finished, n, R) /\ Starts(r)
  BY DEF Underlies
<1>3. Len(Underway) \in Nat \ {0} /\ Underway[1] = h
  BY <1>1 DEF Underway
<1>4. n > 0
  <2>1. R[n].at = Len(Underway) /\ R[0].at = 0
    BY <1>2 DEF Replays
  <2> QED
    BY <1>3, <2>1
<1>5. 0 \in 0 .. n /\ 1 \in 0 .. n /\ 0 \in 0 .. n - 1 /\ 0 + 1 = 1
  BY <1>4
<1>6. r.at = 0 /\ Chunk(Underway, finished, r, R[1]) /\ r \in Snaps
  BY <1>2, <1>5 DEF Replays
<1>7. h \in HeaderUnits /\ left > 0 /\ (r.data[c] # <<>> => h.fmt = 3)
  <2>1. Underway[r.at + 1] = h
    BY <1>3, <1>6
  <2> QED
    BY <1>6, <2>1 DEF Chunk
<1> HIDE DEF h, r
<1>8. /\ c \in ChunkStreams /\ h.fmt \in 0 .. 3 /\ h.ts \in Nat /\ h.len \in Nat
  BY <1>7 DEF HeaderUnits
<1>9. /\ r.len[c] = headers[c].len /\ r.data[c] = states[c].data
      /\ states[c].len = IF r.data[c] = <<>> THEN 0 ELSE r.len[c]
  BY <1>2, <1>8 DEF Starts
<1>10. /\ headers[c] \in Saids /\ headers[c].ts \in Int /\ headers[c].len \in Nat
       /\ r.data[c] \in Seq(ChunkUnits)
  BY <1>1, <1>6, <1>8 DEF Saids, Snaps
<1>11. ParsedHeader(h) \in Saids
  <2>1. h.fmt = 0 \/ h.fmt = 1 \/ h.fmt = 2 \/ h.fmt = 3
    BY <1>8
  <2>2. h.ts + headers[c].ts \in Int /\ h.ts \in Int
    BY <1>8, <1>10
  <2> HIDE DEF c
  <2>3. /\ [ts |-> h.ts, len |-> h.len] \in Saids
        /\ [ts |-> h.ts + headers[c].ts, len |-> h.len] \in Saids
        /\ [ts |-> h.ts + headers[c].ts, len |-> headers[c].len] \in Saids
    BY <1>8, <1>10, <2>2 DEF Saids
  <2> USE DEF c
  <2>4. CASE h.fmt = 0
    BY <2>3, <2>4 DEF ParsedHeader
  <2>5. CASE h.fmt = 1
    BY <2>3, <2>5 DEF ParsedHeader
  <2>6. CASE h.fmt = 2
    BY <2>3, <2>6 DEF ParsedHeader
  <2>7. CASE h.fmt = 3
    BY <1>10, <2>7 DEF ParsedHeader
  <2> QED
    BY <2>1, <2>4, <2>5, <2>6, <2>7
<1>12. ParsedHeader(h).len = total
  <2>1. h.fmt = 0 \/ h.fmt = 1 \/ h.fmt = 2 \/ h.fmt = 3
    BY <1>8
  <2>4. CASE h.fmt = 0
    BY <2>4 DEF ParsedHeader, MessageLength
  <2>5. CASE h.fmt = 1
    BY <2>5 DEF ParsedHeader, MessageLength
  <2>6. CASE h.fmt = 2
    BY <1>9, <2>6 DEF ParsedHeader, MessageLength
  <2>7. CASE h.fmt = 3
    BY <1>9, <2>7 DEF ParsedHeader, MessageLength
  <2> QED
    BY <2>1, <2>4, <2>5, <2>6, <2>7
<1>13. Left(h) = left
  <2>1. ParsedHeader(h).len = total /\ total \in Nat
    BY <1>11, <1>12 DEF Saids
  <2>2. Len(r.data[c]) \in Nat /\ (r.data[c] = <<>> => Len(r.data[c]) = 0)
    BY <1>10
  <2>3. (IF states[c].len > 0 THEN states[c].len - Len(states[c].data) ELSE ParsedHeader(h).len) = left
    <3>1. CASE r.data[c] = <<>>
      <4>1. states[c].len = 0
        BY <1>9, <3>1
      <4>2. left = total
        BY <2>1, <2>2, <3>1
      <4> QED
        BY <2>1, <4>1, <4>2
    <3>2. CASE r.data[c] # <<>>
      <4>1. states[c].len = total
        BY <1>7, <1>9, <3>2 DEF MessageLength
      <4>2. total > 0
        BY <1>7, <2>1, <2>2
      <4> QED
        BY <1>9, <4>1, <4>2
    <3> QED
      BY <3>1, <3>2
  <2> QED
    BY <2>3 DEF Left
<1>14. r.data[c] # <<>> => total = r.len[c]
  BY <1>7 DEF MessageLength
<1> QED
  BY <1>3, <1>4, <1>7, <1>11, <1>12, <1>13, <1>14 DEF AtHead, h, r

\* The length in a header may be stored before its chunk is there.
Relabelled(R, n, c, total) ==
  [k \in 0 .. n |-> IF k = 0 THEN [at |-> R[0].at, size |-> R[0].size,
                                   len |-> [R[0].len EXCEPT ![c] = total],
                                   data |-> R[0].data, got |-> R[0].got]
                    ELSE R[k]]

LEMMA RelabelledReplays ==
  ASSUME NEW s, NEW e, NEW n \in Nat, n > 0, NEW R, Replays(s, e, n, R),
         NEW h \in HeaderUnits, s[1] = h, NEW total \in Nat, total = MessageLength(h, R[0].len)
  PROVE  Replays(s, e, n, Relabelled(R, n, h.cs, total))
<1> DEFINE r == R[0]
           q == [at |-> r.at, size |-> r.size, len |-> [r.len EXCEPT ![h.cs] = total], data |-> r.data, got |-> r.got]
           Q == Relabelled(R, n, h.cs, total)
<1>1. /\ R \in [0 .. n -> Snaps] /\ r.at = 0 /\ R[n].at = Len(s)
      /\ \A j, k \in 0 .. n : j <= k => R[j].at <= R[k].at
      /\ \A k \in 0 .. n - 1 : Chunk(s, e, R[k], R[k + 1])
  BY DEF Replays
<1>2. /\ q.at = r.at /\ q.size = r.size /\ q.len = [r.len EXCEPT ![h.cs] = total] /\ q.data = r.data /\ q.got = r.got
  OBVIOUS
<1>3. h.cs \in ChunkStreams
  BY DEF HeaderUnits
<1>4. r \in Snaps
  BY <1>1
<1>5. q \in Snaps
  BY <1>4 DEF Snaps
<1> HIDE DEF q, r, Snaps
<1>6. Q = [k \in 0 .. n |-> IF k = 0 THEN q ELSE R[k]]
  BY DEF Relabelled, q, r
<1> HIDE DEF Q
<1>7. Q[0] = q /\ \A k \in 1 .. n : Q[k] = R[k]
  BY <1>6
<1>8. Q \in [0 .. n -> Snaps]
  BY <1>1, <1>5, <1>6
<1>9. \A k \in 0 .. n : Q[k].at = R[k].at
  BY <1>2, <1>7 DEF r
<1>10. ASSUME NEW k \in 0 .. n - 1 PROVE Chunk(s, e, Q[k], Q[k + 1])
  <2>1. CASE k = 0
    <3>1. Q[k] = q /\ Q[k + 1] = R[1] /\ Chunk(s, e, r, R[1])
      BY <1>1, <1>7, <1>10, <2>1 DEF r
    <3>2. r.at + 1 = 1
      BY <1>1
    <3>3. MessageLength(h, q.len) = total
      <4>1. q.len[h.cs] = total
        BY <1>2, <1>3, <1>4 DEF Snaps
      <4> QED
        BY <4>1 DEF MessageLength, r
    <3>4. [q.len EXCEPT ![h.cs] = total] = [r.len EXCEPT ![h.cs] = total]
      BY <1>2, <1>3, <1>4 DEF Snaps
    <3>5. MessageLength(h, r.len) = total
      BY DEF r
    <3>6. \A m : Gathered(s, q, h, m) = Gathered(s, r, h, m)
      BY <1>2 DEF Gathered
    <3> DEFINE b == R[1]
               left == total - Len(r.data[h.cs])
               m == Part(left, r.size)
    <3>8. s[r.at + 1] = h /\ s[q.at + 1] = h
      BY <1>2, <3>2
    <3> HIDE DEF b
    <3>9. /\ left > 0 /\ (r.data[h.cs] # <<>> => h.fmt = 3)
          /\ b.at = r.at + 1 + m /\ b.at <= Len(s)
          /\ b.len = [r.len EXCEPT ![h.cs] = total] /\ b.got <= Len(e)
          /\ b.size = (IF h.cs = ControlStream /\ left <= r.size THEN NextSize ELSE r.size)
          /\ IF left <= r.size
               THEN /\ b.data = [r.data EXCEPT ![h.cs] = <<>>] /\ b.got = r.got + 1
                    /\ e[b.got].cs = h.cs /\ e[b.got].data = Gathered(s, r, h, m)
               ELSE b.data = [r.data EXCEPT ![h.cs] = Gathered(s, r, h, m)] /\ b.got = r.got
      BY <3>1, <3>5, <3>8 DEF Chunk, b
    <3>10. left = total - Len(q.data[h.cs])
      BY <1>2
    <3> HIDE DEF left
    <3>11. /\ (q.data[h.cs] # <<>> => h.fmt = 3)
           /\ b.at = q.at + 1 + m
           /\ b.len = [q.len EXCEPT ![h.cs] = total]
           /\ b.size = (IF h.cs = ControlStream /\ left <= q.size THEN NextSize ELSE q.size)
           /\ m = Part(left, q.size)
           /\ IF left <= q.size
                THEN /\ b.data = [q.data EXCEPT ![h.cs] = <<>>] /\ b.got = q.got + 1
                     /\ e[b.got].cs = h.cs /\ e[b.got].data = Gathered(s, q, h, m)
                ELSE b.data = [q.data EXCEPT ![h.cs] = Gathered(s, q, h, m)] /\ b.got = q.got
      BY <1>2, <3>4, <3>6, <3>9
    <3>12. left > 0 /\ b.at <= Len(s) /\ b.got <= Len(e)
      BY <3>9
    <3>13. Chunk(s, e, q, b)
      BY <3>3, <3>8, <3>10, <3>11, <3>12 DEF Chunk
    <3>7. Chunk(s, e, q, R[1])
      BY <3>13 DEF b
    <3> QED
      BY <3>1, <3>7
  <2>2. CASE k # 0
    <3>1. k \in 1 .. n /\ k + 1 \in 1 .. n
      BY <1>10, <2>2
    <3> QED
      BY <1>1, <1>7, <1>10, <3>1
  <2> QED
    BY <2>1, <2>2
<1>11. Q[0].at = 0 /\ Q[n].at = Len(s)
  <2>1. 0 \in 0 .. n /\ n \in 0 .. n
    OBVIOUS
  <2> QED
    BY <1>1, <1>9, <2>1 DEF r
<1>12. \A j, k \in 0 .. n : j <= k => Q[j].at <= Q[k].at
  BY <1>1, <1>9
<1>13. Replays(s, e, n, Q)
  BY <1>8, <1>10, <1>11, <1>12 DEF Replays
<1> QED
  BY <1>13 DEF Q

LEMMA ShortKeeps ==
  ASSUME ChunksHold, ChunkShort
  PROVE  ChunksHold'
<1> HIDE DEF ChunkUnits, Messages, Snaps, HeaderUnits
<1>1. ChunkTypes /\ CameOut
  BY DEF ChunksHold
<1>2. PICK n \in Nat : \E R \in [0 .. n -> Snaps] : Underlies(n, R)
  BY DEF ChunksHold
<1>3. PICK R \in [0 .. n -> Snaps] : Underlies(n, R)
  BY <1>2
<1>4. /\ Replays(Underway, finished, n, R) /\ Starts(R[0]) /\ Ends(R[n])
  BY <1>3 DEF Underlies
<1>5. PICK s : s = Underway
  OBVIOUS
<1>6. /\ buf' = buf /\ wire' = wire /\ states' = states /\ got' = got /\ pendingSize' = 0
      /\ spoken' = spoken /\ sending' = sending /\ finished' = finished /\ outSize' = outSize
      /\ chunkSize' = (IF pendingSize = 0 THEN chunkSize ELSE pendingSize) /\ parsing' = FALSE
      /\ headers' = IF buf = <<>> THEN headers
                    ELSE [headers EXCEPT ![Head(buf).cs] = ParsedHeader(Head(buf))]
  BY DEF ChunkShort, peerVars
<1>7. Underway' = s
  BY <1>5, <1>6 DEF Underway
<1>8. headers \in [ChunkStreams -> Saids]
  BY <1>1 DEF ChunkTypes
<1>9. CameOut'
  BY <1>1, <1>6 DEF CameOut
<1>10. 0 \in 0 .. n /\ n \in 0 .. n /\ R[0] \in Snaps
  OBVIOUS
<1>11. ASSUME NEW Q \in [0 .. n -> Snaps], \A k \in 0 .. n : Q[k].at = R[k].at,
              Q[n].got = R[n].got /\ Q[n].size = R[n].size /\ Q[n].data = R[n].data /\ (Q[n].len = R[n].len),
              Replays(s, finished, n, Q), Starts(Q[0])', headers' \in [ChunkStreams -> Saids]
       PROVE  ChunksHold'
  <2>2. Replays(Underway, finished, n, Q)'
    BY <1>6, <1>7, <1>11 DEF Replays
  <2>3. Ends(Q[n])'
    BY <1>4, <1>6, <1>11 DEF Ends
  <2>5. Underlies(n, Q)'
    BY <1>11, <2>2, <2>3 DEF Underlies
  <2>6. ChunkTypes'
    BY <1>1, <1>6, <1>11 DEF ChunkTypes
  <2> QED
    BY <1>9, <1>11, <2>5, <2>6 DEF ChunksHold
<1>12. CASE buf = <<>>
  <2>1. headers' = headers
    BY <1>6, <1>12
  <2>2. Starts(R[0])'
    BY <1>4, <1>6, <2>1 DEF Starts
  <2> QED
    BY <1>4, <1>5, <1>8, <1>11, <2>1, <2>2
<1>13. CASE buf # <<>>
  <2>1. AtHead(n, R)
    BY <1>1, <1>3, <1>13, FirstChunk
  <2>2. PICK h : h = Head(buf)
    OBVIOUS
  <2>3. PICK total : total = MessageLength(h, R[0].len)
    OBVIOUS
  <2>4. /\ n > 0 /\ h \in HeaderUnits /\ s[1] = h /\ ParsedHeader(h) \in Saids
        /\ ParsedHeader(h).len = total /\ (R[0].data[h.cs] # <<>> => total = R[0].len[h.cs])
    BY <1>5, <2>1, <2>2, <2>3 DEF AtHead
  <2>5. total \in Nat /\ h.cs \in ChunkStreams
    BY <2>4 DEF Saids, HeaderUnits
  <2> DEFINE Q == Relabelled(R, n, h.cs, total)
  <2>6. Replays(s, finished, n, Q)
    <3>2. PICK e : e = finished
      OBVIOUS
    <3>3. Replays(s, e, n, R)
      BY <1>4, <1>5, <3>2
    <3>4. Replays(s, e, n, Relabelled(R, n, h.cs, total))
      BY <2>3, <2>4, <2>5, <3>3, RelabelledReplays
    <3> QED
      BY <3>2, <3>4
  <2>7. /\ Q[0].at = R[0].at /\ Q[0].size = R[0].size /\ Q[0].len = [R[0].len EXCEPT ![h.cs] = total]
        /\ Q[0].data = R[0].data /\ Q[0].got = R[0].got
    BY <1>10 DEF Relabelled
  <2>8. \A k \in 1 .. n : Q[k] = R[k]
    BY DEF Relabelled
  <2> HIDE DEF Q
  <2>9. Q \in [0 .. n -> Snaps]
    BY <2>6 DEF Replays
  <2>10. \A k \in 0 .. n : Q[k].at = R[k].at
    BY <2>7, <2>8
  <2>11. Q[n] = R[n]
    BY <2>4, <2>8
  <2>12. headers' = [headers EXCEPT ![h.cs] = ParsedHeader(h)]
    BY <1>6, <1>13, <2>2
  <2>13. R[0].len \in [ChunkStreams -> Nat]
    BY <1>10 DEF Snaps
  <2>14. Starts(Q[0])'
    <3>1. Q[0].got = Len(got) /\ Q[0].got <= Len(finished)
      BY <1>4, <2>7 DEF Starts
    <3>2. ASSUME NEW d \in ChunkStreams
          PROVE  /\ Q[0].len[d] = headers'[d].len /\ Q[0].data[d] = states[d].data
                 /\ states[d].len = IF Q[0].data[d] = <<>> THEN 0 ELSE Q[0].len[d]
      <4>1. /\ R[0].len[d] = headers[d].len /\ R[0].data[d] = states[d].data
            /\ states[d].len = IF R[0].data[d] = <<>> THEN 0 ELSE R[0].len[d]
        BY <1>4 DEF Starts
      <4>2. CASE d = h.cs
        <5>1. Q[0].len[d] = total /\ headers'[d].len = total
          BY <1>8, <2>4, <2>5, <2>7, <2>12, <2>13, <4>2
        <5>2. R[0].data[d] # <<>> => total = R[0].len[d]
          BY <2>4, <4>2
        <5> QED
          BY <2>7, <4>1, <5>1, <5>2
      <4>3. CASE d # h.cs
        <5>1. Q[0].len[d] = R[0].len[d] /\ headers'[d] = headers[d]
          BY <1>8, <2>5, <2>7, <2>12, <2>13, <4>3
        <5> QED
          BY <2>7, <4>1, <5>1
      <4> QED
        BY <4>2, <4>3
    <3>3. Q[0].size = IF pendingSize' = 0 THEN chunkSize' ELSE pendingSize'
      BY <1>4, <1>6, <2>7 DEF Starts
    <3> QED
      BY <1>6, <3>1, <3>2, <3>3 DEF Starts
  <2>15. headers' \in [ChunkStreams -> Saids]
    BY <1>8, <2>4, <2>5, <2>12
  <2> QED
    BY <1>11, <2>6, <2>9, <2>10, <2>11, <2>14, <2>15
<1> QED
  BY <1>12, <1>13

LEMMA ReadKeeps ==
  ASSUME ChunksHold, Read
  PROVE  ChunksHold'
<1> HIDE DEF ChunkUnits, Messages, Snaps, HeaderUnits
<1>1. ChunkTypes /\ CameOut
  BY DEF ChunksHold
<1>2. PICK n \in Nat : \E R \in [0 .. n -> Snaps] : Underlies(n, R)
  BY DEF ChunksHold
<1>3. PICK R \in [0 .. n -> Snaps] : Underlies(n, R)
  BY <1>2
<1>4. PICK k \in 1 .. Len(wire) :
        buf' = buf \o SubSeq(wire, 1, k) /\ wire' = SubSeq(wire, k + 1, Len(wire))
  BY DEF Read
<1>5. /\ spoken' = spoken /\ sending' = sending /\ finished' = finished /\ outSize' = outSize
      /\ headers' = headers /\ states' = states /\ chunkSize' = chunkSize
      /\ pendingSize' = pendingSize /\ got' = got /\ parsing' = TRUE
  BY DEF Read, peerVars
<1>6. buf \in Seq(ChunkUnits) /\ wire \in Seq(ChunkUnits)
  BY <1>1 DEF ChunkTypes
<1>7. Underway' = Underway
  <2>1. PICK w : w = wire
    OBVIOUS
  <2>2. PICK b : b = buf
    OBVIOUS
  <2>3. b \in Seq(ChunkUnits) /\ w \in Seq(ChunkUnits) /\ k \in 1 .. Len(w)
    BY <1>6, <2>1, <2>2
  <2>4. (b \o SubSeq(w, 1, k)) \o SubSeq(w, k + 1, Len(w)) = b \o w
    BY <2>3, Rejoined
  <2> QED
    BY <1>4, <2>1, <2>2, <2>4 DEF Underway
<1>8. buf' \in Seq(ChunkUnits) /\ wire' \in Seq(ChunkUnits)
  <2>1. (\A i \in 1 .. k : wire[i] \in ChunkUnits) /\ (\A i \in k + 1 .. Len(wire) : wire[i] \in ChunkUnits)
    BY <1>6
  <2>2. 1 \in Int /\ k \in Int /\ k + 1 \in Int /\ Len(wire) \in Int
    BY <1>6
  <2>3. SubSeq(wire, 1, k) \in Seq(ChunkUnits) /\ SubSeq(wire, k + 1, Len(wire)) \in Seq(ChunkUnits)
    BY <2>1, <2>2, SubSeqProperties
  <2> QED
    BY <1>4, <1>6, <2>3
<1>9. Underlies(n, R)'
  BY <1>3, <1>5, <1>7 DEF Underlies, Replays, Starts, Ends
<1>10. ChunkTypes' /\ CameOut'
  BY <1>1, <1>5, <1>8 DEF ChunkTypes, CameOut
<1> QED
  BY <1>9, <1>10 DEF ChunksHold

\* The first chunk goes.
LEMMA DroppedUnits ==
  ASSUME NEW b \in Seq(ChunkUnits), NEW w \in Seq(ChunkUnits), NEW d \in 0 .. Len(b)
  PROVE  LET z == SubSeq(b, d + 1, Len(b)) \o w
         IN  /\ SubSeq(b, d + 1, Len(b)) \in Seq(ChunkUnits) /\ z \in Seq(ChunkUnits)
             /\ Len(z) = Len(b \o w) - d /\ Covers(z, b \o w, d)
<1> HIDE DEF ChunkUnits
<1> DEFINE p == SubSeq(b, d + 1, Len(b))
           z == p \o w
           s == b \o w
<1>1. Len(b) \in Nat /\ Len(w) \in Nat /\ d \in Nat /\ d <= Len(b)
  OBVIOUS
<1>2. p \in Seq(ChunkUnits) /\ Len(p) = Len(b) - d /\ \A i \in 1 .. Len(b) - d : p[i] = b[d + i]
  <2> DEFINE a == d + 1
  <2>1. \A i \in a .. Len(b) : b[i] \in ChunkUnits
    BY <1>1
  <2>2. a \in Int /\ Len(b) \in Int
    BY <1>1
  <2>3. /\ p \in Seq(ChunkUnits) /\ Len(p) = IF a <= Len(b) THEN Len(b) - a + 1 ELSE 0
        /\ \A i \in 1 .. Len(b) - a + 1 : p[i] = b[a + i - 1]
    BY <2>1, <2>2, SubSeqProperties
  <2> HIDE DEF p
  <2>4. Len(p) = Len(b) - d
    BY <1>1, <2>3
  <2>5. \A i \in 1 .. Len(b) - d : p[i] = b[d + i]
    <3> TAKE i \in 1 .. Len(b) - d
    <3>1. i \in 1 .. Len(b) - a + 1 /\ a + i - 1 = d + i
      BY <1>1
    <3> HIDE DEF a
    <3> QED
      BY <2>3, <3>1
  <2> QED
    BY <2>3, <2>4, <2>5
<1> HIDE DEF p
<1>3. /\ s \in Seq(ChunkUnits) /\ Len(s) = Len(b) + Len(w)
      /\ \A i \in 1 .. Len(b) + Len(w) : s[i] = IF i <= Len(b) THEN b[i] ELSE w[i - Len(b)]
  BY ConcatProperties
<1>4. p \in Seq(ChunkUnits)
  BY <1>2
<1>5. /\ z \in Seq(ChunkUnits) /\ Len(z) = Len(p) + Len(w)
      /\ \A i \in 1 .. Len(p) + Len(w) : z[i] = IF i <= Len(p) THEN p[i] ELSE w[i - Len(p)]
  BY <1>4, ConcatProperties
<1> HIDE DEF z, s
<1>6. Len(z) = Len(s) - d
  BY <1>1, <1>2, <1>3, <1>5
<1>7. ASSUME NEW j \in d + 1 .. Len(s) PROVE z[j - d] = s[j]
  <2>1. j - d \in 1 .. Len(p) + Len(w) /\ j \in 1 .. Len(b) + Len(w)
    BY <1>1, <1>2, <1>3
  <2>2. CASE j <= Len(b)
    <3>1. j - d <= Len(p) /\ j - d \in 1 .. Len(b) - d /\ d + (j - d) = j
      BY <1>1, <1>2, <2>1, <2>2
    <3>2. z[j - d] = p[j - d] /\ s[j] = b[j]
      BY <1>3, <1>5, <2>1, <2>2, <3>1
    <3> QED
      BY <1>2, <3>1, <3>2
  <2>3. CASE ~(j <= Len(b))
    <3>1. ~(j - d <= Len(p)) /\ (j - d) - Len(p) = j - Len(b)
      BY <1>1, <1>2, <2>1, <2>3
    <3> QED
      BY <1>3, <1>5, <2>1, <2>3, <3>1
  <2> QED
    BY <2>2, <2>3
<1>8. Covers(z, s, d)
  <2>1. Len(s) - d <= Len(z)
    BY <1>1, <1>3, <1>6
  <2> QED
    BY <1>7, <2>1 DEF Covers
<1> QED
  BY <1>2, <1>5, <1>6, <1>8 DEF p, z, s

Earlier(r, d) == [at |-> r.at - d, size |-> r.size, len |-> r.len, data |-> r.data, got |-> r.got]
Dropped(R, n, d) == [k \in 0 .. n - 1 |-> Earlier(R[k + 1], d)]

LEMMA DroppedReplays ==
  ASSUME NEW s \in Seq(ChunkUnits), NEW z \in Seq(ChunkUnits), NEW e \in Seq(Messages),
         NEW n \in Nat, n > 0, NEW R, Replays(s, e, n, R),
         NEW d \in Nat, d = R[1].at, Covers(z, s, d), Len(z) = Len(s) - d
  PROVE  Replays(z, e, n - 1, Dropped(R, n, d))
<1> HIDE DEF ChunkUnits, Messages, Snaps
<1> DEFINE Q == Dropped(R, n, d)
<1>1. /\ R \in [0 .. n -> Snaps] /\ R[n].at = Len(s)
      /\ \A j, k \in 0 .. n : j <= k => R[j].at <= R[k].at
      /\ \A k \in 0 .. n - 1 : Chunk(s, e, R[k], R[k + 1])
  BY DEF Replays
<1>2. \A k \in 0 .. n - 1 : Q[k] = Earlier(R[k + 1], d) /\ k + 1 \in 0 .. n
  BY DEF Dropped
<1>3. ASSUME NEW k \in 1 .. n
      PROVE  /\ R[k] \in Snaps /\ R[k].at \in Nat /\ R[k].at >= d
             /\ Earlier(R[k], d) \in Snaps /\ Moved(R[k], Earlier(R[k], d), d)
             /\ Earlier(R[k], d).at = R[k].at - d
  <2>1. R[k] \in Snaps /\ R[1].at <= R[k].at
    BY <1>1
  <2>2. R[k].at \in Nat
    BY <2>1 DEF Snaps
  <2>3. R[k].at >= d /\ R[k].at - d \in Nat
    BY SMTT(30), <2>1, <2>2
  <2>4. Earlier(R[k], d) \in Snaps
    BY <2>1, <2>3 DEF Earlier, Snaps
  <2> QED
    BY <2>1, <2>2, <2>3, <2>4 DEF Moved, Earlier
<1>4. Q = [k \in 0 .. n - 1 |-> Earlier(R[k + 1], d)]
  BY DEF Dropped
<1> HIDE DEF Q
<1>5. \A k \in 0 .. n - 1 : k + 1 \in 1 .. n
  OBVIOUS
<1>6. Q \in [0 .. n - 1 -> Snaps]
  BY <1>3, <1>4, <1>5
<1>7. Q[0].at = 0 /\ Q[n - 1].at = Len(z)
  <2>1. 0 \in 0 .. n - 1 /\ 0 + 1 = 1 /\ 1 \in 1 .. n
    OBVIOUS
  <2>2. Q[0].at = R[1].at - d
    BY <1>2, <1>3, <2>1
  <2>3. n - 1 \in 0 .. n - 1 /\ (n - 1) + 1 = n /\ n \in 1 .. n
    OBVIOUS
  <2>4. Q[n - 1].at = R[n].at - d
    BY <1>2, <1>3, <2>3
  <2> QED
    BY <1>1, <2>2, <2>4
<1>8. ASSUME NEW j \in 0 .. n - 1, NEW k \in 0 .. n - 1, j <= k PROVE Q[j].at <= Q[k].at
  <2>1. j + 1 \in 1 .. n /\ k + 1 \in 1 .. n /\ j + 1 \in 0 .. n /\ k + 1 \in 0 .. n /\ j + 1 <= k + 1
    BY <1>8
  <2>2. /\ Q[j].at = R[j + 1].at - d /\ Q[k].at = R[k + 1].at - d
        /\ R[j + 1].at \in Nat /\ R[k + 1].at \in Nat
    BY <1>2, <1>3, <2>1
  <2>3. R[j + 1].at <= R[k + 1].at
    BY <1>1, <2>1
  <2>4. PICK x : x = R[j + 1].at
    OBVIOUS
  <2>5. PICK y : y = R[k + 1].at
    OBVIOUS
  <2>6. x \in Nat /\ y \in Nat /\ x <= y
    BY <2>2, <2>3, <2>4, <2>5
  <2>7. x - d <= y - d
    BY <2>6
  <2> QED
    BY <2>2, <2>4, <2>5, <2>7
<1>9. ASSUME NEW k \in 0 .. (n - 1) - 1 PROVE Chunk(z, e, Q[k], Q[k + 1])
  <2>1. /\ k \in 0 .. n - 1 /\ k + 1 \in 0 .. n - 1 /\ k + 1 \in 1 .. n /\ (k + 1) + 1 \in 1 .. n
    BY <1>9
  <2>2. PICK r : r = R[k + 1]
    OBVIOUS
  <2>3. PICK q : q = R[(k + 1) + 1]
    OBVIOUS
  <2>4. PICK a : a = Earlier(r, d)
    OBVIOUS
  <2>5. PICK b : b = Earlier(q, d)
    OBVIOUS
  <2>6. Chunk(s, e, r, q)
    BY <1>1, <2>1, <2>2, <2>3
  <2>7. r \in Snaps /\ q \in Snaps /\ a \in Snaps /\ b \in Snaps /\ Moved(r, a, d) /\ Moved(q, b, d)
    BY <1>3, <2>1, <2>2, <2>3, <2>4, <2>5
  <2>8. Continues(e, e)
    <3>1. Len(e) \in Nat
      OBVIOUS
    <3> QED
      BY <3>1 DEF Continues
  <2>9. Chunk(z, e, a, b)
    BY <2>6, <2>7, <2>8, ChunkMoves
  <2> QED
    BY <1>2, <2>1, <2>2, <2>3, <2>4, <2>5, <2>9
<1>10. Replays(z, e, n - 1, Q)
  BY <1>6, <1>7, <1>8, <1>9 DEF Replays
<1> QED
  BY <1>10 DEF Q

\* How the reader's own state changes with its first chunk.
Parsed(R, h, total, left, size, m) ==
  /\ R[1].at = 1 + size /\ R[1].len = [R[0].len EXCEPT ![h.cs] = total]
  /\ R[1].got <= Len(finished) /\ m # <<>> /\ m \in Seq(ChunkUnits)
  /\ R[1].size = IF h.cs = ControlStream /\ left <= R[0].size THEN NextSize ELSE R[0].size
  /\ (left <= R[0].size => /\ R[1].data = [R[0].data EXCEPT ![h.cs] = <<>>]
                           /\ R[1].got = R[0].got + 1
                           /\ finished[R[1].got].cs = h.cs /\ finished[R[1].got].data = m)
  /\ (~(left <= R[0].size) => /\ R[1].data = [R[0].data EXCEPT ![h.cs] = m]
                              /\ R[1].got = R[0].got)
  /\ (Len(m) >= total <=> left <= R[0].size)

LEMMA ParsedChunk ==
  ASSUME ChunkTypes, NEW n \in Nat, NEW R \in [0 .. n -> Snaps], Underlies(n, R), Whole,
         NEW h, h = Head(buf), NEW total, total = MessageLength(h, R[0].len),
         NEW left, left = total - Len(R[0].data[h.cs]), NEW size, size = DataSize(h), ~Outruns(h),
         NEW m, m = states[h.cs].data \o SubSeq(buf, 2, 1 + size)
  PROVE  /\ AtHead(n, R) /\ size \in Nat \ {0} /\ 1 + size <= Len(buf)
         /\ Parsed(R, h, total, left, size, m)
<1> HIDE DEF ChunkUnits, Messages, Snaps, HeaderUnits
<1>1. buf # <<>> /\ Len(buf) >= 1 + size
  BY DEF Whole
<1>2. AtHead(n, R)
  BY <1>1, FirstChunk
<1>3. /\ n > 0 /\ h \in HeaderUnits /\ Underway[1] = h /\ size = Part(left, R[0].size)
      /\ total \in Nat
  <2>1. n > 0 /\ h \in HeaderUnits /\ Underway[1] = h /\ Left(h) = left /\ total \in Nat
    BY <1>2 DEF AtHead, Saids
  <2>2. R[0].size = IF pendingSize = 0 THEN chunkSize ELSE pendingSize
    BY DEF Underlies, Starts
  <2>3. size = Part(left, chunkSize)
    BY <2>1 DEF DataSize
  <2>4. pendingSize # 0 => size = Part(left, pendingSize)
    BY <2>1 DEF Outruns
  <2> QED
    BY <2>1, <2>2, <2>3, <2>4
<1>4. /\ Replays(Underway, finished, n, R) /\ Starts(R[0])
  BY DEF Underlies
<1>6. 0 \in 0 .. n /\ 1 \in 0 .. n /\ 0 \in 0 .. n - 1 /\ 0 + 1 = 1
  BY SMTT(30), <1>3
<1>7. PICK r : r = R[0]
  OBVIOUS
<1>8. PICK q : q = R[1]
  OBVIOUS
<1>9. r \in Snaps /\ q \in Snaps /\ r.at = 0 /\ Chunk(Underway, finished, r, q)
  BY <1>4, <1>6, <1>7, <1>8 DEF Replays
<1>5. r.size \in Nat \ {0}
  BY <1>9 DEF Snaps
<1>10. Underway[r.at + 1] = h
  BY SMTT(30), <1>3, <1>9
<1>11. h.cs \in ChunkStreams
  BY <1>3 DEF HeaderUnits
<1>12. buf \in Seq(ChunkUnits) /\ wire \in Seq(ChunkUnits) /\ Len(buf) \in Nat
  BY SMTT(30) DEF ChunkTypes
<1>13. r.data[h.cs] \in Seq(ChunkUnits) /\ Len(r.data[h.cs]) \in Nat /\ r.data[h.cs] = states[h.cs].data
  <2>1. PICK x : x = r.data[h.cs]
    OBVIOUS
  <2>2. x \in Seq(ChunkUnits)
    BY <1>9, <1>11, <2>1 DEF Snaps
  <2>3. Len(x) \in Nat
    BY SMTT(30), <2>2
  <2>4. r.data[h.cs] = states[h.cs].data
    BY <1>4, <1>7, <1>11 DEF Starts
  <2> QED
    BY <2>1, <2>2, <2>3, <2>4
<1>24. PICK gone : gone = Len(r.data[h.cs])
  OBVIOUS
<1>25. gone \in Nat /\ left = total - gone
  BY <1>7, <1>13, <1>24
<1>14. /\ left > 0 /\ q.at = r.at + 1 + size /\ q.at <= Len(Underway)
       /\ q.len = [r.len EXCEPT ![h.cs] = total] /\ q.got <= Len(finished)
       /\ q.size = (IF h.cs = ControlStream /\ left <= r.size THEN NextSize ELSE r.size)
       /\ IF left <= r.size
            THEN /\ q.data = [r.data EXCEPT ![h.cs] = <<>>] /\ q.got = r.got + 1
                 /\ finished[q.got].cs = h.cs /\ finished[q.got].data = Gathered(Underway, r, h, size)
            ELSE q.data = [r.data EXCEPT ![h.cs] = Gathered(Underway, r, h, size)] /\ q.got = r.got
  <2>1. total = MessageLength(h, r.len) /\ left = total - Len(r.data[h.cs]) /\ size = Part(left, r.size)
    BY <1>3, <1>7
  <2>2. PICK u : u = Underway
    OBVIOUS
  <2> DEFINE h1 == u[r.at + 1]
             total1 == MessageLength(h1, r.len)
             left1 == total1 - Len(r.data[h1.cs])
             size1 == Part(left1, r.size)
  <2>3. /\ left1 > 0 /\ q.at = r.at + 1 + size1 /\ q.at <= Len(u)
        /\ q.len = [r.len EXCEPT ![h1.cs] = total1] /\ q.got <= Len(finished)
        /\ q.size = (IF h1.cs = ControlStream /\ left1 <= r.size THEN NextSize ELSE r.size)
        /\ IF left1 <= r.size
             THEN /\ q.data = [r.data EXCEPT ![h1.cs] = <<>>] /\ q.got = r.got + 1
                  /\ finished[q.got].cs = h1.cs /\ finished[q.got].data = Gathered(u, r, h1, size1)
             ELSE q.data = [r.data EXCEPT ![h1.cs] = Gathered(u, r, h1, size1)] /\ q.got = r.got
    BY <1>9, <2>2 DEF Chunk
  <2>4. h1 = h
    BY <1>10, <2>2
  <2>5. total1 = total
    BY <2>1, <2>4
  <2>6. left1 = left
    BY <2>1, <2>4, <2>5
  <2>7. size1 = size
    BY <2>1, <2>6
  <2> HIDE DEF h1, total1, left1, size1
  <2> QED
    BY <2>2, <2>3, <2>4, <2>5, <2>6, <2>7
<1>15. left \in Nat /\ size \in Nat \ {0} /\ size <= left
  <2>1. left > 0 /\ size = Part(left, r.size) /\ total \in Nat
    BY <1>3, <1>7, <1>14
  <2> QED
    <3>1. PICK k : k = r.size
      OBVIOUS
    <3>2. k \in Nat \ {0} /\ size = (IF left < k THEN left ELSE k)
      BY <1>5, <2>1, <3>1 DEF Part
    <3>3. left \in Nat \ {0}
      BY SMTT(30), <1>25, <2>1
    <3>4. PICK j : j = left
      OBVIOUS
    <3>5. j \in Nat \ {0} /\ size = IF j < k THEN j ELSE k
      BY <3>2, <3>3, <3>4
    <3>6. size \in Nat \ {0} /\ size <= j
      BY SMTT(30), <3>2, <3>5
    <3> QED
      BY <3>3, <3>4, <3>6
<1>16. SubSeq(Underway, 2, 1 + size) = SubSeq(buf, 2, 1 + size)
  <2>1. PICK b : b = buf
    OBVIOUS
  <2>2. PICK s : s = Underway
    OBVIOUS
  <2>3. /\ s \in Seq(ChunkUnits) /\ b \in Seq(ChunkUnits) /\ Len(b) <= Len(s)
        /\ \A j \in 1 .. Len(b) : s[j] = b[j]
    BY SMTT(30), <1>12, <2>1, <2>2 DEF Underway
  <2> DEFINE o == 1 + size
  <2>4. o \in Nat /\ o <= Len(b) /\ 2 \in Nat /\ 0 \in Nat /\ 2 > 0
    BY SMTT(30), <1>1, <1>15, <2>1
  <2>5. \A j \in 2 .. o : s[j - 0] = b[j]
    <3> TAKE j \in 2 .. o
    <3>1. j \in 1 .. Len(b) /\ j - 0 = j
      BY SMTT(30), <1>12, <2>1, <2>4
    <3> QED
      BY <2>3, <3>1
  <2>6. o - 0 <= Len(s) /\ o - 0 = o /\ 2 - 0 = 2
    BY SMTT(30), <2>3, <2>4
  <2> HIDE DEF o
  <2>7. SubSeq(s, 2 - 0, o - 0) = SubSeq(b, 2, o)
    BY SMTT(30), <2>3, <2>4, <2>5, <2>6, SameParts
  <2> QED
    BY <2>1, <2>2, <2>6, <2>7 DEF o
<1>17. m = Gathered(Underway, r, h, size)
  <2>1. r.at + 2 = 2 /\ r.at + 1 + size = 1 + size
    BY SMTT(30), <1>9, <1>15
  <2> QED
    BY <1>13, <1>16, <2>1 DEF Gathered
<1>18. SubSeq(buf, 2, 1 + size) \in Seq(ChunkUnits) /\ Len(SubSeq(buf, 2, 1 + size)) = size
  <2> DEFINE o == 1 + size
  <2>1. \A i \in 2 .. o : buf[i] \in ChunkUnits
    BY SMTT(30), <1>1, <1>12, <1>15
  <2>2. 2 \in Int /\ o \in Int /\ 2 <= o /\ o - 2 + 1 = size
    BY SMTT(30), <1>15
  <2>3. /\ SubSeq(buf, 2, o) \in Seq(ChunkUnits) /\ Len(SubSeq(buf, 2, o)) = IF 2 <= o THEN o - 2 + 1 ELSE 0
    BY SMTT(30), <2>1, <2>2, SubSeqProperties
  <2> QED
    BY <2>2, <2>3
<1>19. m \in Seq(ChunkUnits) /\ Len(m) = Len(r.data[h.cs]) + size
  <2>1. PICK x : x = r.data[h.cs]
    OBVIOUS
  <2>2. PICK y : y = SubSeq(buf, 2, 1 + size)
    OBVIOUS
  <2>3. x \in Seq(ChunkUnits) /\ y \in Seq(ChunkUnits) /\ m = x \o y
    BY <1>13, <1>18, <2>1, <2>2
  <2>4. x \in Seq(ChunkUnits) /\ y \in Seq(ChunkUnits)
    BY <2>3
  <2>5. x \o y \in Seq(ChunkUnits) /\ Len(x \o y) = Len(x) + Len(y)
    BY <2>4, ConcatProperties
  <2> QED
    BY <1>18, <2>1, <2>2, <2>3, <2>5
<1>26. Len(m) = gone + size
  BY <1>19, <1>24
<1>20. m # <<>>
  <2>1. gone + size > 0 /\ ~(0 > 0)
    BY SMTT(30), <1>15, <1>25
  <2>2. Len(<<>>) = 0
    OBVIOUS
  <2> QED
    BY <1>26, <2>1, <2>2, Zenon
<1>21. Len(m) >= total <=> left <= r.size
  <2>1. size = Part(left, r.size) /\ total \in Nat
    BY <1>3, <1>7
  <2> QED
    <3>1. PICK k : k = r.size
      OBVIOUS
    <3>2. k \in Nat \ {0} /\ size = (IF left < k THEN left ELSE k)
      BY <1>5, <2>1, <3>1 DEF Part
    <3>3. gone + size >= total <=> left <= k
      BY SMTT(30), <1>15, <1>25, <2>1, <3>2
    <3> QED
      BY <1>26, <3>1, <3>3
<1>22. q.at = 1 + size
  BY SMTT(30), <1>9, <1>14, <1>15
<1>23. Parsed(R, h, total, left, size, m)
  BY <1>7, <1>8, <1>14, <1>17, <1>19, <1>20, <1>21, <1>22 DEF Parsed
<1> QED
  BY <1>1, <1>2, <1>15, <1>23

LEMMA ParseKeeps ==
  ASSUME ChunksHold, parse_chunks, ~outrun'
  PROVE  ChunksHold'
<1> HIDE DEF ChunkUnits, Messages, Snaps, HeaderUnits
<1>1. ChunkTypes /\ CameOut
  BY DEF ChunksHold
<1>2. PICK n \in Nat : \E R \in [0 .. n -> Snaps] : Underlies(n, R)
  BY DEF ChunksHold
<1>3. PICK R \in [0 .. n -> Snaps] : Underlies(n, R)
  BY <1>2
<1>4. /\ Replays(Underway, finished, n, R) /\ Starts(R[0]) /\ Ends(R[n])
  BY <1>3 DEF Underlies
<1>5. Whole
  BY DEF parse_chunks
<1>6. PICK h : h = Head(buf)
  OBVIOUS
<1>14. ~Outruns(h)
  BY <1>6 DEF parse_chunks
<1>7. PICK total : total = MessageLength(h, R[0].len)
  OBVIOUS
<1>8. PICK left : left = total - Len(R[0].data[h.cs])
  OBVIOUS
<1>9. PICK size : size = DataSize(h)
  OBVIOUS
<1>10. PICK m : m = states[h.cs].data \o SubSeq(buf, 2, 1 + size)
  OBVIOUS
<1>11. PICK p : p = ParsedHeader(h)
  OBVIOUS
<1>12. /\ AtHead(n, R) /\ size \in Nat \ {0} /\ 1 + size <= Len(buf)
       /\ Parsed(R, h, total, left, size, m)
  BY <1>1, <1>3, <1>5, <1>6, <1>7, <1>8, <1>9, <1>10, <1>14, ParsedChunk
<1>13. /\ n > 0 /\ h \in HeaderUnits /\ Underway[1] = h /\ p \in Saids /\ p.len = total
       /\ h.cs \in ChunkStreams /\ total \in Nat
  BY <1>6, <1>7, <1>11, <1>12 DEF AtHead, HeaderUnits, Saids
<1>15. /\ headers' = [headers EXCEPT ![h.cs] = p]
       /\ buf' = SubSeq(buf, 2 + size, Len(buf)) /\ wire' = wire
       /\ states' = [states EXCEPT ![h.cs] = IF Len(m) >= total THEN [len |-> 0, data |-> <<>>]
                                             ELSE [len |-> total, data |-> m]]
       /\ got' = (IF Len(m) >= total THEN Append(got, [cs |-> h.cs, ts |-> p.ts, data |-> m]) ELSE got)
       /\ pendingSize' = IF Len(m) >= total /\ h.cs = ControlStream THEN NextSize ELSE pendingSize
  BY <1>6, <1>9, <1>10, <1>11, <1>13 DEF parse_chunks, cleared
<1>16. /\ spoken' = spoken /\ sending' = sending /\ finished' = finished /\ outSize' = outSize
       /\ chunkSize' = chunkSize /\ parsing' = parsing
  BY DEF parse_chunks, peerVars
<1>17. /\ buf \in Seq(ChunkUnits) /\ wire \in Seq(ChunkUnits) /\ finished \in Seq(Messages)
       /\ got \in Seq(Messages) /\ headers \in [ChunkStreams -> Saids]
       /\ states \in [ChunkStreams -> [len : Nat, data : Seq(ChunkUnits)]]
  BY <1>1 DEF ChunkTypes
<1>18. PICK s : s = Underway
  OBVIOUS
<1>19. PICK z : z = Underway'
  OBVIOUS
<1>20. PICK d : d = 1 + size
  OBVIOUS
<1>21. d \in Nat /\ d = R[1].at
  BY <1>12, <1>20 DEF Parsed
<1>22. s \in Seq(ChunkUnits) /\ z \in Seq(ChunkUnits) /\ buf' \in Seq(ChunkUnits) /\ Len(z) = Len(s) - d /\ Covers(z, s, d)
  <2>1. PICK b : b = buf
    OBVIOUS
  <2>2. PICK w : w = wire
    OBVIOUS
  <2>3. b \in Seq(ChunkUnits) /\ w \in Seq(ChunkUnits) /\ Len(b) \in Nat
    BY <1>17, <2>1, <2>2
  <2>4. d \in 0 .. Len(b) /\ 2 + size = d + 1
    BY <1>12, <1>20, <2>1, <2>3
  <2> DEFINE x == SubSeq(b, d + 1, Len(b))
  <2>5. /\ x \in Seq(ChunkUnits) /\ x \o w \in Seq(ChunkUnits)
        /\ Len(x \o w) = Len(b \o w) - d /\ Covers(x \o w, b \o w, d)
    BY <2>3, <2>4, DroppedUnits
  <2>6. x = buf'
    BY <1>15, <2>1, <2>4
  <2> HIDE DEF x
  <2>7. s = b \o w /\ z = x \o w
    BY <1>15, <1>18, <1>19, <2>1, <2>2, <2>6 DEF Underway
  <2>8. s \in Seq(ChunkUnits)
    BY <2>3, <2>7
  <2> QED
    BY <2>5, <2>6, <2>7, <2>8
<1>24. Replays(z, finished, n - 1, Dropped(R, n, d))
  <2>1. PICK e : e = finished
    OBVIOUS
  <2>3. e \in Seq(Messages) /\ Replays(s, e, n, R)
    BY <1>4, <1>17, <1>18, <2>1
  <2>4. Replays(z, e, n - 1, Dropped(R, n, d))
    BY <1>13, <1>21, <1>22, <2>3, DroppedReplays
  <2> QED
    BY <2>1, <2>4
<1> DEFINE Q == Dropped(R, n, d)
<1>26. Q \in [0 .. n - 1 -> Snaps]
  BY <1>24 DEF Replays
<1>27. /\ Q[0].size = R[1].size /\ Q[n - 1].size = R[n].size /\ Q[0].len = R[1].len /\ Q[0].data = R[1].data /\ Q[0].got = R[1].got
       /\ Q[n - 1].len = R[n].len /\ Q[n - 1].data = R[n].data /\ Q[n - 1].got = R[n].got
  <2>1. 0 \in 0 .. n - 1 /\ n - 1 \in 0 .. n - 1 /\ 0 + 1 = 1 /\ (n - 1) + 1 = n
    BY <1>13
  <2>2. Q[0] = Earlier(R[1], d) /\ Q[n - 1] = Earlier(R[n], d)
    BY <2>1 DEF Dropped
  <2> HIDE DEF Q
  <2> QED
    BY <2>2 DEF Earlier
<1> HIDE DEF Q
<1>28. Ends(Q[n - 1])'
  BY <1>4, <1>16, <1>27 DEF Ends
<1>29. left <= R[0].size <=> Len(m) >= total
  BY <1>12 DEF Parsed
<1>30. 0 \in 0 .. n /\ R[0].len \in [ChunkStreams -> Nat] /\ R[0].data \in [ChunkStreams -> Seq(ChunkUnits)]
  <2>1. 0 \in 0 .. n
    OBVIOUS
  <2> QED
    BY <2>1 DEF Snaps
<1>31. /\ m # <<>> /\ m \in Seq(ChunkUnits) /\ R[1].len = [R[0].len EXCEPT ![h.cs] = total]
       /\ R[1].got <= Len(finished)
  BY <1>12 DEF Parsed
<1>35. Q[0].size = IF pendingSize' = 0 THEN chunkSize' ELSE pendingSize'
  <2>1. R[0].size = IF pendingSize = 0 THEN chunkSize ELSE pendingSize
    BY <1>4 DEF Starts
  <2>2. NextSize # 0
    BY ChunksAssumption DEF ChunksAssumption
  <2>3. R[1].size = IF h.cs = ControlStream /\ left <= R[0].size THEN NextSize ELSE R[0].size
    BY <1>12 DEF Parsed
  <2> QED
    BY <1>15, <1>16, <1>27, <1>29, <2>1, <2>2, <2>3
<1>32. CASE Len(m) >= total
  <2>1. /\ R[1].data = [R[0].data EXCEPT ![h.cs] = <<>>] /\ R[1].got = R[0].got + 1
        /\ finished[R[1].got].cs = h.cs /\ finished[R[1].got].data = m
    BY <1>12, <1>29, <1>32 DEF Parsed
  <2> DEFINE x == [cs |-> h.cs, ts |-> p.ts, data |-> m]
  <2>2. x \in Messages
    BY <1>13, <1>31 DEF Messages, Saids
  <2>3. x.cs = h.cs /\ x.data = m
    OBVIOUS
  <2>4. /\ got' = Append(got, x)
        /\ states' = [states EXCEPT ![h.cs] = [len |-> 0, data |-> <<>>]]
    BY <1>15, <1>32
  <2> HIDE DEF x
  <2>5. got' \in Seq(Messages)
    BY <1>17, <2>2, <2>4
  <2>6. /\ Len(got) \in Nat /\ Len(got') = Len(got) + 1 /\ got'[Len(got) + 1] = x
        /\ \A i \in 1 .. Len(got) : got'[i] = got[i]
    BY <1>17, <2>4
  <2>7. R[0].got = Len(got) /\ R[1].got = Len(got')
    BY <1>4, <2>1, <2>6 DEF Starts
  <2>8. CameOut'
    <3>1. ASSUME NEW i \in 1 .. Len(got')
          PROVE  got'[i].cs = finished[i].cs /\ got'[i].data = finished[i].data
      <4>1. CASE i \in 1 .. Len(got)
        BY <1>1, <2>6, <4>1 DEF CameOut
      <4>2. CASE i = Len(got) + 1
        BY <2>1, <2>3, <2>6, <2>7, <4>2
      <4> QED
        BY <2>6, <4>1, <4>2
    <3> QED
      BY <1>16, <3>1 DEF CameOut
  <2>9. ChunkTypes'
    <3>1. states' \in [ChunkStreams -> [len : Nat, data : Seq(ChunkUnits)]]
      <4>1. [len |-> 0, data |-> <<>>] \in [len : Nat, data : Seq(ChunkUnits)]
        OBVIOUS
      <4> QED
        BY <1>13, <1>17, <2>4, <4>1
    <3>2. headers' \in [ChunkStreams -> Saids]
      BY <1>13, <1>15, <1>17
    <3> QED
      BY <1>1, <1>15, <1>16, <1>22, <2>5, <3>1, <3>2 DEF ChunkTypes
  <2>10. Starts(Q[0])'
    <3>1. Q[0].got = Len(got') /\ Q[0].got <= Len(finished')
      BY <1>16, <1>27, <1>31, <2>7
    <3>2. ASSUME NEW c \in ChunkStreams
          PROVE  /\ Q[0].len[c] = headers'[c].len /\ Q[0].data[c] = states'[c].data
                 /\ states'[c].len = IF Q[0].data[c] = <<>> THEN 0 ELSE Q[0].len[c]
      <4>1. /\ R[0].len[c] = headers[c].len /\ R[0].data[c] = states[c].data
            /\ states[c].len = IF R[0].data[c] = <<>> THEN 0 ELSE R[0].len[c]
        BY <1>4 DEF Starts
      <4>2. CASE c = h.cs
        <5>1. Q[0].len[c] = total /\ headers'[c].len = total
          BY <1>13, <1>15, <1>17, <1>27, <1>30, <1>31, <4>2
        <5>2. Q[0].data[c] = <<>>
          BY <1>13, <1>27, <1>30, <2>1, <4>2
        <5>3. states'[c].data = <<>> /\ states'[c].len = 0
          BY <1>13, <1>17, <2>4, <4>2
        <5> QED
          BY <5>1, <5>2, <5>3
      <4>3. CASE c # h.cs
        <5>1. Q[0].len[c] = R[0].len[c] /\ headers'[c] = headers[c]
          BY <1>13, <1>15, <1>17, <1>27, <1>30, <1>31, <4>3
        <5>2. Q[0].data[c] = R[0].data[c] /\ states'[c] = states[c]
          BY <1>13, <1>17, <1>27, <1>30, <2>1, <2>4, <4>3
        <5> QED
          BY <4>1, <5>1, <5>2
      <4> QED
        BY <4>2, <4>3
    <3> QED
      BY <1>35, <3>1, <3>2 DEF Starts
  <2>11. Underlies(n - 1, Q)'
    <3>1. Replays(Underway, finished, n - 1, Q)'
      BY <1>16, <1>19, <1>24 DEF Replays, Q
    <3> QED
      BY <1>28, <2>10, <3>1 DEF Underlies
  <2> QED
    BY <1>13, <1>26, <2>8, <2>9, <2>11 DEF ChunksHold
<1>33. CASE ~(Len(m) >= total)
  <2>1. R[1].data = [R[0].data EXCEPT ![h.cs] = m] /\ R[1].got = R[0].got
    BY <1>12, <1>29, <1>33 DEF Parsed
  <2>4. got' = got /\ states' = [states EXCEPT ![h.cs] = [len |-> total, data |-> m]]
    BY <1>15, <1>33
  <2>8. CameOut'
    BY <1>1, <1>16, <2>4 DEF CameOut
  <2>9. ChunkTypes'
    <3>1. states' \in [ChunkStreams -> [len : Nat, data : Seq(ChunkUnits)]]
      <4>1. [len |-> total, data |-> m] \in [len : Nat, data : Seq(ChunkUnits)]
        BY <1>13, <1>31
      <4> QED
        BY <1>13, <1>17, <2>4, <4>1
    <3>2. headers' \in [ChunkStreams -> Saids]
      BY <1>13, <1>15, <1>17
    <3> QED
      BY <1>1, <1>15, <1>16, <1>22, <2>4, <3>1, <3>2 DEF ChunkTypes
  <2>10. Starts(Q[0])'
    <3>1. Q[0].got = Len(got') /\ Q[0].got <= Len(finished')
      BY <1>4, <1>16, <1>27, <1>31, <2>1, <2>4 DEF Starts
    <3>2. ASSUME NEW c \in ChunkStreams
          PROVE  /\ Q[0].len[c] = headers'[c].len /\ Q[0].data[c] = states'[c].data
                 /\ states'[c].len = IF Q[0].data[c] = <<>> THEN 0 ELSE Q[0].len[c]
      <4>1. /\ R[0].len[c] = headers[c].len /\ R[0].data[c] = states[c].data
            /\ states[c].len = IF R[0].data[c] = <<>> THEN 0 ELSE R[0].len[c]
        BY <1>4 DEF Starts
      <4>2. CASE c = h.cs
        <5>1. Q[0].len[c] = total /\ headers'[c].len = total
          BY <1>13, <1>15, <1>17, <1>27, <1>30, <1>31, <4>2
        <5>2. Q[0].data[c] = m
          BY <1>13, <1>27, <1>30, <2>1, <4>2
        <5>3. states'[c].data = m /\ states'[c].len = total
          BY <1>13, <1>17, <2>4, <4>2
        <5> QED
          BY <1>31, <5>1, <5>2, <5>3
      <4>3. CASE c # h.cs
        <5>1. Q[0].len[c] = R[0].len[c] /\ headers'[c] = headers[c]
          BY <1>13, <1>15, <1>17, <1>27, <1>30, <1>31, <4>3
        <5>2. Q[0].data[c] = R[0].data[c] /\ states'[c] = states[c]
          BY <1>13, <1>17, <1>27, <1>30, <2>1, <2>4, <4>3
        <5> QED
          BY <4>1, <5>1, <5>2
      <4> QED
        BY <4>2, <4>3
    <3> QED
      BY <1>35, <3>1, <3>2 DEF Starts
  <2>11. Underlies(n - 1, Q)'
    <3>1. Replays(Underway, finished, n - 1, Q)'
      BY <1>16, <1>19, <1>24 DEF Replays, Q
    <3> QED
      BY <1>28, <2>10, <3>1 DEF Underlies
  <2> QED
    BY <1>13, <1>26, <2>8, <2>9, <2>11 DEF ChunksHold
<1> QED
  BY <1>32, <1>33

----------------------------------------------------------------------------
LEMMA ChunksStart ==
  ASSUME ChunksInit
  PROVE  ChunksInv
<1> DEFINE r == [at |-> 0, size |-> FirstSize, len |-> [c \in ChunkStreams |-> 0], data |-> [c \in ChunkStreams |-> <<>>],
                 got |-> 0]
           R == [k \in 0 .. 0 |-> r]
<1>1. /\ spoken = [c \in ChunkStreams |-> Unsaid] /\ finished = <<>> /\ outSize = FirstSize
      /\ sending = [c \in ChunkStreams |-> <<>>]
      /\ wire = <<>> /\ buf = <<>> /\ got = <<>>
      /\ headers = [c \in ChunkStreams |-> Unsaid]
      /\ states = [c \in ChunkStreams |-> [len |-> 0, data |-> <<>>]]
      /\ chunkSize = FirstSize /\ pendingSize = 0 /\ parsing = FALSE
  BY DEF ChunksInit
<1>2. Unsaid \in Saids /\ Unsaid.len = 0
  BY DEF Unsaid, Saids
<1> HIDE DEF ChunkUnits, Messages
<1>3. ChunkTypes
  <2>1. <<>> \in Seq(ChunkUnits) /\ <<>> \in Seq(Messages)
    OBVIOUS
  <2>2. [len |-> 0, data |-> <<>>] \in [len : Nat, data : Seq(ChunkUnits)]
    BY <2>1
  <2>3. /\ spoken \in [ChunkStreams -> Saids] /\ headers \in [ChunkStreams -> Saids]
        /\ sending \in [ChunkStreams -> Seq(ChunkUnits)]
        /\ states \in [ChunkStreams -> [len : Nat, data : Seq(ChunkUnits)]]
    BY <1>1, <1>2, <2>1, <2>2
  <2> QED
    BY <1>1, <2>1, <2>3 DEF ChunkTypes
<1>4. r \in Snaps
  BY ChunksAssumption DEF Snaps, ChunksAssumption
<1>5. /\ r.at = 0 /\ r.got = 0 /\ r.size = FirstSize /\ \A c \in ChunkStreams : r.len[c] = 0 /\ r.data[c] = <<>>
  OBVIOUS
<1> HIDE DEF r, Snaps
<1>6. R \in [0 .. 0 -> Snaps] /\ R[0] = r
  BY <1>4
<1> HIDE DEF R
<1>7. Len(Underway) = 0
  BY <1>1 DEF Underway
<1>8. Replays(Underway, finished, 0, R)
  BY <1>5, <1>6, <1>7 DEF Replays
<1>9. Starts(R[0]) /\ Ends(R[0])
  <2>1. \A c \in ChunkStreams :
          /\ headers[c].len = 0 /\ spoken[c].len = 0 /\ sending[c] = <<>>
          /\ states[c].len = 0 /\ states[c].data = <<>>
    BY <1>1, <1>2
  <2>2. Len(got) = 0 /\ Len(finished) = 0
    BY <1>1
  <2>3. Starts(r)
    BY <1>1, <1>5, <2>1, <2>2 DEF Starts
  <2>4. Ends(r)
    BY <1>1, <1>5, <2>1, <2>2 DEF Ends
  <2> QED
    BY <1>6, <2>3, <2>4
<1>11. Underlies(0, R) /\ 0 \in Nat
  BY <1>8, <1>9 DEF Underlies
<1>12. CameOut
  BY <1>1 DEF CameOut
<1> QED
  BY <1>3, <1>6, <1>11, <1>12 DEF ChunksInv, ChunksHold

LEMMA ChunksKeep ==
  ASSUME ChunksInv, [ChunksNext]_chunkVars
  PROVE  ChunksInv'
<1>1. ASSUME NEW c \in MediaStreams, NEW f \in 0 .. 2, NEW step \in Steps, NEW len \in Lengths,
             Begin(c, f, step, len)
      PROVE  ChunksInv'
  <2>1. step \in Nat /\ len \in Nat \ {0} /\ c \in ChunkStreams /\ c # ControlStream
    BY ChunksAssumption DEF ChunksAssumption, ChunkStreams
  <2>2. outrun' = outrun
    BY <1>1 DEF Begin, readerVars
  <2> QED
    BY <1>1, <2>1, <2>2, BeginKeeps DEF ChunksInv
<1>2. ASSUME Begin(ControlStream, 0, 0, 1)
      PROVE  ChunksInv'
  <2>1. ControlStream \in ChunkStreams /\ 0 \in 0 .. 2 /\ 0 \in Nat /\ 1 \in Nat \ {0}
    BY DEF ChunkStreams
  <2>2. outrun' = outrun
    BY <1>2 DEF Begin, readerVars
  <2> QED
    BY <1>2, <2>1, <2>2, BeginKeeps DEF ChunksInv
<1>3. ASSUME NEW c \in MediaStreams, Continue(c)
      PROVE  ChunksInv'
  <2>1. outrun' = outrun
    BY <1>3 DEF Continue, readerVars
  <2> QED
    BY <1>3, <2>1, ContinueKeeps DEF ChunksInv
<1>4. CASE Read
  BY <1>4, ReadKeeps DEF ChunksInv, Read
<1>5. CASE ChunkShort
  BY <1>5, ShortKeeps DEF ChunksInv, ChunkShort
<1>6. CASE parse_chunks
  <2>1. ~outrun
    BY <1>6 DEF parse_chunks
  <2>2. CASE outrun'
    BY <2>2 DEF ChunksInv
  <2>3. CASE ~outrun'
    BY <1>6, <2>1, <2>3, ParseKeeps DEF ChunksInv
  <2> QED
    BY <2>2, <2>3
<1>7. CASE UNCHANGED chunkVars
  <2>1. UNCHANGED <<spoken, sending, finished, outSize, wire, buf, headers, states, chunkSize,
                    pendingSize, parsing, got, outrun>>
    BY <1>7 DEF chunkVars, peerVars, readerVars
  <2>2. CASE outrun
    BY <2>1, <2>2 DEF ChunksInv
  <2>3. CASE ~outrun
    <3>1. ChunksHold
      BY <2>3 DEF ChunksInv
    <3>2. ChunkTypes' /\ CameOut'
      BY <2>1, <3>1 DEF ChunksHold, ChunkTypes, CameOut
    <3>3. PICK n \in Nat : \E R \in [0 .. n -> Snaps] : Underlies(n, R)
      BY <3>1 DEF ChunksHold
    <3>4. PICK R \in [0 .. n -> Snaps] : Underlies(n, R)
      BY <3>3
    <3>5. Underlies(n, R)'
      BY <2>1, <3>4 DEF Underlies, Underway, Replays, Starts, Ends
    <3> QED
      BY <3>2, <3>5 DEF ChunksInv, ChunksHold
  <2> QED
    BY <2>2, <2>3
<1> QED
  BY <1>1, <1>2, <1>3, <1>4, <1>5, <1>6, <1>7 DEF ChunksNext

LEMMA ChunksOfHold ==
  ASSUME ChunksHold
  PROVE  MessagesAsSent
<1> HIDE DEF ChunkUnits, Messages, Snaps
<1>1. PICK n \in Nat : \E R \in [0 .. n -> Snaps] : Underlies(n, R)
  BY DEF ChunksHold
<1>2. PICK R \in [0 .. n -> Snaps] : Underlies(n, R)
  BY <1>1
<1>3. Replays(Underway, finished, n, R) /\ Starts(R[0]) /\ Ends(R[n])
  BY <1>2 DEF Underlies
<1>4. Len(got) <= Len(finished)
  BY <1>3 DEF Starts
<1>5. ASSUME AllRead PROVE Len(got) = Len(finished)
  <2>1. Len(Underway) = 0
    BY <1>5 DEF AllRead, Underway
  <2>2. CASE n = 0
    BY <1>3, <2>2 DEF Starts, Ends
  <2>3. CASE n # 0
    <3>1. 0 \in 0 .. n - 1 /\ 0 + 1 = 1 /\ 0 \in 0 .. n /\ 1 \in 0 .. n /\ n \in 0 .. n /\ 1 <= n
      BY <2>3
    <3>2. R[0] \in Snaps /\ R[1] \in Snaps /\ Chunk(Underway, finished, R[0], R[1])
      BY <1>3, <3>1 DEF Replays
    <3>3. R[0].at + 2 <= R[1].at /\ R[1].at <= Len(Underway)
      BY <1>3, <2>1, <3>2, ChunkFits
    <3>4. R[0].at = 0
      BY <1>3 DEF Replays
    <3>5. R[1].at \in Nat
      BY <3>2 DEF Snaps
    <3> QED
      BY <2>1, <3>3, <3>4, <3>5
  <2> QED
    BY <2>2, <2>3
<1> QED
  BY <1>4, <1>5 DEF ChunksHold, MessagesAsSent, CameOut

LEMMA ChunksOfInv ==
  ASSUME ChunksInv
  PROVE  MessagesAsSent
<1>1. CASE outrun
  BY <1>1 DEF MessagesAsSent
<1>2. CASE ~outrun
  BY <1>2, ChunksOfHold DEF ChunksInv
<1> QED
  BY <1>1, <1>2
=============================================================================
