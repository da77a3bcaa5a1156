------------------------- MODULE MediaPaths_proofs -------------------------
(***************************************************************************)
(* What the media paths guarantee for every number of tracks, frames and   *)
(* ticks: invariants of one path each, which the steps of the others leave *)
(* alone.                                                                  *)
(***************************************************************************)
EXTENDS MediaPaths, RtmpChunks_proofs, FunctionTheorems

----------------------------------------------------------------------------
\* The pusher.  Frames are numbered as they are taken; those up to Passed are done with.
Passed == taken - Len(todo)
Sending == loop \in {"sps", "pps", "frame"}
WireUnits == [part : {"sps", "pps", "frame"}, seq : Nat, of : Nat, key : BOOLEAN]

PusherTypes ==
  /\ taken \in Nat /\ cachedAt \in Nat
  /\ todo \in Seq(Offered) /\ Len(todo) <= taken
  /\ sent \in [Tracks -> Seq(WireUnits)] /\ sequences \in [Tracks -> Nat]
  /\ loop \in {"none", "recv", "look", "sps", "pps", "frame", "ended"}
  /\ loop = "look" \/ Sending => todo # <<>>
  /\ Sending => Head(todo).track \in Tracks

Honest == paused \in BOOLEAN /\ (status = "paused" => paused)

\* The parameter sets that are out already for the keyframe at hand.
Preceded ==
  LET s == sent[Head(todo).track]
      n == Len(s)
  IN  /\ loop = "pps" => n > 0 /\ s[n].part = "sps" /\ s[n].of = FrameNumber
      /\ loop = "frame" /\ Head(todo).key /\ cachedAt # 0 =>
           /\ n > 1 /\ s[n].part = "pps" /\ s[n - 1].part = "sps"
           /\ s[n].of = FrameNumber /\ s[n - 1].of = FrameNumber

\* Nothing is sent of a frame still to come, so that caches filled by it bind no frame
\* that went out before.
SentBefore ==
  \A t \in Tracks : \A i \in 1 .. Len(sent[t]) :
    sent[t][i].of <= IF Sending THEN FrameNumber ELSE Passed

\* The counters of the loop run with what went out.
Wrapped(n) == n % 65536
Numbered ==
  /\ \A t \in Tracks : sequences[t] = Wrapped(Len(sent[t]))
  /\ \A t \in Tracks : \A i \in 1 .. Len(sent[t]) : sent[t][i].seq = Wrapped(i - 1)

\* Every frame that goes out behind a full cache follows the frame's parameter sets.
Introduced ==
  \A t \in Tracks : \A i \in 1 .. Len(sent[t]) :
    sent[t][i].part = "frame" /\ sent[t][i].key /\ cachedAt \in 1 .. sent[t][i].of =>
      /\ i > 2 /\ sent[t][i - 1].part = "pps" /\ sent[t][i - 2].part = "sps"
      /\ sent[t][i - 1].of = sent[t][i].of /\ sent[t][i - 2].of = sent[t][i].of

PusherInv ==
  PusherTypes /\ Honest /\ Preceded /\ SentBefore /\ Numbered /\ Introduced

Bumped(n) == (n + 1) % 65536
LEMMA Wraps ==
  /\ Wrapped(0) = 0
  /\ \A n \in Nat : Wrapped(n) \in Nat /\ Bumped(n) \in Nat /\ Bumped(Wrapped(n)) = Wrapped(n + 1)
  BY DEF Wrapped, Bumped

LEMMA InitPusher == PusherInit => PusherInv
<1> SUFFICES ASSUME PusherInit PROVE PusherInv
  OBVIOUS
<1>1. /\ status = "idle" /\ paused = FALSE
      /\ loop = "none" /\ todo = <<>> /\ taken = 0 /\ cachedAt = 0
      /\ sequences = [t \in Tracks |-> 0] /\ sent = [t \in Tracks |-> <<>>]
  BY DEF PusherInit
<1> HIDE DEF PusherInit
<1>2. \A t \in Tracks : sent[t] = <<>> /\ Len(sent[t]) = 0 /\ sequences[t] = 0
  BY <1>1
<1>3. PusherTypes
  <2>1. sent \in [Tracks -> Seq(WireUnits)] /\ sequences \in [Tracks -> Nat]
    <3>1. <<>> \in Seq(WireUnits)
      OBVIOUS
    <3> QED
      BY <1>1, <3>1
  <2>2. todo \in Seq(Offered) /\ Len(todo) = 0
    BY <1>1
  <2>3. taken = 0 /\ cachedAt = 0 /\ loop = "none"
    BY <1>1
  <2>4. ~Sending /\ loop # "look"
    BY <2>3 DEF Sending
  <2> QED
    BY <2>1, <2>2, <2>3, <2>4 DEF PusherTypes
<1>4. Preceded
  BY <1>1 DEF Preceded
<1>5. Honest
  BY <1>1 DEF Honest
<1>6. SentBefore /\ Numbered /\ Introduced
  <2>1. \A t \in Tracks : 1 .. Len(sent[t]) = {} /\ sequences[t] = Wrapped(Len(sent[t]))
    <3> TAKE t \in Tracks
    <3>1. Len(sent[t]) = 0 /\ sequences[t] = 0 /\ Wrapped(0) = 0
      BY <1>2, Wraps
    <3>2. Wrapped(Len(sent[t])) = 0
      BY <3>1
    <3> QED
      BY <3>1, <3>2
  <2> QED
    BY <2>1 DEF SentBefore, Numbered, Introduced
<1> QED
  BY <1>3, <1>4, <1>5, <1>6 DEF PusherInv

\* Steps that write nothing and fill no cache: they move on in the batch, or beside it.
Aside ==
  /\ UNCHANGED <<sequences, cachedAt, sent>>
  /\ \/ UNCHANGED <<loop, todo, taken>>
     \/ /\ loop' \in {"none", "recv", "look", "ended"}
        /\ loop' = "look" => todo' # <<>>
        /\ taken' \in Nat /\ todo' \in Seq(Offered) /\ Len(todo') <= taken'
        /\ taken' - Len(todo') >= taken - Len(todo)
        /\ Sending => taken' - Len(todo') > taken - Len(todo)

LEMMA PusherIdles == PusherInv /\ Aside /\ Honest' => PusherInv'
<1> SUFFICES ASSUME PusherInv, Aside, Honest' PROVE PusherInv'
  OBVIOUS
<1>1. PusherTypes'
  BY DEF PusherInv, PusherTypes, Sending, Aside
<1>2. Preceded'
  <2>1. CASE UNCHANGED <<loop, todo, taken>>
    BY <2>1 DEF PusherInv, Preceded, FrameNumber, Aside
  <2>2. CASE loop' \in {"none", "recv", "look", "ended"}
    <3>1. loop' # "pps" /\ loop' # "frame"
      BY <2>2
    <3> QED
      BY <3>1 DEF Preceded
  <2> QED
    BY <2>1, <2>2 DEF Aside
<1>3. Numbered' /\ Introduced'
  BY ZenonT(60) DEF PusherInv, Numbered, Introduced, Aside
<1>4. SentBefore'
  <2> SUFFICES ASSUME NEW t \in Tracks, NEW i \in 1 .. Len(sent[t])
               PROVE  sent[t][i].of <= IF Sending' THEN FrameNumber' ELSE Passed'
    BY DEF SentBefore, Aside
  <2>1. sent[t][i].of <= IF Sending THEN FrameNumber ELSE Passed
    BY DEF PusherInv, SentBefore
  <2>2. sent[t][i].of \in Nat
    <3>1. sent[t] \in Seq(WireUnits)
      BY DEF PusherInv, PusherTypes
    <3>2. sent[t][i] \in WireUnits
      BY <3>1
    <3> QED
      BY <3>2 DEF WireUnits
  <2>3. /\ Passed \in Int /\ FrameNumber = Passed + 1
        /\ Passed' = taken' - Len(todo') /\ Passed = taken - Len(todo)
        /\ taken' \in Nat /\ todo' \in Seq(Offered)
    BY DEF PusherInv, PusherTypes, Passed, FrameNumber, Aside
  <2>4. Passed' \in Int /\ FrameNumber' = Passed' + 1
    BY <2>3 DEF Passed, FrameNumber
  <2>5. CASE UNCHANGED <<loop, todo, taken>>
    BY <2>1, <2>5 DEF Sending, Passed, FrameNumber
  <2>6. CASE ~UNCHANGED <<loop, todo, taken>>
    <3>1. ~Sending'
      BY <2>6 DEF Sending, Aside
    <3>2. Passed' >= Passed /\ (Sending => Passed' > Passed)
      BY <2>3, <2>6 DEF Aside
    <3> QED
      BY SMTT(30), <2>1, <2>2, <2>3, <2>4, <3>1, <3>2
  <2> QED
    BY <2>5, <2>6
<1> QED
  BY <1>1, <1>2, <1>3, <1>4 DEF PusherInv

\* Looking at a frame puts it aside, or makes ready to send it.
LEMMA LookKeeps == PusherInv /\ Look => PusherInv'
<1> SUFFICES ASSUME PusherInv, Look PROVE PusherInv'
  OBVIOUS
<1> DEFINE f == Head(todo)
<1>1. /\ loop = "look" /\ todo # <<>> /\ todo \in Seq(Offered) /\ taken \in Nat
      /\ cachedAt \in Nat /\ Len(todo) <= taken /\ ~Sending
      /\ UNCHANGED <<taken, sequences, sent>>
  BY DEF Look, PusherInv, PusherTypes, Sending
<1>2. /\ Tail(todo) \in Seq(Offered) /\ Len(Tail(todo)) = Len(todo) - 1
      /\ Len(todo) \in Nat /\ Len(todo) > 0 /\ f \in Offered
  <2> HIDE DEF Offered
  <2> QED
    BY <1>1
<1>3. Honest'
  BY DEF Look, PusherInv, Honest
<1>4. CASE Next_Frame(Tail(todo)) /\ UNCHANGED cachedAt
  <2>1. Aside
    <3>1. todo' = Tail(todo) /\ loop' \in {"recv", "look"} /\ (loop' = "look" => todo' # <<>>)
      BY <1>4 DEF Next_Frame
    <3>2. /\ taken' \in Nat /\ todo' \in Seq(Offered) /\ Len(todo') <= taken'
          /\ taken' - Len(todo') >= taken - Len(todo)
      <4> HIDE DEF Offered
      <4> QED
        BY <1>1, <1>2, <3>1
    <3>3. UNCHANGED <<sequences, cachedAt, sent>> /\ loop' \in {"none", "recv", "look", "ended"}
      BY <1>1, <1>4, <3>1
    <3> QED
      BY <1>1, <3>1, <3>2, <3>3 DEF Aside
  <2> QED
    BY <1>3, <2>1, PusherIdles
<1>5. CASE /\ f.track \in Tracks /\ UNCHANGED todo
           /\ cachedAt' = IF f.bears /\ cachedAt = 0 THEN FrameNumber ELSE cachedAt
           /\ loop' = IF f.key /\ cachedAt' # 0 THEN "sps" ELSE "frame"
  <2>1. /\ FrameNumber' = FrameNumber /\ FrameNumber = Passed + 1 /\ FrameNumber \in Nat \ {0}
        /\ Passed \in Nat
    <3>1. UNCHANGED todo
      BY <1>5
    <3>2. FrameNumber' = FrameNumber
      BY <1>1, <3>1 DEF FrameNumber
    <3>3. taken \in Nat /\ Len(todo) \in Nat /\ Len(todo) <= taken
      BY <1>1, <1>2
    <3>4. FrameNumber = Passed + 1 /\ FrameNumber \in Nat \ {0} /\ Passed \in Nat
      BY <3>3 DEF FrameNumber, Passed
    <3> QED
      BY <3>2, <3>4
  <2>2. cachedAt' \in {cachedAt, FrameNumber} /\ (cachedAt # 0 => cachedAt' = cachedAt)
    BY <1>5
  <2>3. cachedAt' \in Nat
    BY <1>1, <2>1, <2>2
  <2>4. loop' \in {"sps", "frame"} /\ Sending'
    BY <1>5 DEF Sending
  <2>5. PusherTypes'
    <3> HIDE DEF Offered, WireUnits
    <3>1. sent' \in [Tracks -> Seq(WireUnits)] /\ sequences' \in [Tracks -> Nat]
      BY <1>1 DEF PusherInv, PusherTypes
    <3> QED
      BY <1>1, <1>5, <2>3, <2>4, <3>1 DEF PusherTypes
  <2>6. Preceded'
    <3>1. loop' # "pps"
      BY <2>4
    <3>2. ~(loop' = "frame" /\ Head(todo').key /\ cachedAt' # 0)
      BY <1>5
    <3> QED
      BY <3>1, <3>2 DEF Preceded
  <2>7. Numbered'
    BY <1>1 DEF PusherInv, Numbered
  <2>8. ASSUME NEW t \in Tracks, NEW i \in 1 .. Len(sent[t])
        PROVE  sent[t][i].of \in Nat /\ sent[t][i].of <= Passed
    <3>1. sent[t][i] \in WireUnits
      <4>1. sent[t] \in Seq(WireUnits)
        BY DEF PusherInv, PusherTypes
      <4> QED
        BY <4>1
    <3> QED
      BY <1>1, <3>1 DEF PusherInv, SentBefore, WireUnits
  <2>9. SentBefore'
    <3> SUFFICES ASSUME NEW t \in Tracks, NEW i \in 1 .. Len(sent[t])
                 PROVE  sent[t][i].of <= FrameNumber
      BY <1>1, <2>1, <2>4 DEF SentBefore
    <3> QED
      BY <2>1, <2>8
  <2>10. Introduced'
    <3> SUFFICES ASSUME NEW t \in Tracks, NEW i \in 1 .. Len(sent[t]),
                        sent[t][i].part = "frame", sent[t][i].key,
                        cachedAt' \in 1 .. sent[t][i].of
                 PROVE  /\ i > 2 /\ sent[t][i - 1].part = "pps" /\ sent[t][i - 2].part = "sps"
                        /\ sent[t][i - 1].of = sent[t][i].of /\ sent[t][i - 2].of = sent[t][i].of
      BY <1>1 DEF Introduced
    <3>1. sent[t][i].of \in Nat /\ sent[t][i].of <= Passed
      BY <2>8
    <3>2. cachedAt' # FrameNumber
      BY <2>1, <3>1
    <3>3. cachedAt \in 1 .. sent[t][i].of
      BY <2>2, <3>2
    <3> QED
      BY <3>3 DEF PusherInv, Introduced
  <2> QED
    BY <1>3, <2>5, <2>6, <2>7, <2>9, <2>10 DEF PusherInv
<1> QED
  BY <1>4, <1>5 DEF Look

\* What a write adds to the wire, and to which track.
Unit == [part |-> loop, seq |-> sequences[Head(todo).track], of |-> FrameNumber,
         key |-> Head(todo).key]
Grown(t) == t = Head(todo).track

LEMMA WriteAppends ==
  ASSUME PusherInv, Written
  PROVE  /\ Unit \in WireUnits /\ Head(todo).track \in Tracks
         /\ sent' \in [Tracks -> Seq(WireUnits)] /\ sequences' \in [Tracks -> Nat]
         /\ \A t \in Tracks :
              /\ Len(sent[t]) \in Nat
              /\ Grown(t) => Len(sent'[t]) = Len(sent[t]) + 1
              /\ ~Grown(t) => Len(sent'[t]) = Len(sent[t])
              /\ \A i \in 1 .. Len(sent[t]) : sent'[t][i] = sent[t][i]
              /\ Grown(t) => sent'[t][Len(sent[t]) + 1] = Unit
              /\ Grown(t) => sequences'[t] = Bumped(sequences[t])
              /\ ~Grown(t) => sequences'[t] = sequences[t]
<1> DEFINE f == Head(todo)
<1>1. /\ loop \in {"sps", "pps", "frame"} /\ todo # <<>> /\ todo \in Seq(Offered)
      /\ taken \in Nat /\ Len(todo) <= taken /\ f.track \in Tracks
      /\ sent \in [Tracks -> Seq(WireUnits)] /\ sequences \in [Tracks -> Nat]
  BY DEF Written, PusherInv, PusherTypes, Sending
<1>2. f \in Offered /\ Len(todo) \in Nat /\ Len(todo) > 0
  <2> HIDE DEF Offered
  <2> QED
    BY <1>1
<1>3. FrameNumber \in Nat
  <2>1. taken \in Nat /\ Len(todo) \in Nat /\ Len(todo) <= taken
    BY <1>1, <1>2
  <2> QED
    BY <2>1 DEF FrameNumber
<1>4. f.key \in BOOLEAN
  <2>1. CASE f \in [track : {0}, key : BOOLEAN, bears : {FALSE}]
    BY <2>1
  <2>2. CASE f = [track |-> 0, key |-> TRUE, bears |-> TRUE]
    <3>1. f.key = TRUE
      BY <2>2
    <3> QED
      BY <3>1
  <2>3. CASE f \in [track : (Tracks \ {0}) \cup {99}, key : {FALSE}, bears : {FALSE}]
    <3>1. f.key \in {FALSE}
      BY <2>3
    <3> QED
      BY <3>1
  <2> HIDE DEF f
  <2> QED
    BY <1>2, <2>1, <2>2, <2>3 DEF Offered
<1>5. sequences[f.track] \in Nat
  BY <1>1
<1>6. Unit \in WireUnits
  BY <1>1, <1>3, <1>4, <1>5 DEF Unit, WireUnits
<1>7. /\ sent' = [sent EXCEPT ![f.track] = Append(@, Unit)]
      /\ sequences' = [sequences EXCEPT ![f.track] = Bumped(@)]
  BY DEF Written, Unit, Bumped
<1> HIDE DEF WireUnits, Unit, Offered, f
<1>8. Append(sent[f.track], Unit) \in Seq(WireUnits)
  BY <1>1, <1>6
<1>9. sent' \in [Tracks -> Seq(WireUnits)]
  BY <1>1, <1>7, <1>8
<1>10. \A n \in Nat : Bumped(n) \in Nat
  BY Wraps
<1>11. sequences' \in [Tracks -> Nat]
  BY <1>1, <1>5, <1>7, <1>10
<1>12. ASSUME NEW t \in Tracks
       PROVE  /\ Len(sent[t]) \in Nat
              /\ Grown(t) => Len(sent'[t]) = Len(sent[t]) + 1
              /\ ~Grown(t) => Len(sent'[t]) = Len(sent[t])
              /\ \A i \in 1 .. Len(sent[t]) : sent'[t][i] = sent[t][i]
              /\ Grown(t) => sent'[t][Len(sent[t]) + 1] = Unit
              /\ Grown(t) => sequences'[t] = Bumped(sequences[t])
              /\ ~Grown(t) => sequences'[t] = sequences[t]
  <2>1. sent[t] \in Seq(WireUnits)
    BY <1>1
  <2>2. Grown(t) <=> t = f.track
    BY DEF Grown, f
  <2>3. CASE t = f.track
    <3>1. /\ sent'[t] = Append(sent[t], Unit)
          /\ sequences'[t] = Bumped(sequences[t])
      BY <1>1, <1>7, <2>3
    <3> QED
      BY <1>6, <2>1, <2>2, <2>3, <3>1
  <2>4. CASE t # f.track
    <3>1. sent'[t] = sent[t] /\ sequences'[t] = sequences[t] /\ ~Grown(t)
      BY <1>1, <1>7, <2>2, <2>4
    <3>2. Len(sent[t]) \in Nat
      BY <2>1
    <3> QED
      BY <3>1, <3>2
  <2> QED
    BY <2>3, <2>4
<1> QED
  BY <1>1, <1>6, <1>9, <1>11, <1>12 DEF f

\* Where the loop is after a write: at the frame's next packet, or past the frame.
LEMMA WriteMoves ==
  ASSUME PusherInv, Written
  PROVE  /\ Passed \in Nat /\ FrameNumber = Passed + 1
         /\ loop = "sps" => loop' = "pps" /\ UNCHANGED todo
         /\ loop = "pps" => loop' = "frame" /\ UNCHANGED todo
         /\ loop = "frame" =>
              loop' \in {"recv", "look"} /\ (loop' = "look" => todo' # <<>>) /\ todo' = Tail(todo)
         /\ loop \in {"sps", "pps", "frame"} /\ loop' \in {"pps", "frame", "recv", "look"}
         /\ todo # <<>> /\ todo' \in Seq(Offered) /\ Len(todo') <= taken' /\ UNCHANGED <<taken, cachedAt>>
         /\ UNCHANGED todo => FrameNumber' = FrameNumber
         /\ todo' = Tail(todo) => Passed' = FrameNumber
<1>1. /\ loop \in {"sps", "pps", "frame"} /\ todo # <<>> /\ todo \in Seq(Offered)
      /\ taken \in Nat /\ Len(todo) <= taken
  BY DEF Written, PusherInv, PusherTypes, Sending
<1>2. UNCHANGED <<taken, cachedAt>>
  BY DEF Written
<1>3. /\ loop = "sps" => loop' = "pps" /\ UNCHANGED todo
      /\ loop = "pps" => loop' = "frame" /\ UNCHANGED todo
      /\ loop = "frame" =>
           loop' \in {"recv", "look"} /\ (loop' = "look" => todo' # <<>>) /\ todo' = Tail(todo)
  BY <1>1 DEF Written, Next_Frame
<1> HIDE DEF Offered, Written
<1>4. /\ Tail(todo) \in Seq(Offered) /\ Len(Tail(todo)) = Len(todo) - 1
      /\ Len(todo) \in Nat /\ Len(todo) > 0
  BY <1>1
<1>5. todo' \in {todo, Tail(todo)} /\ loop' \in {"pps", "frame", "recv", "look"}
  BY <1>1, <1>3
<1>6. todo' \in Seq(Offered) /\ Len(todo') <= taken'
  BY <1>1, <1>2, <1>4, <1>5
<1>7. Passed \in Nat /\ FrameNumber = Passed + 1
  BY <1>1, <1>4 DEF Passed, FrameNumber
<1>8. UNCHANGED todo => FrameNumber' = FrameNumber
  BY <1>2 DEF FrameNumber
<1>9. todo' = Tail(todo) => Passed' = FrameNumber
  <2> SUFFICES ASSUME todo' = Tail(todo) PROVE Passed' = FrameNumber
    OBVIOUS
  <2>1. Passed' = taken - Len(Tail(todo))
    BY <1>2 DEF Passed
  <2> QED
    BY <1>1, <1>4, <2>1 DEF FrameNumber
<1> QED
  BY <1>1, <1>2, <1>3, <1>5, <1>6, <1>7, <1>8, <1>9

LEMMA WrittenKeeps == PusherInv /\ Written => PusherInv'
<1> SUFFICES ASSUME PusherInv, Written PROVE PusherInv'
  OBVIOUS
<1> DEFINE tr == Head(todo).track
           N == Len(sent[tr])
<1>1. /\ Unit \in WireUnits /\ tr \in Tracks
      /\ sent' \in [Tracks -> Seq(WireUnits)] /\ sequences' \in [Tracks -> Nat]
  BY WriteAppends
<1>2. ASSUME NEW t \in Tracks
      PROVE  /\ Len(sent[t]) \in Nat
             /\ Grown(t) => Len(sent'[t]) = Len(sent[t]) + 1
             /\ ~Grown(t) => Len(sent'[t]) = Len(sent[t])
             /\ \A i \in 1 .. Len(sent[t]) : sent'[t][i] = sent[t][i]
             /\ Grown(t) => sent'[t][Len(sent[t]) + 1] = Unit
             /\ Grown(t) => sequences'[t] = Bumped(sequences[t])
             /\ ~Grown(t) => sequences'[t] = sequences[t]
  BY WriteAppends
<1>3. Unit.part = loop /\ Unit.seq = sequences[tr] /\ Unit.of = FrameNumber /\ Unit.key = Head(todo).key
  BY DEF Unit
<1>4. \A t : Grown(t) <=> t = tr
  BY DEF Grown
<1>5. ASSUME NEW t \in Tracks, NEW i \in 1 .. Len(sent'[t])
      PROVE  \/ i \in 1 .. Len(sent[t]) /\ sent'[t][i] = sent[t][i]
             \/ t = tr /\ i = N + 1 /\ sent'[t][i] = Unit
  <2>1. CASE Grown(t)
    <3>1. t = tr /\ Len(sent'[t]) = N + 1 /\ N \in Nat /\ sent'[t][N + 1] = Unit
      BY <1>2, <1>4, <2>1
    <3>2. i \in 1 .. N \/ i = N + 1
      BY <3>1
    <3> QED
      BY <1>2, <3>1, <3>2
  <2>2. CASE ~Grown(t)
    <3>1. Len(sent'[t]) = Len(sent[t])
      BY <1>2, <2>2
    <3> QED
      BY <1>2, <3>1
  <2> QED
    BY <2>1, <2>2
<1>6. N \in Nat /\ Len(sent'[tr]) = N + 1 /\ sent'[tr][N + 1] = Unit
  BY <1>1, <1>2, <1>4
<1>7. Honest'
  BY DEF Written, PusherInv, Honest
<1>8. PusherTypes'
  <2>1. taken \in Nat /\ cachedAt \in Nat
    BY DEF PusherInv, PusherTypes
  <2>2. /\ loop' \in {"none", "recv", "look", "sps", "pps", "frame", "ended"}
        /\ todo' \in Seq(Offered) /\ Len(todo') <= taken' /\ taken' \in Nat /\ cachedAt' \in Nat
    BY <2>1, WriteMoves
  <2>3. loop' = "look" \/ Sending' => todo' # <<>>
    BY WriteMoves DEF Sending
  <2>4. Sending' => UNCHANGED todo
    BY WriteMoves DEF Sending
  <2>5. Sending' => Head(todo').track \in Tracks
    BY <1>1, <2>4
  <2> QED
    BY <1>1, <2>2, <2>3, <2>5 DEF PusherTypes
<1>9. Preceded'
  <2>1. loop' = "pps" => loop = "sps"
    BY WriteMoves
  <2>2. loop' = "frame" => loop = "pps"
    BY WriteMoves
  <2>3. CASE loop' = "pps"
    <3>1. loop = "sps" /\ UNCHANGED todo /\ FrameNumber' = FrameNumber
      BY <2>1, <2>3, WriteMoves
    <3>2. Head(todo').track = tr
      BY <3>1
    <3>3. Unit.part = "sps" /\ Unit.of = FrameNumber'
      BY <1>3, <3>1
    <3> HIDE DEF tr, N
    <3> QED
      BY <1>6, <2>3, <3>2, <3>3 DEF Preceded
  <2>4. CASE loop' = "frame"
    <3>1. loop = "pps" /\ UNCHANGED todo /\ FrameNumber' = FrameNumber
      BY <2>2, <2>4, WriteMoves
    <3>2. Head(todo').track = tr
      BY <3>1
    <3>3. N > 0 /\ sent[tr][N].part = "sps" /\ sent[tr][N].of = FrameNumber
      BY <3>1 DEF PusherInv, Preceded
    <3>4. sent'[tr][N] = sent[tr][N]
      <4>1. N \in 1 .. N
        BY <1>6, <3>3
      <4> QED
        BY <1>1, <1>2, <4>1
    <3>5. Unit.part = "pps" /\ Unit.of = FrameNumber
      BY <1>3, <3>1
    <3> HIDE DEF tr, N
    <3>6. (N + 1) - 1 = N /\ N + 1 > 1
      BY <1>6, <3>3
    <3> QED
      BY <1>6, <2>4, <3>1, <3>2, <3>3, <3>4, <3>5, <3>6 DEF Preceded
  <2>5. CASE loop' \notin {"pps", "frame"}
    BY <2>5 DEF Preceded
  <2> QED
    BY <2>3, <2>4, <2>5
<1>10. SentBefore'
  <2> SUFFICES ASSUME NEW t \in Tracks, NEW i \in 1 .. Len(sent'[t])
               PROVE  sent'[t][i].of <= IF Sending' THEN FrameNumber' ELSE Passed'
    BY DEF SentBefore
  <2>1. (IF Sending' THEN FrameNumber' ELSE Passed') = FrameNumber
    BY WriteMoves DEF Sending
  <2>2. FrameNumber \in Nat
    BY WriteMoves
  <2>3. CASE i \in 1 .. Len(sent[t]) /\ sent'[t][i] = sent[t][i]
    <3>1. Sending
      BY WriteMoves DEF Sending
    <3> QED
      BY <2>1, <2>3, <3>1 DEF PusherInv, SentBefore
  <2>4. CASE sent'[t][i] = Unit
    BY <1>3, <2>1, <2>2, <2>4
  <2> QED
    BY <1>5, <2>3, <2>4
<1>11. Numbered'
  <2>1. ASSUME NEW t \in Tracks
        PROVE  sequences'[t] = Wrapped(Len(sent'[t]))
    <3>1. sequences[t] = Wrapped(Len(sent[t]))
      BY DEF PusherInv, Numbered
    <3>2. CASE Grown(t)
      BY <1>2, <3>1, <3>2, Wraps
    <3>3. CASE ~Grown(t)
      BY <1>2, <3>1, <3>3
    <3> QED
      BY <3>2, <3>3
  <2>2. ASSUME NEW t \in Tracks, NEW i \in 1 .. Len(sent'[t])
        PROVE  sent'[t][i].seq = Wrapped(i - 1)
    <3>1. CASE i \in 1 .. Len(sent[t]) /\ sent'[t][i] = sent[t][i]
      BY <3>1 DEF PusherInv, Numbered
    <3>2. CASE t = tr /\ i = N + 1 /\ sent'[t][i] = Unit
      <4>1. Unit.seq = Wrapped(N)
        BY <1>1, <1>3 DEF PusherInv, Numbered
      <4>2. (N + 1) - 1 = N
        BY <1>6
      <4> QED
        BY <3>2, <4>1, <4>2
    <3> QED
      BY <1>5, <3>1, <3>2
  <2> QED
    BY <2>1, <2>2 DEF Numbered
<1>12. Introduced'
  <2> SUFFICES ASSUME NEW t \in Tracks, NEW i \in 1 .. Len(sent'[t]),
                      sent'[t][i].part = "frame", sent'[t][i].key,
                      cachedAt \in 1 .. sent'[t][i].of
               PROVE  /\ i > 2 /\ sent'[t][i - 1].part = "pps" /\ sent'[t][i - 2].part = "sps"
                      /\ sent'[t][i - 1].of = sent'[t][i].of /\ sent'[t][i - 2].of = sent'[t][i].of
    BY WriteMoves DEF Introduced
  <2>1. CASE i \in 1 .. Len(sent[t]) /\ sent'[t][i] = sent[t][i]
    <3>1. /\ i > 2 /\ sent[t][i - 1].part = "pps" /\ sent[t][i - 2].part = "sps"
          /\ sent[t][i - 1].of = sent[t][i].of /\ sent[t][i - 2].of = sent[t][i].of
      BY <2>1 DEF PusherInv, Introduced
    <3>2. i - 1 \in 1 .. Len(sent[t]) /\ i - 2 \in 1 .. Len(sent[t])
      BY <1>2, <2>1, <3>1
    <3>3. sent'[t][i - 1] = sent[t][i - 1] /\ sent'[t][i - 2] = sent[t][i - 2]
      BY <1>2, <3>2
    <3> QED
      BY <2>1, <3>1, <3>3
  <2>2. CASE t = tr /\ i = N + 1 /\ sent'[t][i] = Unit
    <3>1. loop = "frame" /\ Head(todo).key
      BY <1>3, <2>2
    <3>2. cachedAt # 0
      OBVIOUS
    <3>3. /\ N > 1 /\ sent[tr][N].part = "pps" /\ sent[tr][N - 1].part = "sps"
          /\ sent[tr][N].of = FrameNumber /\ sent[tr][N - 1].of = FrameNumber
      BY <3>1, <3>2 DEF PusherInv, Preceded
    <3>4. N \in 1 .. N /\ N - 1 \in 1 .. N /\ i - 1 = N /\ i - 2 = N - 1 /\ i > 2
      BY <1>6, <2>2, <3>3
    <3>5. sent'[tr][N] = sent[tr][N] /\ sent'[tr][N - 1] = sent[tr][N - 1]
      BY <1>1, <1>2, <3>4
    <3> HIDE DEF tr, N
    <3> QED
      BY <1>3, <2>2, <3>3, <3>4, <3>5
  <2> QED
    BY <1>5, <2>1, <2>2
<1> QED
  BY <1>7, <1>8, <1>9, <1>10, <1>11, <1>12 DEF PusherInv

\* The pusher's other steps.
LEMMA BatchKeeps == PusherInv /\ recv_batch => PusherInv'
<1> SUFFICES ASSUME PusherInv, recv_batch PROVE PusherInv'
  OBVIOUS
<1>1. Honest'
  BY DEF recv_batch, PusherInv, Honest
<1>2. Aside
  <2>1. /\ loop = "recv" /\ loop' = "look" /\ UNCHANGED <<sequences, cachedAt, sent>>
        /\ todo \in Seq(Offered) /\ taken \in Nat /\ Len(todo) <= taken /\ ~Sending
    BY DEF recv_batch, PusherInv, PusherTypes, Sending
  <2>2. PICK n \in 1 .. MaxBatchLen : taken' = taken + n /\ todo' \in [1 .. n -> Offered]
    BY DEF recv_batch
  <2> HIDE DEF Offered
  <2>3. n \in Nat \ {0}
    BY <2>2, PusherAssumption
  <2>4. todo' \in Seq(Offered) /\ Len(todo') = n /\ todo' # <<>>
    BY <2>2, <2>3
  <2>5. Len(todo) \in Nat
    BY <2>1
  <2>6. taken' \in Nat /\ Len(todo') <= taken' /\ taken' - Len(todo') >= taken - Len(todo)
    BY <2>1, <2>2, <2>3, <2>4, <2>5
  <2> QED
    BY <2>1, <2>4, <2>6 DEF Aside
<1> QED
  BY <1>1, <1>2, PusherIdles

\* A batch that is given up: all of it counts as done with.
LEMMA GiveUpKeeps ==
  ASSUME PusherInv, todo' = <<>>, loop' \in {"recv", "ended"}, Honest',
         UNCHANGED <<taken, sequences, cachedAt, sent>>
  PROVE  PusherInv'
<1>1. /\ todo \in Seq(Offered) /\ taken \in Nat /\ Len(todo) <= taken
      /\ (Sending => todo # <<>>)
  BY DEF PusherInv, PusherTypes
<1> HIDE DEF Offered
<1>2. todo' \in Seq(Offered) /\ Len(todo') = 0 /\ Len(todo) \in Nat /\ (Sending => Len(todo) > 0)
  BY <1>1
<1>3. taken' \in Nat /\ taken' = taken
  BY <1>1
<1>4. Aside
  BY <1>1, <1>2, <1>3 DEF Aside
<1> QED
  BY <1>4, PusherIdles

LEMMA NextPusher == PusherInv /\ [PusherNext]_pusherVars => PusherInv'
<1> SUFFICES ASSUME PusherInv, [PusherNext]_pusherVars PROVE PusherInv'
  OBVIOUS
<1>1. Honest
  BY DEF PusherInv
<1>2. CASE UNCHANGED pusherVars
  BY <1>1, <1>2, PusherIdles DEF pusherVars, Aside, Honest
<1>3. CASE StartPusher
  BY <1>1, <1>3, PusherIdles DEF StartPusher, LoopUnchanged, Aside, Honest
<1>4. ASSUME UNCHANGED <<todo, taken, sequences, cachedAt, sent>>,
             loop = "none", loop' \in {"none", "recv", "ended"}, Honest'
      PROVE  PusherInv'
  <2>1. /\ ~Sending /\ loop' \in {"none", "recv", "look", "ended"} /\ loop' # "look"
        /\ todo \in Seq(Offered) /\ taken \in Nat /\ Len(todo) <= taken
    BY <1>4 DEF PusherInv, PusherTypes, Sending
  <2>2. taken' \in Nat /\ todo' \in Seq(Offered) /\ Len(todo') <= taken'
    BY <1>4, <2>1
  <2>3. taken' - Len(todo') >= taken - Len(todo)
    <3> HIDE DEF Offered
    <3>1. Len(todo) \in Nat
      BY <2>1
    <3> QED
      BY <1>4, <2>1, <3>1
  <2>4. Aside
    BY <1>4, <2>1, <2>2, <2>3 DEF Aside
  <2> QED
    BY <1>4, <2>4, PusherIdles
<1>5. CASE Answered
  <2>1. Honest' /\ loop' \in {"none", "recv", "ended"}
    BY <1>1, <1>5 DEF Answered, Honest
  <2> QED
    BY <1>4, <1>5, <2>1 DEF Answered, LoopUnchanged
<1>6. CASE Refused
  <2>1. Honest' /\ loop' \in {"none", "recv", "ended"}
    BY <1>1, <1>6 DEF Refused, Honest
  <2> QED
    BY <1>4, <1>6, <2>1 DEF Refused, LoopUnchanged
<1>7. CASE PausePusher
  BY <1>1, <1>7, PusherIdles DEF PausePusher, LoopUnchanged, Aside, Honest
<1>8. CASE ResumePusher
  BY <1>1, <1>8, PusherIdles DEF ResumePusher, LoopUnchanged, Aside, Honest
<1>9. CASE StopPusher
  BY <1>1, <1>9, PusherIdles DEF StopPusher, LoopUnchanged, Aside, Honest
<1>10. CASE recv_batch
  BY <1>10, BatchKeeps
<1>11. CASE Look
  BY <1>11, LookKeeps
<1>12. CASE Written
  BY <1>12, WrittenKeeps
<1>13. CASE Failed
  <2>1. Honest'
    BY <1>1, <1>13 DEF Failed, Honest
  <2> QED
    BY <1>13, <2>1, GiveUpKeeps DEF Failed, Next_Frame
<1>14. CASE Closed
  <2>1. Honest'
    BY <1>1, <1>14 DEF Closed, Honest
  <2> QED
    BY <1>14, <2>1, GiveUpKeeps DEF Closed
<1> QED
  BY <1>2, <1>3, <1>5, <1>6, <1>7, <1>8, <1>9, <1>10, <1>11, <1>12, <1>13, <1>14 DEF PusherNext

LEMMA PusherOnWire == PusherInv => PusherWire
<1> SUFFICES ASSUME PusherInv PROVE PusherWire
  OBVIOUS
<1>1. ASSUME NEW t \in Tracks, NEW i \in 1 .. Len(sent[t])
      PROVE  sent[t][i].seq = (i - 1) % 65536
  BY DEF PusherInv, Numbered, Wrapped
<1>2. status = "paused" => paused
  BY DEF PusherInv, Honest
<1>3. Introduced
  BY DEF PusherInv
<1>4. ASSUME NEW t \in Tracks, NEW i \in 1 .. Len(sent[t])
      PROVE  /\ sent[t][i].seq = (i - 1) % 65536
             /\ sent[t][i].part = "frame" /\ sent[t][i].key /\ cachedAt \in 1 .. sent[t][i].of =>
                  /\ i > 2 /\ sent[t][i - 1].part = "pps" /\ sent[t][i - 2].part = "sps"
                  /\ sent[t][i - 1].of = sent[t][i].of /\ sent[t][i - 2].of = sent[t][i].of
  <2>1. sent[t][i].seq = (i - 1) % 65536
    BY <1>1
  <2>2. sent[t][i].part = "frame" /\ sent[t][i].key /\ cachedAt \in 1 .. sent[t][i].of =>
          /\ i > 2 /\ sent[t][i - 1].part = "pps" /\ sent[t][i - 2].part = "sps"
          /\ sent[t][i - 1].of = sent[t][i].of /\ sent[t][i - 2].of = sent[t][i].of
    BY <1>3 DEF Introduced
  <2> QED
    BY <2>1, <2>2
<1> QED
  BY <1>2, <1>4 DEF PusherWire

\* What the theorems on paths rest on: a step of the server is a step of one path.
LEMMA PathsKeepPusher == PusherInv /\ [PathsNext]_pathVars => PusherInv'
<1>1. PathsNext => [PusherNext]_pusherVars
  BY DEF PathsNext
<1>2. UNCHANGED pathVars => UNCHANGED pusherVars
  BY DEF pathVars
<1> QED
  BY <1>1, <1>2, NextPusher

----------------------------------------------------------------------------
\* The clock of a recorded file.
ClockTypes ==
  /\ raw \in [TrackKinds -> Nat \cup {NoTs}] /\ emitted \in Nat
  /\ {ms, count, skewed, back, stalled} \subseteq [TrackKinds -> Nat]
  /\ \A k \in TrackKinds : raw[k] = NoTs => ms[k] = 0

\* The ticks that passed in steps the code trusts; what the code makes of them and of the
\* others; and what cutting that to whole milliseconds has cost track k so far.
GoneOn(k) == Elapsed(k) + back[k] - stalled[k]
MediaTime(k) == GoneOn(k) * 1000 + skewed[k] * Usual(k) * Rate(k)
Cut(k) == MediaTime(k) - ms[k] * Rate(k)
CutBounded == \A k \in TrackKinds : Cut(k) \in 0 .. count[k] * (Rate(k) - 1)

Further == IF ms["video"] >= ms["audio"] THEN ms["video"] ELSE ms["audio"]
TagsClose == Further <= emitted /\ emitted <= Further + count["video"] + count["audio"]

DriftInv == ClockTypes /\ (\A k \in TrackKinds : GoneOn(k) \in Nat) /\ CutBounded /\ TagsClose

LEMMA Quotients ==
  ASSUME NEW a \in Nat, NEW r \in Nat \ {0}
  PROVE  (a \div r) \in Nat /\ a - (a \div r) * r \in 0 .. r - 1
  OBVIOUS

LEMMA Products ==
  ASSUME NEW a \in Nat, NEW b \in Nat, NEW r \in Nat
  PROVE  (a + b) * r = a * r + b * r /\ a * r \in Nat
  OBVIOUS

LEMMA Rates ==
  ASSUME NEW k \in TrackKinds
  PROVE  Rate(k) \in Nat \ {0} /\ Usual(k) \in Nat
<1>1. 1024000 \div AudioRate \in Nat
  <2>1. AudioRate \in Nat /\ AudioRate > 0
    BY TimelineAssumption
  <2> QED
    BY SMT, <2>1
<1> QED
  BY SMT, <1>1, TimelineAssumption DEF Rate, Usual, TrackKinds

LEMMA FurtherIsMax ==
  ASSUME ClockTypes
  PROVE  Max({ms[k] : k \in TrackKinds}) = Further
<1>1. {ms[k] : k \in TrackKinds} = {ms["video"], ms["audio"]}
  BY DEF TrackKinds
<1>2. ms["video"] \in Int /\ ms["audio"] \in Int
  BY DEF ClockTypes, TrackKinds
<1>3. ASSUME NEW a \in Int, NEW b \in Int
      PROVE  Max({a, b}) = IF a >= b THEN a ELSE b
  BY DEF Max
<1> QED
  BY <1>1, <1>2, <1>3 DEF Further

\* What one frame of track k adds to its clock, and to its media.
CutBy(k, step, passed, odd) == passed * 1000 + odd * (Usual(k) * Rate(k)) - step * Rate(k)
Moves(k, ts, step, passed, odd) ==
  /\ ms' = [ms EXCEPT ![k] = @ + step] /\ GoneOn(k)' = GoneOn(k) + passed
  /\ skewed' = [skewed EXCEPT ![k] = @ + odd] /\ Ideal(k, ts) = ms[k] + step
  /\ CutBy(k, step, passed, odd) \in 0 .. Rate(k) - 1

\* A step that is not trusted is a stall or was set back: no ticks pass in it.
LEMMA TicksPass ==
  ASSUME DriftInv, NEW k \in TrackKinds, NEW ts \in Nat, map(k, ts), raw[k] = NoTs => ts = FirstTs
  PROVE  /\ {back, stalled}' \subseteq [TrackKinds -> Nat]
         /\ \A j \in TrackKinds : j # k => GoneOn(j)' = GoneOn(j)
         /\ GoneOn(k)' = GoneOn(k) + IF Trusted(k, ts) THEN ts - raw[k] ELSE 0
<1> DEFINE d == ts - raw[k]
           odd == raw[k] # NoTs /\ ~Trusted(k, ts)
<1>1. /\ raw' = [raw EXCEPT ![k] = ts]
      /\ back' = [back EXCEPT ![k] = @ + IF odd /\ d < 0 THEN -d ELSE 0]
      /\ stalled' = [stalled EXCEPT ![k] = @ + IF odd /\ d > 0 THEN d ELSE 0]
  BY DEF map
<1>2. /\ raw \in [TrackKinds -> Nat \cup {NoTs}]
      /\ back \in [TrackKinds -> Nat] /\ stalled \in [TrackKinds -> Nat]
  BY DEF DriftInv, ClockTypes
<1>3. d \in Int /\ ts # NoTs /\ FirstTs \in Int
  BY <1>2 DEF NoTs, FirstTs
<1>4. Trusted(k, ts) => raw[k] # NoTs /\ d > 0
  BY <1>2, <1>3 DEF Trusted, NoTs
<1> HIDE DEF Trusted
<1>5. \A j \in TrackKinds : j # k => raw'[j] = raw[j] /\ back'[j] = back[j] /\ stalled'[j] = stalled[j]
  BY <1>1, <1>2
<1>6. /\ raw'[k] = ts
      /\ back'[k] = back[k] + (IF odd /\ d < 0 THEN -d ELSE 0)
      /\ stalled'[k] = stalled[k] + (IF odd /\ d > 0 THEN d ELSE 0)
  BY <1>1, <1>2
<1>7. {back, stalled}' \subseteq [TrackKinds -> Nat]
  BY <1>1, <1>2, <1>3
<1>8. \A j \in TrackKinds : j # k => GoneOn(j)' = GoneOn(j)
  BY <1>5 DEF GoneOn, Elapsed
<1>9. GoneOn(k)' = (ts - FirstTs) + back'[k] - stalled'[k]
  BY <1>3, <1>6 DEF GoneOn, Elapsed
<1>10. CASE raw[k] = NoTs
  <2>1. back'[k] = back[k] /\ stalled'[k] = stalled[k] /\ ~Trusted(k, ts) /\ ts = FirstTs
    BY <1>2, <1>4, <1>6, <1>10
  <2>2. GoneOn(k) = 0 + back[k] - stalled[k]
    BY <1>10 DEF GoneOn, Elapsed
  <2>3. back[k] \in Nat /\ stalled[k] \in Nat
    BY <1>2
  <2> HIDE DEF d, odd
  <2> QED
    BY <1>3, <1>7, <1>8, <1>9, <2>1, <2>2, <2>3
<1>11. CASE raw[k] # NoTs
  <2>1. GoneOn(k) = (raw[k] - FirstTs) + back[k] - stalled[k] /\ raw[k] \in Nat
    BY <1>2, <1>11 DEF GoneOn, Elapsed
  <2>2. back[k] \in Nat /\ stalled[k] \in Nat /\ d = ts - raw[k] /\ (odd <=> ~Trusted(k, ts))
    BY <1>2, <1>11
  <2> HIDE DEF d, odd
  <2>3. CASE Trusted(k, ts)
    BY <1>3, <1>6, <1>7, <1>8, <1>9, <2>1, <2>2, <2>3
  <2>4. CASE ~Trusted(k, ts) /\ d < 0
    BY <1>3, <1>6, <1>7, <1>8, <1>9, <2>1, <2>2, <2>4
  <2>5. CASE ~Trusted(k, ts) /\ d > 0
    BY <1>3, <1>6, <1>7, <1>8, <1>9, <2>1, <2>2, <2>5
  <2>6. CASE ~Trusted(k, ts) /\ d = 0
    <3>1. ts = raw[k] /\ back'[k] = back[k] + 0 /\ stalled'[k] = stalled[k] + 0
      BY <1>6, <2>1, <2>2, <2>6
    <3>2. GoneOn(k)' = GoneOn(k) + 0
      BY <1>3, <1>9, <2>1, <2>2, <3>1
    <3> QED
      BY <1>7, <1>8, <2>6, <3>2
  <2> QED
    BY <1>3, <2>3, <2>4, <2>5, <2>6
<1> QED
  BY <1>7, <1>8, <1>10, <1>11

LEMMA StepOfTrack ==
  ASSUME DriftInv, NEW k \in TrackKinds, NEW ts \in Nat, map(k, ts), raw[k] = NoTs => ts = FirstTs
  PROVE  \E step, passed, odd \in Nat : Moves(k, ts, step, passed, odd)
<1>1. /\ ms' = [ms EXCEPT ![k] = Ideal(k, ts)]
      /\ GoneOn(k)' = GoneOn(k) + (IF Trusted(k, ts) THEN ts - raw[k] ELSE 0)
      /\ skewed' = [skewed EXCEPT ![k] = @ + IF raw[k] # NoTs /\ ~Trusted(k, ts) THEN 1 ELSE 0]
  BY TicksPass DEF map
<1>2. /\ Rate(k) \in Nat \ {0} /\ Usual(k) \in Nat /\ Usual(k) * Rate(k) \in Nat
      /\ ms[k] \in Nat /\ GoneOn(k) \in Nat /\ skewed[k] \in Nat /\ raw[k] \in Nat \cup {NoTs}
      /\ (raw[k] = NoTs => ms[k] = 0)
  <2>1. Rate(k) \in Nat \ {0} /\ Usual(k) \in Nat
    BY Rates
  <2>2. Usual(k) * Rate(k) \in Nat
    BY <2>1, Products
  <2> QED
    BY <2>1, <2>2 DEF DriftInv, ClockTypes
<1>3. CASE raw[k] = NoTs
  <2>1. ~Trusted(k, ts) /\ Ideal(k, ts) = 0 /\ ms[k] = 0
    BY <1>2, <1>3 DEF Trusted, Ideal
  <2> HIDE DEF Ideal, Trusted, Rate, Usual
  <2>2. /\ ms' = [ms EXCEPT ![k] = @ + 0] /\ GoneOn(k)' = GoneOn(k) + 0
        /\ skewed' = [skewed EXCEPT ![k] = @ + 0] /\ Ideal(k, ts) = ms[k] + 0
    BY <1>1, <1>2, <1>3, <2>1
  <2>3. CutBy(k, 0, 0, 0) \in 0 .. Rate(k) - 1
    BY <1>2 DEF CutBy
  <2>4. Moves(k, ts, 0, 0, 0)
    BY <2>2, <2>3 DEF Moves
  <2> QED
    BY <2>4
<1>4. CASE Trusted(k, ts)
  <2> DEFINE d == ts - raw[k]
             step == delta_ms(d, Rate(k))
  <2>1. d \in Nat /\ raw[k] # NoTs
    BY SMTT(30), <1>2, <1>4 DEF Trusted
  <2>2. Ideal(k, ts) = ms[k] + step
    BY <1>4, <2>1 DEF Ideal
  <2>3. step \in Nat /\ d * 1000 - step * Rate(k) \in 0 .. Rate(k) - 1
    <3>1. d * 1000 \in Nat
      BY <2>1
    <3>2. step = (d * 1000) \div Rate(k)
      BY DEF delta_ms
    <3> HIDE DEF d, step
    <3> DEFINE a == d * 1000
               r == Rate(k)
    <3>3. a \in Nat /\ r \in Nat \ {0}
      BY <1>2, <3>1
    <3> HIDE DEF a, r
    <3>4. (a \div r) \in Nat /\ a - (a \div r) * r \in 0 .. r - 1
      BY <3>3, Quotients
    <3> QED
      BY <3>2, <3>4 DEF a, r
  <2>4. /\ ms' = [ms EXCEPT ![k] = @ + step] /\ GoneOn(k)' = GoneOn(k) + d
        /\ skewed' = [skewed EXCEPT ![k] = @ + 0]
    BY <1>1, <1>4, <2>2
  <2>5. 0 * (Usual(k) * Rate(k)) = 0
    BY <1>2
  <2> HIDE DEF d, step
  <2>6. CutBy(k, step, d, 0) \in 0 .. Rate(k) - 1
    BY <1>2, <2>1, <2>3, <2>5 DEF CutBy
  <2>7. Moves(k, ts, step, d, 0)
    BY <2>2, <2>4, <2>6 DEF Moves
  <2> QED
    BY <2>1, <2>3, <2>7
<1>5. CASE raw[k] # NoTs /\ ~Trusted(k, ts)
  <2>1. Ideal(k, ts) = ms[k] + Usual(k)
    BY <1>5 DEF Ideal
  <2>2. /\ ms' = [ms EXCEPT ![k] = @ + Usual(k)] /\ GoneOn(k)' = GoneOn(k) + 0
        /\ skewed' = [skewed EXCEPT ![k] = @ + 1]
    BY <1>1, <1>5, <2>1
  <2> HIDE DEF Rate, Usual
  <2>3. CutBy(k, Usual(k), 0, 1) \in 0 .. Rate(k) - 1
    BY <1>2 DEF CutBy
  <2>4. Moves(k, ts, Usual(k), 0, 1)
    BY <2>1, <2>2, <2>3 DEF Moves
  <2> QED
    BY <1>2, <2>4
<1> QED
  BY <1>3, <1>4, <1>5

LEMMA CutsAdd ==
  ASSUME NEW ro \in Nat, NEW sk \in Nat, NEW m \in Nat, NEW p \in Nat, NEW o \in Nat, NEW s \in Nat,
         NEW u \in Nat, NEW r \in Nat \ {0}, NEW c \in Nat,
         (ro * 1000 + sk * u * r) - m * r \in 0 .. c * (r - 1),
         p * 1000 + o * (u * r) - s * r \in 0 .. r - 1
  PROVE  ((ro + p) * 1000 + (sk + o) * u * r) - (m + s) * r \in 0 .. (c + 1) * (r - 1)
<1>1. /\ (sk + o) * u = sk * u + o * u /\ o * u \in Nat /\ sk * u \in Nat
      /\ (m + s) * r = m * r + s * r /\ m * r \in Nat /\ s * r \in Nat
  BY Products
<1>2. (sk * u + o * u) * r = sk * u * r + o * u * r /\ sk * u * r \in Nat /\ o * u * r \in Nat
  BY <1>1, Products
<1>3. o * u * r = o * (u * r)
  OBVIOUS
<1>4. (c + 1) * (r - 1) = c * (r - 1) + (r - 1) /\ c * (r - 1) \in Nat
  <2>1. r - 1 \in Nat /\ 1 * (r - 1) = r - 1
    OBVIOUS
  <2> QED
    BY <2>1, Products
<1> DEFINE a == sk * u * r
           b == o * (u * r)
           d == m * r
           e == s * r
           h == c * (r - 1)
<1>5. /\ (sk + o) * u * r = a + b /\ (m + s) * r = d + e /\ (c + 1) * (r - 1) = h + (r - 1)
      /\ {a, b, d, e, h} \subseteq Nat
      /\ (ro * 1000 + a) - d \in 0 .. h /\ p * 1000 + b - e \in 0 .. r - 1
  BY <1>1, <1>2, <1>3, <1>4
<1> HIDE DEF a, b, d, e, h
<1>6. ((ro + p) * 1000 + (a + b)) - (d + e) \in 0 .. h + (r - 1)
  BY <1>5
<1> QED
  BY <1>5, <1>6

LEMMA TagKeeps ==
  ASSUME DriftInv, NEW k \in TrackKinds, NEW ts \in Nat, map(k, ts), raw[k] = NoTs => ts = FirstTs
  PROVE  DriftInv'
<1>1. PICK step, passed, odd \in Nat : Moves(k, ts, step, passed, odd)
  BY StepOfTrack
<1>2. /\ raw \in [TrackKinds -> Nat \cup {NoTs}] /\ emitted \in Nat
      /\ ms \in [TrackKinds -> Nat] /\ count \in [TrackKinds -> Nat]
      /\ (\A j \in TrackKinds : GoneOn(j) \in Nat) /\ skewed \in [TrackKinds -> Nat]
  BY DEF DriftInv, ClockTypes
<1>3. /\ raw' = [raw EXCEPT ![k] = ts] /\ count' = [count EXCEPT ![k] = @ + 1]
      /\ ms' = [ms EXCEPT ![k] = @ + step] /\ GoneOn(k)' = GoneOn(k) + passed
      /\ skewed' = [skewed EXCEPT ![k] = @ + odd] /\ Ideal(k, ts) = ms[k] + step
  BY <1>1 DEF map, Moves
<1>4. emitted' \in Nat /\ \/ emitted' = ms[k] + step /\ emitted' > emitted
                          \/ emitted' = 0 /\ ms[k] + step = 0 /\ emitted = 0
                          \/ emitted' = emitted + 1 /\ ms[k] + step <= emitted
  <2>1. emitted' = IF ms[k] + step > emitted THEN ms[k] + step
                   ELSE IF ms[k] + step = 0 /\ emitted = 0 THEN 0 ELSE emitted + 1
    BY <1>3 DEF map
  <2>2. ms[k] + step \in Nat
    BY <1>2
  <2> QED
    BY <1>2, <2>1, <2>2
<1>5. ClockTypes'
  <2>1. /\ raw' \in [TrackKinds -> Nat \cup {NoTs}] /\ count' \in [TrackKinds -> Nat]
        /\ ms' \in [TrackKinds -> Nat] /\ {back, stalled}' \subseteq [TrackKinds -> Nat]
        /\ skewed' \in [TrackKinds -> Nat]
    BY <1>2, <1>3, TicksPass
  <2>2. ASSUME NEW j \in TrackKinds, raw'[j] = NoTs PROVE ms'[j] = 0
    <3>1. j # k
      BY <1>2, <1>3, <2>2 DEF NoTs
    <3> QED
      BY <1>2, <1>3, <2>2, <3>1 DEF DriftInv, ClockTypes
  <2> QED
    BY <1>4, <2>1, <2>2 DEF ClockTypes
<1>6. CutBounded'
  <2> SUFFICES ASSUME NEW j \in TrackKinds
               PROVE  Cut(j)' \in 0 .. count'[j] * (Rate(j) - 1)
    BY Zenon DEF CutBounded
  <2>0. Cut(j)' = (GoneOn(j)' * 1000 + skewed'[j] * Usual(j) * Rate(j)) - ms'[j] * Rate(j)
    BY DEF Cut, MediaTime
  <2>1. (GoneOn(j) * 1000 + skewed[j] * Usual(j) * Rate(j)) - ms[j] * Rate(j)
          \in 0 .. count[j] * (Rate(j) - 1)
    <3>1. Cut(j) \in 0 .. count[j] * (Rate(j) - 1)
      BY Zenon DEF DriftInv, CutBounded
    <3> QED
      BY <3>1 DEF Cut, MediaTime
  <2>2. CASE j = k
    <3>1. /\ GoneOn(k)' = GoneOn(k) + passed /\ skewed'[k] = skewed[k] + odd
          /\ ms'[k] = ms[k] + step /\ count'[k] = count[k] + 1
      BY <1>2, <1>3
    <3>2. passed * 1000 + odd * (Usual(k) * Rate(k)) - step * Rate(k) \in 0 .. Rate(k) - 1
      BY <1>1 DEF Moves, CutBy
    <3>3. Rate(k) \in Nat \ {0} /\ Usual(k) \in Nat
      BY Rates
    <3>4. ((GoneOn(k) + passed) * 1000 + (skewed[k] + odd) * Usual(k) * Rate(k)) - (ms[k] + step) * Rate(k)
            \in 0 .. (count[k] + 1) * (Rate(k) - 1)
      <4>1. GoneOn(k) \in Nat /\ skewed[k] \in Nat /\ ms[k] \in Nat /\ count[k] \in Nat
        BY <1>2
      <4> QED
        BY <2>1, <2>2, <3>2, <3>3, <4>1, CutsAdd
    <3> QED
      BY <2>0, <2>2, <3>1, <3>4
  <2>3. CASE j # k
    <3>1. GoneOn(j)' = GoneOn(j) /\ skewed'[j] = skewed[j] /\ ms'[j] = ms[j] /\ count'[j] = count[j]
      BY <1>2, <1>3, <2>3, TicksPass
    <3> QED
      BY <2>0, <2>1, <3>1
  <2> QED
    BY <2>2, <2>3
<1>7. TagsClose'
  <2>1. /\ ms["video"] \in Nat /\ ms["audio"] \in Nat
        /\ count["video"] \in Nat /\ count["audio"] \in Nat
    BY <1>2 DEF TrackKinds
  <2>2. Further <= emitted /\ emitted <= Further + count["video"] + count["audio"]
    BY DEF DriftInv, TagsClose
  <2>3. CASE k = "video"
    <3>1. /\ ms'["video"] = ms["video"] + step /\ ms'["audio"] = ms["audio"]
          /\ count'["video"] = count["video"] + 1 /\ count'["audio"] = count["audio"]
      BY <1>2, <1>3, <2>3 DEF TrackKinds
    <3> QED
      BY <1>2, <1>4, <2>1, <2>2, <2>3, <3>1 DEF TagsClose, Further
  <2>4. CASE k = "audio"
    <3>1. /\ ms'["audio"] = ms["audio"] + step /\ ms'["video"] = ms["video"]
          /\ count'["audio"] = count["audio"] + 1 /\ count'["video"] = count["video"]
      BY <1>2, <1>3, <2>4 DEF TrackKinds
    <3> QED
      BY <1>2, <1>4, <2>1, <2>2, <2>4, <3>1 DEF TagsClose, Further
  <2> QED
    BY <2>3, <2>4 DEF TrackKinds
<1>8. \A j \in TrackKinds : GoneOn(j)' \in Nat
  BY <1>1, <1>2, <1>3, TicksPass
<1> QED
  BY <1>5, <1>6, <1>7, <1>8 DEF DriftInv

LEMMA InitDrift == TimelineInit => DriftInv
<1> SUFFICES ASSUME TimelineInit PROVE DriftInv
  OBVIOUS
<1>1. ASSUME NEW k \in TrackKinds
      PROVE  /\ raw[k] = NoTs /\ ms[k] = 0 /\ count[k] = 0 /\ GoneOn(k) = 0 /\ skewed[k] = 0
  BY <1>1 DEF TimelineInit, GoneOn, Elapsed
<1>2. ClockTypes
  BY DEF TimelineInit, ClockTypes
<1>3. CutBounded
  <2> SUFFICES ASSUME NEW k \in TrackKinds PROVE Cut(k) \in 0 .. count[k] * (Rate(k) - 1)
    BY DEF CutBounded
  <2>1. Rate(k) \in Nat \ {0} /\ Usual(k) \in Nat
    BY Rates
  <2>2. 0 * Usual(k) * Rate(k) = 0 /\ 0 * Rate(k) = 0 /\ 0 * (Rate(k) - 1) = 0
    BY <2>1
  <2> HIDE DEF Rate, Usual
  <2>3. MediaTime(k) = 0 * 1000 + 0 * Usual(k) * Rate(k)
    BY <1>1 DEF MediaTime
  <2>4. Cut(k) = 0
    BY <1>1, <2>2, <2>3 DEF Cut
  <2> QED
    BY <1>1, <2>2, <2>4
<1>4. TagsClose
  BY <1>1 DEF TimelineInit, TagsClose, Further, TrackKinds
<1>5. \A k \in TrackKinds : GoneOn(k) \in Nat
  BY <1>1
<1> QED
  BY <1>2, <1>3, <1>4, <1>5 DEF DriftInv

LEMMA NextDrift == DriftInv /\ [TimelineNext]_timeVars => DriftInv'
<1>1. ASSUME DriftInv, UNCHANGED timeVars PROVE DriftInv'
  BY <1>1 DEF DriftInv, timeVars, ClockTypes, CutBounded, Cut, MediaTime, GoneOn, Elapsed, TagsClose, Further
<1>2. ASSUME DriftInv, TimelineNext PROVE DriftInv'
  <2>1. \A k \in TrackKinds : raw[k] \in Nat \cup {-1}
    BY <1>2 DEF DriftInv, ClockTypes, NoTs
  <2>2. ASSUME NEW k \in TrackKinds, NEW ticks, ticks \subseteq Int, Tag(k, ticks) PROVE DriftInv'
    <3>1. PICK d \in ticks :
            LET ts == IF raw[k] = NoTs THEN FirstTs ELSE raw[k] + d IN ts >= 0 /\ map(k, ts)
      BY <2>2 DEF Tag
    <3> DEFINE ts == IF raw[k] = NoTs THEN FirstTs ELSE raw[k] + d
    <3>2. ts >= 0 /\ map(k, ts) /\ (raw[k] = NoTs => ts = FirstTs)
      BY <3>1
    <3>3. ts \in Int
      BY SMT, <2>1, <2>2 DEF FirstTs
    <3> HIDE DEF ts
    <3>4. ts \in Nat
      BY <3>2, <3>3
    <3> QED
      BY <1>2, <3>2, <3>4, TagKeeps
  <2>3. "video" \in TrackKinds /\ "audio" \in TrackKinds
    BY DEF TrackKinds
  <2> QED
    BY <1>2, <2>2, <2>3, TimelineAssumption DEF TimelineNext
<1> QED
  BY <1>1, <1>2

LEMMA DriftOfFile == DriftInv => DriftBounded
<1> SUFFICES ASSUME DriftInv PROVE DriftBounded
  OBVIOUS
<1>1. ASSUME NEW k \in TrackKinds
      PROVE  /\ ms[k] * Rate(k) <= (Elapsed(k) + back[k]) * 1000 + skewed[k] * Usual(k) * Rate(k)
             /\ (Elapsed(k) + back[k] - stalled[k]) * 1000 - ms[k] * Rate(k) <= count[k] * (Rate(k) - 1)
  <2> DEFINE m == MediaTime(k)
             c == ms[k] * Rate(k)
             h == count[k] * (Rate(k) - 1)
             u == skewed[k] * Usual(k) * Rate(k)
  <2>1. /\ Rate(k) \in Nat \ {0} /\ Usual(k) \in Nat
        /\ ms[k] \in Nat /\ count[k] \in Nat /\ GoneOn(k) \in Nat /\ skewed[k] \in Nat
        /\ back[k] \in Nat /\ stalled[k] \in Nat /\ Elapsed(k) \in Int
    BY Rates DEF DriftInv, ClockTypes, Elapsed, FirstTs
  <2>2. c \in Nat /\ h \in Nat
    <3>1. Rate(k) \in Nat /\ Rate(k) - 1 \in Nat
      BY <2>1
    <3> QED
      BY <2>1, <3>1, Products
  <2>3. m = GoneOn(k) * 1000 + u /\ u \in Nat
    <3>1. skewed[k] * Usual(k) \in Nat
      BY <2>1, Products
    <3>2. skewed[k] * Usual(k) * Rate(k) \in Nat
      BY <2>1, <3>1, Products
    <3> QED
      BY <3>2 DEF MediaTime
  <2>4. m - c \in 0 .. h
    BY DEF DriftInv, CutBounded, Cut
  <2>6. GoneOn(k) = Elapsed(k) + back[k] - stalled[k]
    BY DEF GoneOn
  <2> HIDE DEF m, c, h, u
  <2>5. c <= (Elapsed(k) + back[k]) * 1000 + u /\ (Elapsed(k) + back[k] - stalled[k]) * 1000 - c <= h
    BY <2>1, <2>2, <2>3, <2>4, <2>6
  <2> QED
    BY <2>5 DEF c, h, u
<1>2. Max({ms[k] : k \in TrackKinds}) = Further
  BY FurtherIsMax DEF DriftInv
<1>3. Further <= emitted /\ emitted <= Further + count["video"] + count["audio"]
  BY DEF DriftInv, TagsClose
<1> HIDE DEF MediaTime, TrackKinds, Further
<1> QED
  BY <1>1, <1>2, <1>3 DEF DriftBounded

LEMMA PathsKeepDrift == DriftInv /\ [PathsNext]_pathVars => DriftInv'
<1>1. PathsNext => [TimelineNext]_timeVars
  BY DEF PathsNext
<1>2. UNCHANGED pathVars => UNCHANGED timeVars
  BY DEF pathVars
<1> QED
  BY <1>1, <1>2, NextDrift

----------------------------------------------------------------------------
\* The segmenter.
HlsRecords ==
  [primed : BOOLEAN, rawVideo : Int, videoMux : Int, rawAudio : Int, audioMux : Int,
   pubRaw : Int, pubMs : Int, open : Int, last : Int, filled : BOOLEAN,
   keyed : BOOLEAN, firstCc : Int, cc : Int, pending : BOOLEAN]
Listed ==
  [seq : Nat, open : Int, last : Int, disc : BOOLEAN, keyed : BOOLEAN, firstCc : Int,
   endCc : Int, unwritten : BOOLEAN]
MediaFrames == [video : BOOLEAN, key : BOOLEAN, raw : Int]

\* The muxed span ends where the mux clock stands: the next segment begins there.
Settled(s) == s.last = s.videoMux
\* s goes on where segment c ended.
GoesOn(s, c) == s.filled /\ s.open = c.last /\ s.firstCc = c.endCc /\ s.keyed

LEMMA OfMuxed ==
  ASSUME NEW s \in HlsRecords, NEW f \in MediaFrames
  PROVE  /\ Muxed(s, f) \in HlsRecords /\ (Settled(s) => Settled(Muxed(s, f)))
         /\ Muxed(s, f).open = s.open /\ Muxed(s, f).firstCc = s.firstCc
         /\ Muxed(s, f).keyed = s.keyed /\ Muxed(s, f).pending = s.pending
         /\ Muxed(s, f).filled = TRUE
<1>1. advance_video_mux_ms(s, f.raw) \in Int /\ AudioMux(s, f.raw) \in Int
  BY DEF advance_video_mux_ms, AudioMux, Larger, Smaller, HlsRecords, MediaFrames
<1> HIDE DEF advance_video_mux_ms, AudioMux
<1>2. (s.cc + IF f.key THEN 2 ELSE 1) % 16 \in Int
  BY DEF HlsRecords
<1>3. CASE f.video
  <2> DEFINE now == advance_video_mux_ms(s, f.raw)
             n == (s.cc + IF f.key THEN 2 ELSE 1) % 16
  <2>1. Muxed(s, f) = [s EXCEPT !.rawVideo = f.raw, !.videoMux = now, !.last = now, !.filled = TRUE, !.cc = n]
    BY <1>3 DEF Muxed
  <2>2. f.raw \in Int /\ now \in Int /\ n \in Int
    BY <1>1, <1>2 DEF MediaFrames
  <2> HIDE DEF now, n
  <2> QED
    BY ZenonT(60), <2>1, <2>2 DEF HlsRecords, Settled
<1>4. CASE ~f.video
  <2> DEFINE at == AudioMux(s, f.raw)
  <2>1. Muxed(s, f) = [s EXCEPT !.rawAudio = f.raw, !.audioMux = at, !.filled = TRUE]
    BY <1>4 DEF Muxed
  <2>2. f.raw \in Int /\ at \in Int
    BY <1>1 DEF MediaFrames
  <2> HIDE DEF at
  <2> QED
    BY <2>1, <2>2 DEF HlsRecords, Settled
<1> QED
  BY <1>3, <1>4

LEMMA OfOpened ==
  ASSUME NEW s \in HlsRecords, NEW f \in MediaFrames
  PROVE  /\ Opened(s, f) \in HlsRecords /\ (Settled(s) => Settled(Opened(s, f)))
         /\ Opened(s, f).pending = s.pending /\ Opened(s, f).filled = s.filled
         /\ (s.filled => Opened(s, f) = s)
<1>1. CASE s.filled
  BY <1>1 DEF Opened
<1>2. CASE ~s.filled
  BY <1>2 DEF Opened, HlsRecords, MediaFrames, Settled
<1> QED
  BY <1>1, <1>2

LEMMA OfClocked ==
  ASSUME NEW s \in HlsRecords, NEW f \in MediaFrames
  PROVE  /\ Clocked(s, f) \in HlsRecords /\ (Settled(s) => Settled(Clocked(s, f)))
         /\ Clocked(s, f).pending = s.pending /\ Clocked(s, f).filled = s.filled
         /\ Clocked(s, f).open = s.open /\ Clocked(s, f).firstCc = s.firstCc
         /\ Clocked(s, f).keyed = s.keyed
<1>1. CASE ~f.video
  BY <1>1 DEF Clocked
<1>2. CASE f.video
  <2> DEFINE d == IF s.pubRaw > 0 THEN f.raw - s.pubRaw ELSE 0
             n == s.pubMs + IF d < 2000 THEN Larger(0, d) ELSE 0
  <2>1. Clocked(s, f) = [s EXCEPT !.pubRaw = f.raw, !.pubMs = n]
    BY <1>2 DEF Clocked
  <2>2. f.raw \in Int /\ n \in Int
    BY DEF Larger, HlsRecords, MediaFrames
  <2> HIDE DEF d, n
  <2> QED
    BY <2>1, <2>2 DEF HlsRecords, Settled
<1> QED
  BY <1>1, <1>2

\* What admitting a frame does to the session.
LEMMA OfAdmitted ==
  ASSUME hs \in HlsRecords, NEW f \in MediaFrames
  PROVE  /\ Admitted(f) \in HlsRecords /\ (Settled(hs) => Settled(Admitted(f)))
         /\ Admitted(f).pending = hs.pending /\ Admitted(f).filled = hs.filled
         /\ \A c : GoesOn(hs, c) => GoesOn(Admitted(f), c)
<1> DEFINE s == [hs EXCEPT !.primed = TRUE]
<1>1. /\ s \in HlsRecords /\ (Settled(hs) => Settled(s)) /\ s.pending = hs.pending
      /\ s.filled = hs.filled /\ s.open = hs.open /\ s.firstCc = hs.firstCc /\ s.keyed = hs.keyed
  BY DEF HlsRecords, Settled
<1>2. Admitted(f) = Clocked(Opened(s, f), f)
  BY DEF Admitted
<1> HIDE DEF s
<1> DEFINE o == Opened(s, f)
<1>3. /\ o \in HlsRecords /\ (Settled(s) => Settled(o))
      /\ o.pending = s.pending /\ o.filled = s.filled /\ (s.filled => o = s)
  BY <1>1, OfOpened
<1> HIDE DEF o
<1>4. /\ Clocked(o, f) \in HlsRecords /\ (Settled(o) => Settled(Clocked(o, f)))
      /\ Clocked(o, f).pending = o.pending /\ Clocked(o, f).filled = o.filled
      /\ Clocked(o, f).open = o.open /\ Clocked(o, f).firstCc = o.firstCc
      /\ Clocked(o, f).keyed = o.keyed
  BY <1>3, OfClocked
<1>5. Admitted(f) = Clocked(o, f)
  BY <1>2 DEF o
<1>6. ASSUME NEW c, GoesOn(hs, c) PROVE GoesOn(Admitted(f), c)
  BY <1>1, <1>3, <1>4, <1>5, <1>6 DEF GoesOn
<1> QED
  BY <1>1, <1>3, <1>4, <1>5, <1>6

LEMMA OfBegun ==
  ASSUME NEW s \in HlsRecords, Settled(s)
  PROVE  /\ begin_new_segment(s) \in HlsRecords /\ Settled(begin_new_segment(s))
         /\ begin_new_segment(s).open = s.last /\ begin_new_segment(s).firstCc = s.cc
         /\ begin_new_segment(s).keyed = TRUE
<1>1. begin_new_segment(s) =
        [s EXCEPT !.pubMs = 0, !.pubRaw = 0, !.open = s.videoMux, !.pending = FALSE,
                  !.keyed = TRUE, !.firstCc = s.cc]
  BY DEF begin_new_segment
<1>2. s.last = s.videoMux
  BY DEF Settled
<1> DEFINE b == begin_new_segment(s)
<1>3. b \in HlsRecords
  <2> DEFINE v == s.videoMux
             n == s.cc
             o == 0
  <2>1. v \in Int /\ n \in Int /\ o \in Int
    BY DEF HlsRecords
  <2> DEFINE c == [s EXCEPT !.pubMs = o, !.pubRaw = o, !.open = v]
  <2>2. b = [c EXCEPT !.pending = FALSE, !.keyed = TRUE, !.firstCc = n]
    BY <1>1
  <2> HIDE DEF v, n, o, b
  <2>3. c \in HlsRecords
    BY <2>1 DEF HlsRecords
  <2> HIDE DEF c
  <2> QED
    BY <2>1, <2>2, <2>3 DEF HlsRecords
<1>4. b.open = s.last /\ b.firstCc = s.cc /\ b.keyed = TRUE /\ b.last = b.videoMux
  BY <1>1, <1>2 DEF HlsRecords
<1> QED
  BY <1>3, <1>4 DEF Settled

LEMMA OfLag ==
  ASSUME NEW s \in HlsRecords
  PROVE  /\ recover_from_lag(s) \in HlsRecords /\ Settled(recover_from_lag(s))
         /\ recover_from_lag(s).pending = TRUE
<1>1. recover_from_lag(s) =
        [s EXCEPT !.filled = FALSE, !.pubMs = 0, !.pubRaw = 0, !.open = s.videoMux,
                  !.last = s.videoMux, !.pending = TRUE]
  BY DEF recover_from_lag
<1> DEFINE r == recover_from_lag(s)
<1>2. r \in HlsRecords
  <2> DEFINE v == s.videoMux
             o == 0
  <2>1. v \in Int /\ o \in Int
    BY DEF HlsRecords
  <2> DEFINE c == [s EXCEPT !.filled = FALSE, !.pubMs = o, !.pubRaw = o]
  <2>2. r = [c EXCEPT !.open = v, !.last = v, !.pending = TRUE]
    BY <1>1
  <2> HIDE DEF v, o, r
  <2>3. c \in HlsRecords
    BY <2>1 DEF HlsRecords
  <2> HIDE DEF c
  <2> QED
    BY <2>1, <2>2, <2>3 DEF HlsRecords
<1>3. r.pending = TRUE /\ r.last = r.videoMux
  BY <1>1 DEF HlsRecords
<1> QED
  BY <1>2, <1>3 DEF Settled

\* The discontinuities among the first n of a list.
DiscsTo(list, n) == Cardinality({j \in 1 .. n : list[j].disc})

LEMMA DiscsFinite ==
  ASSUME NEW list, NEW n \in Nat
  PROVE  IsFiniteSet({j \in 1 .. n : list[j].disc}) /\ DiscsTo(list, n) \in Nat
<1>1. IsFiniteSet(1 .. n)
  BY FS_Interval
<1>2. {j \in 1 .. n : list[j].disc} \in SUBSET (1 .. n)
  OBVIOUS
<1>3. IsFiniteSet({j \in 1 .. n : list[j].disc})
  BY <1>1, <1>2, FS_Subset
<1> QED
  BY <1>3, FS_CardinalityType DEF DiscsTo

LEMMA DiscsSame ==
  ASSUME NEW a, NEW b, NEW n \in Nat, \A j \in 1 .. n : a[j] = b[j]
  PROVE  DiscsTo(a, n) = DiscsTo(b, n)
<1>1. {j \in 1 .. n : a[j].disc} = {j \in 1 .. n : b[j].disc}
  OBVIOUS
<1> QED
  BY <1>1 DEF DiscsTo

LEMMA DiscsGrow ==
  ASSUME NEW list, NEW n \in Nat
  PROVE  DiscsTo(list, n + 1) = DiscsTo(list, n) + IF list[n + 1].disc THEN 1 ELSE 0
<1> DEFINE D == {j \in 1 .. n : list[j].disc}
           E == {j \in 1 .. n + 1 : list[j].disc}
<1>1. IsFiniteSet(D) /\ Cardinality(D) \in Nat /\ DiscsTo(list, n) = Cardinality(D)
      /\ DiscsTo(list, n + 1) = Cardinality(E)
  BY DiscsFinite DEF DiscsTo
<1>2. n + 1 \notin D
  OBVIOUS
<1>3. CASE list[n + 1].disc
  <2>1. E = D \cup {n + 1}
    BY <1>3
  <2> HIDE DEF D, E
  <2>2. Cardinality(E) = Cardinality(D) + 1
    BY <1>1, <1>2, <2>1, FS_AddElement
  <2> QED
    BY <1>1, <1>3, <2>2
<1>4. CASE ~list[n + 1].disc
  <2>1. E = D
    BY <1>4
  <2> HIDE DEF D, E
  <2> QED
    BY <1>1, <1>4, <2>1
<1> QED
  BY <1>3, <1>4

\* A window of a list that starts behind its first m: the discontinuities add up.
LEMMA DiscsSplit ==
  ASSUME NEW list, NEW window, NEW m \in Nat, NEW n \in Nat,
         \A i \in 1 .. n : window[i] = list[m + i]
  PROVE  DiscsTo(list, m + n) = DiscsTo(list, m) + DiscsTo(window, n)
<1> DEFINE A == {j \in 1 .. m : list[j].disc}
           B == {i \in 1 .. n : window[i].disc}
           C == {j \in 1 .. m + n : list[j].disc}
           F == {j \in m + 1 .. m + n : list[j].disc}
           f == [i \in B |-> m + i]
<1>1. /\ IsFiniteSet(A) /\ IsFiniteSet(B) /\ DiscsTo(list, m) = Cardinality(A)
      /\ DiscsTo(window, n) = Cardinality(B) /\ DiscsTo(list, m + n) = Cardinality(C)
  BY DiscsFinite DEF DiscsTo
<1>2. C = A \cup F /\ A \cap F = {}
  OBVIOUS
<1>3. f \in Bijection(B, F)
  <2>1. f \in [B -> F]
    OBVIOUS
  <2>2. \A x, y \in B : f[x] = f[y] => x = y
    OBVIOUS
  <2>3. \A j \in F : \E i \in B : f[i] = j
    <3> TAKE j \in F
    <3>1. j - m \in 1 .. n /\ m + (j - m) = j
      OBVIOUS
    <3>2. window[j - m].disc
      BY <3>1
    <3>3. j - m \in B /\ f[j - m] = j
      BY <3>1, <3>2
    <3> QED
      BY <3>3
  <2> HIDE DEF f, B, F
  <2> QED
    BY <2>1, <2>2, <2>3, Fun_IsBij
<1>4. ExistsBijection(B, F)
  BY <1>3 DEF ExistsBijection
<1> HIDE DEF A, B, C, F, f
<1>5. IsFiniteSet(F) /\ Cardinality(F) = Cardinality(B)
  BY <1>1, <1>4, FS_Bijection
<1>6. Cardinality(A \cup F) = Cardinality(A) + Cardinality(F) - Cardinality(A \cap F)
  BY <1>1, <1>5, FS_Union
<1>7. Cardinality(A \cap F) = 0 /\ Cardinality(A) \in Nat /\ Cardinality(F) \in Nat
  BY <1>1, <1>2, <1>5, FS_EmptySet, FS_CardinalityType
<1> QED
  BY <1>1, <1>2, <1>5, <1>6, <1>7

SegTypes ==
  /\ hs \in HlsRecords /\ clock \in Int
  /\ segments \in Seq(Listed) /\ committed \in Seq(Listed)
  /\ media_sequence \in Nat /\ next_sequence = Len(committed) /\ unwritten \in BOOLEAN

\* The playlist is the last part of all that was committed, numbered from its first.
Windowed ==
  /\ Len(committed) = media_sequence + Len(segments)
  /\ \A i \in 1 .. Len(segments) : segments[i] = committed[media_sequence + i]
  /\ \A j \in 1 .. Len(committed) : committed[j].seq = j - 1
  /\ discontinuity_sequence = DiscsTo(committed, media_sequence)

\* The open segment goes on where the last one ended, or will say that it does not.
Marked ==
  \/ committed = <<>> \/ hs.pending \/ unwritten
  \/ GoesOn(hs, committed[Len(committed)])

SegInv == SegTypes /\ Windowed /\ Settled(hs) /\ Marked /\ TilesOrMarked

\* A segment is listed.
LEMMA ListedKeeps ==
  ASSUME SegTypes, Windowed, NEW seg \in Listed, seg.seq = next_sequence, add_segment_InWindow(seg)
  PROVE  /\ segments' \in Seq(Listed) /\ committed' \in Seq(Listed) /\ media_sequence' \in Nat
         /\ next_sequence' = Len(committed') /\ unwritten' = FALSE /\ Windowed'
         /\ Len(committed') = Len(committed) + 1 /\ Len(committed) \in Nat
         /\ committed'[Len(committed) + 1] = seg
         /\ \A j \in 1 .. Len(committed) : committed'[j] = committed[j]
<1> DEFINE all == Append(segments, seg)
           over == IF Len(all) > WindowSize THEN 1 ELSE 0
           n == Len(committed)
           w == Len(segments)
<1>1. /\ segments' = SubSeq(all, 1 + over, Len(all)) /\ media_sequence' = media_sequence + over
      /\ discontinuity_sequence' =
           discontinuity_sequence + IF over = 1 /\ Head(all).disc THEN 1 ELSE 0
      /\ next_sequence' = seg.seq + 1 /\ committed' = Append(committed, seg) /\ unwritten' = FALSE
  BY DEF add_segment_InWindow
<1>2. /\ segments \in Seq(Listed) /\ committed \in Seq(Listed) /\ media_sequence \in Nat
      /\ next_sequence = n
  BY DEF SegTypes
<1>3. /\ n = media_sequence + w
      /\ \A i \in 1 .. w : segments[i] = committed[media_sequence + i]
      /\ \A j \in 1 .. n : committed[j].seq = j - 1
      /\ discontinuity_sequence = DiscsTo(committed, media_sequence)
  BY DEF Windowed
<1> HIDE DEF Listed
<1>4. /\ all \in Seq(Listed) /\ Len(all) = w + 1 /\ w \in Nat /\ n \in Nat /\ all # <<>>
      /\ all[w + 1] = seg /\ \A i \in 1 .. w : all[i] = segments[i]
  BY <1>2, AppendProperties
<1>5. /\ committed' \in Seq(Listed) /\ Len(committed') = n + 1 /\ committed'[n + 1] = seg
      /\ \A j \in 1 .. n : committed'[j] = committed[j]
  BY <1>1, <1>2, <1>4, AppendProperties
<1> HIDE DEF all
<1>6. over \in {0, 1} /\ over <= w + 1
  BY <1>4
<1> HIDE DEF over
<1>7. \A i \in 1 .. w + 1 : all[i] = committed'[media_sequence + i]
  <2> TAKE i \in 1 .. w + 1
  <2>1. CASE i \in 1 .. w
    <3>1. media_sequence + i \in 1 .. n
      BY <1>2, <1>3, <1>4, <2>1
    <3> QED
      BY <1>3, <1>4, <1>5, <2>1, <3>1
  <2>2. CASE i = w + 1
    BY <1>2, <1>3, <1>4, <1>5, <2>2
  <2> QED
    BY <1>4, <2>1, <2>2
<1>8. /\ segments' \in Seq(Listed) /\ Len(segments') = (w + 1) - over
      /\ \A i \in 1 .. (w + 1) - over : segments'[i] = all[over + i]
  <2>1. \A i \in 1 + over .. Len(all) : all[i] \in Listed
    BY <1>4, <1>6
  <2>2. 1 + over \in Int /\ Len(all) \in Int
    BY <1>4, <1>6
  <2>3. /\ SubSeq(all, 1 + over, Len(all)) \in Seq(Listed)
        /\ Len(SubSeq(all, 1 + over, Len(all))) =
             IF 1 + over <= Len(all) THEN Len(all) - (1 + over) + 1 ELSE 0
        /\ \A i \in 1 .. Len(all) - (1 + over) + 1 :
             SubSeq(all, 1 + over, Len(all))[i] = all[(1 + over) + i - 1]
    BY <2>1, <2>2, SubSeqProperties
  <2>4. Len(segments') = (w + 1) - over
    BY <1>1, <1>4, <1>6, <2>3
  <2>5. ASSUME NEW i \in 1 .. (w + 1) - over PROVE segments'[i] = all[over + i]
    <3>1. i \in 1 .. Len(all) - (1 + over) + 1 /\ (1 + over) + i - 1 = over + i
      BY <1>4, <1>6
    <3> QED
      BY <1>1, <2>3, <3>1
  <2> QED
    BY <1>1, <2>3, <2>4, <2>5
<1>9. \A i \in 1 .. Len(segments') : segments'[i] = committed'[media_sequence' + i]
  <2> TAKE i \in 1 .. Len(segments')
  <2>1. i \in 1 .. (w + 1) - over /\ over + i \in 1 .. w + 1
    BY <1>4, <1>6, <1>8
  <2>2. media_sequence + (over + i) = media_sequence' + i
    BY <1>1, <1>2, <1>6, <2>1
  <2> QED
    BY <1>7, <1>8, <2>1, <2>2
<1>10. \A j \in 1 .. Len(committed') : committed'[j].seq = j - 1
  <2> TAKE j \in 1 .. Len(committed')
  <2>1. CASE j \in 1 .. n
    BY <1>3, <1>5, <2>1
  <2>2. CASE j = n + 1
    BY <1>2, <1>4, <1>5, <2>2
  <2> QED
    BY <1>4, <1>5, <2>1, <2>2
<1>11. discontinuity_sequence' = DiscsTo(committed', media_sequence')
  <2>1. DiscsTo(committed', media_sequence) = DiscsTo(committed, media_sequence)
    <3>1. \A j \in 1 .. media_sequence : committed'[j] = committed[j]
      BY <1>2, <1>3, <1>4, <1>5
    <3> QED
      BY <1>2, <3>1, DiscsSame
  <2>2. discontinuity_sequence \in Nat
    BY <1>2, <1>3, DiscsFinite
  <2>3. CASE over = 0
    <3>1. media_sequence' = media_sequence
      BY <1>1, <1>2, <2>3
    <3> QED
      BY <1>1, <1>3, <2>1, <2>2, <2>3, <3>1
  <2>4. CASE over = 1
    <3>1. media_sequence' = media_sequence + 1
      BY <1>1, <2>4
    <3>2. Head(all) = committed'[media_sequence + 1]
      BY <1>4, <1>7
    <3>3. DiscsTo(committed', media_sequence + 1) =
            DiscsTo(committed', media_sequence) + IF committed'[media_sequence + 1].disc THEN 1 ELSE 0
      BY <1>2, DiscsGrow
    <3> QED
      BY <1>1, <1>3, <2>1, <2>4, <3>1, <3>2, <3>3
  <2> QED
    BY <1>6, <2>3, <2>4
<1>12. next_sequence' = Len(committed') /\ media_sequence' \in Nat /\ unwritten' = FALSE
  BY <1>1, <1>2, <1>4, <1>5, <1>6
<1>13. Len(committed') = media_sequence' + Len(segments')
  <2>1. /\ Len(committed') = n + 1 /\ media_sequence' = media_sequence + over
        /\ Len(segments') = (w + 1) - over /\ n = media_sequence + w
        /\ n \in Nat /\ w \in Nat /\ media_sequence \in Nat /\ over \in Int
    BY <1>1, <1>2, <1>3, <1>4, <1>5, <1>6, <1>8
  <2> QED
    BY <2>1
<1>14. Windowed'
  BY <1>9, <1>10, <1>11, <1>13 DEF Windowed
<1> QED
  BY <1>4, <1>5, <1>8, <1>12, <1>14

\* A segment is closed: it is listed and the next goes on behind it, or it is gone.
LEMMA CloseKeeps ==
  ASSUME SegInv, NEW f \in MediaFrames, clock' \in Int,
         hs' = Muxed(begin_new_segment(Admitted(f)), f), Committed(Admitted(f))
  PROVE  SegInv'
<1> DEFINE s == Admitted(f)
           b == begin_new_segment(s)
           n == Len(committed)
<1>1. /\ SegTypes /\ Windowed /\ Settled(hs) /\ Marked /\ TilesOrMarked /\ hs \in HlsRecords
  BY DEF SegInv, SegTypes
<1>2. /\ s \in HlsRecords /\ Settled(s) /\ s.pending = hs.pending
      /\ \A c : GoesOn(hs, c) => GoesOn(s, c)
  BY <1>1, OfAdmitted
<1> HIDE DEF s
<1>3. /\ b \in HlsRecords /\ Settled(b) /\ b.open = s.last /\ b.firstCc = s.cc /\ b.keyed = TRUE
  BY <1>2, OfBegun
<1> HIDE DEF b
<1>4. /\ hs' \in HlsRecords /\ Settled(hs') /\ hs'.open = s.last /\ hs'.firstCc = s.cc
      /\ hs'.keyed = TRUE /\ hs'.filled = TRUE
  <2>1. hs' = Muxed(b, f)
    BY DEF s, b
  <2>2. /\ Muxed(b, f) \in HlsRecords /\ Settled(Muxed(b, f))
        /\ Muxed(b, f).open = b.open /\ Muxed(b, f).firstCc = b.firstCc
        /\ Muxed(b, f).keyed = b.keyed /\ Muxed(b, f).filled = TRUE
    BY <1>3, OfMuxed
  <2> QED
    BY <1>3, <2>1, <2>2
<1> DEFINE seg == [seq |-> next_sequence, open |-> s.open, last |-> s.last,
                   disc |-> s.pending, keyed |-> s.keyed, firstCc |-> s.firstCc,
                   endCc |-> s.cc, unwritten |-> unwritten]
<1>5. CASE add_segment_InWindow(seg)
  <2>1. seg \in Listed /\ seg.seq = next_sequence
    <3>1. next_sequence \in Nat
      BY <1>1 DEF SegTypes
    <3>2. unwritten \in BOOLEAN
      BY <1>1 DEF SegTypes
    <3>3. /\ s.open \in Int /\ s.last \in Int /\ s.firstCc \in Int /\ s.cc \in Int
          /\ s.pending \in BOOLEAN /\ s.keyed \in BOOLEAN
      BY <1>2 DEF HlsRecords
    <3> QED
      BY <3>1, <3>2, <3>3 DEF Listed
  <2>2. /\ seg.open = s.open /\ seg.last = s.last /\ seg.disc = s.pending /\ seg.keyed = s.keyed
        /\ seg.firstCc = s.firstCc /\ seg.endCc = s.cc /\ seg.unwritten = unwritten
    OBVIOUS
  <2> HIDE DEF seg
  <2>3. /\ segments' \in Seq(Listed) /\ committed' \in Seq(Listed) /\ media_sequence' \in Nat
        /\ next_sequence' = Len(committed') /\ unwritten' = FALSE /\ Windowed'
        /\ Len(committed') = n + 1 /\ n \in Nat
        /\ committed'[n + 1] = seg
        /\ \A j \in 1 .. n : committed'[j] = committed[j]
    BY <1>1, <1>5, <2>1, ListedKeeps
  <2>4. GoesOn(hs', committed'[Len(committed')])
    BY <1>4, <2>2, <2>3 DEF GoesOn
  <2>5. TilesOrMarked'
    <3> SUFFICES ASSUME NEW i \in 1 .. Len(committed') - 1
                 PROVE  \/ committed'[i + 1].disc \/ committed'[i + 1].unwritten
                        \/ /\ committed'[i + 1].open = committed'[i].last
                           /\ committed'[i + 1].firstCc = committed'[i].endCc
                           /\ committed'[i + 1].keyed
      BY DEF TilesOrMarked
    <3>1. CASE i \in 1 .. n - 1
      <4>1. i \in 1 .. n /\ i + 1 \in 1 .. n
        BY <2>3, <3>1
      <4>2. committed'[i] = committed[i] /\ committed'[i + 1] = committed[i + 1]
        BY <2>3, <4>1
      <4> QED
        BY <1>1, <3>1, <4>2 DEF TilesOrMarked
    <3>2. CASE i = n
      <4>1. committed'[n] = committed[n] /\ committed'[n + 1] = seg /\ committed # <<>>
        BY <1>1, <2>3, <3>2 DEF SegTypes
      <4>2. s.pending \/ unwritten \/ GoesOn(s, committed[n])
        BY <1>1, <1>2, <4>1 DEF Marked
      <4> QED
        BY <2>2, <3>2, <4>1, <4>2 DEF GoesOn
    <3> QED
      BY <2>3, <3>1, <3>2
  <2>6. SegTypes'
    BY <1>4, <2>3 DEF SegTypes
  <2>7. Marked'
    BY <2>4 DEF Marked
  <2> QED
    BY <1>4, <2>3, <2>5, <2>6, <2>7 DEF SegInv
<1>6. CASE /\ unwritten' = TRUE
           /\ UNCHANGED <<segments, media_sequence, discontinuity_sequence, next_sequence, committed>>
  <2>1. SegTypes'
    BY <1>1, <1>4, <1>6 DEF SegTypes
  <2>2. Windowed' /\ TilesOrMarked'
    BY <1>1, <1>6 DEF Windowed, TilesOrMarked, DiscsTo
  <2>3. Marked'
    BY <1>6 DEF Marked
  <2> QED
    BY <1>4, <2>1, <2>2, <2>3 DEF SegInv
<1> QED
  BY <1>5, <1>6 DEF Committed, s

\* The playlist is left alone.
LEMMA OpenKeeps ==
  ASSUME SegInv, UNCHANGED playlistVars, clock' \in Int, hs' \in HlsRecords, Settled(hs'),
         \/ hs'.pending = TRUE
         \/ hs'.pending = hs.pending /\ \A c : GoesOn(hs, c) => GoesOn(hs', c)
  PROVE  SegInv'
<1>1. /\ SegTypes /\ Windowed /\ Marked /\ TilesOrMarked
      /\ UNCHANGED <<segments, media_sequence, discontinuity_sequence, next_sequence, unwritten, committed>>
  BY DEF SegInv, playlistVars
<1>2. SegTypes'
  BY <1>1 DEF SegTypes
<1>3. Windowed' /\ TilesOrMarked'
  BY <1>1 DEF Windowed, TilesOrMarked, DiscsTo
<1>4. Marked'
  BY <1>1 DEF Marked
<1> QED
  BY <1>2, <1>3, <1>4 DEF SegInv

\* An admitted frame goes into the open segment.
LEMMA FillKeeps ==
  ASSUME SegInv, NEW f \in MediaFrames, clock' \in Int,
         hs' = Muxed(Admitted(f), f), UNCHANGED playlistVars
  PROVE  SegInv'
<1> DEFINE s == Admitted(f)
<1>1. Settled(hs) /\ hs \in HlsRecords
  BY DEF SegInv, SegTypes
<1>2. /\ s \in HlsRecords /\ Settled(s) /\ s.pending = hs.pending
      /\ \A c : GoesOn(hs, c) => GoesOn(s, c)
  BY <1>1, OfAdmitted
<1>3. hs' = Muxed(s, f)
  OBVIOUS
<1> HIDE DEF s
<1>4. /\ hs' \in HlsRecords /\ Settled(hs') /\ hs'.open = s.open /\ hs'.firstCc = s.firstCc
      /\ hs'.keyed = s.keyed /\ hs'.pending = s.pending /\ hs'.filled = TRUE
  BY ZenonT(60), <1>2, <1>3, OfMuxed
<1>5. \A c : GoesOn(hs, c) => GoesOn(hs', c)
  BY <1>2, <1>4 DEF GoesOn
<1>6. hs'.pending = hs.pending
  BY <1>2, <1>4
<1> QED
  BY <1>4, <1>5, <1>6, OpenKeeps

LEMMA NextSeg == SegInv /\ [SegmenterNext]_segVars => SegInv'
<1> SUFFICES ASSUME SegInv, [SegmenterNext]_segVars PROVE SegInv'
  OBVIOUS
<1>1. clock \in Int /\ hs \in HlsRecords /\ Settled(hs)
  BY DEF SegInv, SegTypes
<1>2. ASSUME UNCHANGED <<hs, playlistVars>>, clock' \in Int PROVE SegInv'
  <2>1. hs' = hs
    BY <1>2
  <2> QED
    BY <1>1, <1>2, <2>1, OpenKeeps
<1>3. CASE UNCHANGED segVars
  BY <1>1, <1>2, <1>3 DEF segVars
<1>4. ASSUME NEW tick \in Ticks, NEW key \in BOOLEAN,
             on_video([video |-> TRUE, key |-> key, raw |-> clock + tick])
      PROVE  SegInv'
  <2> DEFINE f == [video |-> TRUE, key |-> key, raw |-> clock + tick]
  <2>1. f \in MediaFrames /\ f.raw \in Int
    <3>1. clock + tick \in Int
      BY <1>1, SegmenterAssumption
    <3> QED
      BY <3>1 DEF MediaFrames
  <2>2. on_video(f)
    BY <1>4
  <2> HIDE DEF f
  <2>3. clock' \in Int
    BY <2>1, <2>2 DEF on_video
  <2>4. \/ UNCHANGED <<hs, playlistVars>>
        \/ hs' = Muxed(begin_new_segment(Admitted(f)), f) /\ Committed(Admitted(f))
        \/ hs' = Muxed(Admitted(f), f) /\ UNCHANGED playlistVars
    BY <2>2 DEF on_video
  <2> QED
    BY <1>2, <2>1, <2>3, <2>4, CloseKeeps, FillKeeps
<1>5. CASE on_audio([video |-> FALSE, key |-> FALSE, raw |-> clock])
  <2> DEFINE f == [video |-> FALSE, key |-> FALSE, raw |-> clock]
  <2>1. f \in MediaFrames
    BY <1>1 DEF MediaFrames
  <2>2. on_audio(f)
    BY <1>5
  <2> HIDE DEF f
  <2>3. clock' \in Int /\ UNCHANGED playlistVars
    BY <1>1, <2>2 DEF on_audio
  <2>4. hs' = hs \/ hs' = Muxed(Admitted(f), f)
    BY <2>2 DEF on_audio
  <2> QED
    BY <1>2, <2>1, <2>3, <2>4, FillKeeps
<1>6. CASE Snap
  <2>1. hs' = recover_from_lag(hs) /\ UNCHANGED playlistVars /\ clock' \in Int
    BY <1>1, <1>6 DEF Snap
  <2>2. hs' \in HlsRecords /\ Settled(hs') /\ hs'.pending = TRUE
    BY <1>1, <2>1, OfLag
  <2> QED
    BY <2>1, <2>2, OpenKeeps
<1> QED
  BY <1>3, <1>4, <1>5, <1>6 DEF SegmenterNext

LEMMA InitSeg == SegmenterInit => SegInv
<1> SUFFICES ASSUME SegmenterInit PROVE SegInv
  OBVIOUS
<1> DEFINE o == 0
           none == NoRaw
<1>1. /\ hs = [primed |-> FALSE, rawVideo |-> o, videoMux |-> o, rawAudio |-> none, audioMux |-> o,
               pubRaw |-> o, pubMs |-> o, open |-> o, last |-> o, filled |-> FALSE,
               keyed |-> FALSE, firstCc |-> o, cc |-> o, pending |-> FALSE]
      /\ clock = o /\ segments = <<>> /\ committed = <<>> /\ unwritten = FALSE
      /\ media_sequence = 0 /\ discontinuity_sequence = 0 /\ next_sequence = 0
  BY DEF SegmenterInit
<1>2. o \in Int /\ none \in Int
  BY DEF NoRaw
<1> HIDE DEF o, none
<1>3. hs \in HlsRecords /\ Settled(hs)
  BY <1>1, <1>2 DEF HlsRecords, Settled
<1>4. /\ segments \in Seq(Listed) /\ committed \in Seq(Listed)
      /\ Len(segments) = 0 /\ Len(committed) = 0
  BY <1>1
<1>5. SegTypes
  BY <1>1, <1>2, <1>3, <1>4 DEF SegTypes
<1>6. DiscsTo(committed, 0) = 0
  <2>1. {j \in 1 .. 0 : committed[j].disc} = {}
    OBVIOUS
  <2> QED
    BY <2>1, FS_EmptySet DEF DiscsTo
<1>7. Windowed
  BY <1>1, <1>4, <1>6 DEF Windowed
<1>8. Marked /\ TilesOrMarked
  BY <1>1, <1>4 DEF Marked, TilesOrMarked
<1> QED
  BY <1>3, <1>5, <1>7, <1>8 DEF SegInv

LEMMA PlaylistOfInv == SegInv => PlaylistTrue
<1> SUFFICES ASSUME SegInv, NEW i \in 1 .. Len(segments)
             PROVE  /\ media_sequence + i - 1 = segments[i].seq
                    /\ segments[i] = committed[media_sequence + i]
                    /\ discontinuity_sequence + Discontinuities(SubSeq(segments, 1, i))
                         = Discontinuities(SubSeq(committed, 1, media_sequence + i))
  BY DEF PlaylistTrue, NumbersStable, SegInv
<1> DEFINE m == media_sequence
           w == SubSeq(segments, 1, i)
           c == SubSeq(committed, 1, m + i)
<1>1. /\ segments \in Seq(Listed) /\ committed \in Seq(Listed) /\ m \in Nat
      /\ Len(committed) = m + Len(segments)
      /\ \A j \in 1 .. Len(segments) : segments[j] = committed[m + j]
      /\ \A j \in 1 .. Len(committed) : committed[j].seq = j - 1
      /\ discontinuity_sequence = DiscsTo(committed, m)
  BY DEF SegInv, SegTypes, Windowed
<1> HIDE DEF Listed
<1>2. Len(segments) \in Nat /\ i \in Nat /\ i >= 1 /\ i <= Len(segments)
  BY <1>1
<1>3. m + i \in 1 .. Len(committed)
  BY <1>1, <1>2
<1>4. segments[i] = committed[m + i] /\ m + i - 1 = segments[i].seq
  BY <1>1, <1>3
<1>5. Len(w) = i /\ \A j \in 1 .. i : w[j] = segments[j]
  <2>1. \A j \in 1 .. i : segments[j] \in Listed
    BY <1>1, <1>2
  <2> QED
    BY <1>2, <2>1, SubSeqProperties
<1>6. Len(c) = m + i /\ \A j \in 1 .. m + i : c[j] = committed[j]
  <2>1. \A j \in 1 .. m + i : committed[j] \in Listed
    BY <1>1, <1>3
  <2> QED
    BY <1>1, <1>3, <2>1, SubSeqProperties
<1> HIDE DEF m, w, c
<1>7. Discontinuities(w) = DiscsTo(w, i) /\ Discontinuities(c) = DiscsTo(c, m + i)
  BY <1>5, <1>6 DEF Discontinuities, DiscsTo
<1>8. DiscsTo(c, m + i) = DiscsTo(committed, m + i)
  <2>1. m + i \in Nat
    BY <1>1, <1>2
  <2> QED
    BY <1>6, <2>1, DiscsSame
<1>9. DiscsTo(committed, m + i) = DiscsTo(committed, m) + DiscsTo(w, i)
  <2>1. \A j \in 1 .. i : w[j] = committed[m + j]
    <3> TAKE j \in 1 .. i
    <3>1. j \in 1 .. Len(segments)
      BY <1>2
    <3> QED
      BY <1>1, <1>5, <3>1
  <2> QED
    BY SMTT(30), <1>1, <1>2, <2>1, DiscsSplit
<1> QED
  BY <1>1, <1>4, <1>7, <1>8, <1>9 DEF m, w, c

LEMMA PathsKeepSeg == SegInv /\ [PathsNext]_pathVars => SegInv'
<1>1. PathsNext => [SegmenterNext]_segVars
  BY DEF PathsNext
<1>2. UNCHANGED pathVars => UNCHANGED segVars
  BY DEF pathVars
<1> QED
  BY <1>1, <1>2, NextSeg

----------------------------------------------------------------------------
\* The chunk streams (RtmpChunks_proofs).
LEMMA PathsKeepChunks == ChunksInv /\ [PathsNext]_pathVars => ChunksInv'
<1>1. PathsNext => [ChunksNext]_chunkVars
  BY DEF PathsNext
<1>2. UNCHANGED pathVars => UNCHANGED chunkVars
  BY DEF pathVars
<1> QED
  BY <1>1, <1>2, ChunksKeep
----------------------------------------------------------------------------
\* H264 over RTP.  The packets, and what it means that one follows another.
PartsOf(a, i) == AccessUnits[a][i].parts

LEMMA NalShape ==
  ASSUME NEW a \in Units, NEW i \in Nals(a)
  PROVE  /\ PartsOf(a, i) \in Nat \ {0} /\ AccessUnits[a][i].kind \in {"config", "info", "slice"}
         /\ packetize_nal(a, i) \in Seq(Packets) /\ Len(packetize_nal(a, i)) = PartsOf(a, i)
         /\ packetize_nal(a, i) # <<>>
         /\ \A j \in 1 .. PartsOf(a, i) : packetize_nal(a, i)[j] = [unit |-> a, nal |-> i, part |-> j]
         /\ Head(packetize_nal(a, i)) = [unit |-> a, nal |-> i, part |-> 1]
<1>1. AccessUnits \in Seq(Seq(SentNals))
  BY UnitsAssumption
<1>2. AccessUnits[a] \in Seq(SentNals)
  BY <1>1 DEF Units
<1>3. AccessUnits[a][i] \in SentNals
  BY <1>2 DEF Nals
<1>4. PartsOf(a, i) \in Nat \ {0} /\ AccessUnits[a][i].kind \in {"config", "info", "slice"}
  BY <1>3 DEF PartsOf, SentNals
<1>5. packetize_nal(a, i) = [j \in 1 .. PartsOf(a, i) |-> [unit |-> a, nal |-> i, part |-> j]]
  BY DEF packetize_nal, PartsOf
<1>6. \A j \in 1 .. PartsOf(a, i) : packetize_nal(a, i)[j] \in Packets
  <2>1. DOMAIN packetize_nal(a, i) = 1 .. PartsOf(a, i)
    BY <1>5
  <2>2. \A j \in DOMAIN packetize_nal(a, i) :
          packetize_nal(a, i)[j] \in {packetize_nal(a, i)[n] : n \in DOMAIN packetize_nal(a, i)}
    OBVIOUS
  <2>3. \A j \in DOMAIN packetize_nal(a, i) : packetize_nal(a, i)[j]
          \in UNION {{packetize_nal(a, n)[m] : m \in DOMAIN packetize_nal(a, n)} : n \in Nals(a)}
    BY <2>2
  <2> QED
    BY <2>1, <2>3 DEF Packets
<1>7. packetize_nal(a, i) \in Seq(Packets) /\ Len(packetize_nal(a, i)) = PartsOf(a, i)
  <2> DEFINE n == PartsOf(a, i)
             s == packetize_nal(a, i)
  <2>1. n \in Nat /\ s \in [1 .. n -> Packets]
    BY <1>4, <1>5, <1>6
  <2> HIDE DEF n, s
  <2>2. s \in Seq(Packets) /\ Len(s) = n
    BY <2>1
  <2> QED
    BY <2>2 DEF n, s
<1>8. packetize_nal(a, i) # <<>> /\ Head(packetize_nal(a, i)) = packetize_nal(a, i)[1]
  <2>1. Len(packetize_nal(a, i)) # 0
    BY <1>4, <1>7
  <2> QED
    BY <1>7, <2>1
<1> QED
  BY <1>4, <1>5, <1>7, <1>8

LEMMA PacketShape ==
  ASSUME NEW k \in Packets
  PROVE  /\ k.unit \in Units /\ k.nal \in Nals(k.unit) /\ k.part \in 1 .. PartsOf(k.unit, k.nal)
         /\ k = [unit |-> k.unit, nal |-> k.nal, part |-> k.part]
         /\ PartsOf(k.unit, k.nal) \in Nat \ {0}
         /\ k.unit \in Nat /\ k.nal \in Nat /\ k.part \in Nat /\ Len(AccessUnits[k.unit]) \in Nat
         /\ k.unit > 0 /\ k.nal > 0 /\ k.part > 0
<1>1. PICK a \in Units : \E i \in Nals(a) : \E j \in DOMAIN packetize_nal(a, i) :
        k = packetize_nal(a, i)[j]
  BY DEF Packets
<1>2. PICK i \in Nals(a) : \E j \in DOMAIN packetize_nal(a, i) : k = packetize_nal(a, i)[j]
  BY <1>1
<1>3. PICK j \in 1 .. PartsOf(a, i) : k = [unit |-> a, nal |-> i, part |-> j]
  BY <1>2 DEF packetize_nal, PartsOf
<1>4. AccessUnits[a] \in Seq(SentNals)
  BY UnitsAssumption DEF Units
<1>5. Len(AccessUnits[a]) \in Nat /\ Len(AccessUnits) \in Nat
  BY <1>4, UnitsAssumption
<1> QED
  BY <1>3, <1>5, NalShape DEF Units, Nals

LEMMA PacketOf ==
  ASSUME NEW a \in Units, NEW i \in Nals(a), NEW j \in 1 .. PartsOf(a, i)
  PROVE  [unit |-> a, nal |-> i, part |-> j] \in Packets
<1>1. packetize_nal(a, i)[j] = [unit |-> a, nal |-> i, part |-> j]
  BY NalShape
<1>2. j \in DOMAIN packetize_nal(a, i)
  BY DEF packetize_nal, PartsOf
<1> QED
  BY <1>1, <1>2 DEF Packets

LEMMA PacketsFinite == IsFiniteSet(Packets)
<1> DEFINE ofNal(a, i) == {packetize_nal(a, i)[j] : j \in DOMAIN packetize_nal(a, i)}
           ofUnit(a) == UNION {ofNal(a, i) : i \in Nals(a)}
<1>0. Len(AccessUnits) \in Nat /\ \A a \in Units : Len(AccessUnits[a]) \in Nat
  BY UnitsAssumption DEF Units
<1>1. ASSUME NEW a \in Units, NEW i \in Nals(a) PROVE IsFiniteSet(ofNal(a, i))
  <2> DEFINE S == DOMAIN packetize_nal(a, i)
             f == [j \in S |-> packetize_nal(a, i)[j]]
  <2>1. IsFiniteSet(S)
    <3>1. S = 1 .. PartsOf(a, i)
      BY DEF packetize_nal, PartsOf
    <3>2. PartsOf(a, i) \in Int
      BY NalShape
    <3> QED
      BY <3>1, <3>2, FS_Interval
  <2>2. f \in Surjection(S, ofNal(a, i))
    BY DEF Surjection
  <2> QED
    BY <2>1, <2>2, FS_Surjection
<1>2. ASSUME NEW a \in Units PROVE IsFiniteSet(ofUnit(a))
  <2> DEFINE f == [i \in Nals(a) |-> ofNal(a, i)]
             T == {ofNal(a, i) : i \in Nals(a)}
  <2>1. IsFiniteSet(Nals(a))
    BY <1>0, FS_Interval DEF Nals
  <2>2. f \in Surjection(Nals(a), T)
    BY DEF Surjection
  <2>3. IsFiniteSet(T)
    BY <2>1, <2>2, FS_Surjection
  <2> HIDE DEF ofNal
  <2> QED
    BY <1>1, <2>3, FS_UNION
<1>3. IsFiniteSet(UNION {ofUnit(a) : a \in Units})
  <2> DEFINE f == [a \in Units |-> ofUnit(a)]
             T == {ofUnit(a) : a \in Units}
  <2>1. IsFiniteSet(Units)
    BY <1>0, FS_Interval DEF Units
  <2> HIDE DEF ofUnit
  <2>2. f \in Surjection(Units, T)
    BY DEF Surjection
  <2>3. IsFiniteSet(T)
    BY <2>1, <2>2, FS_Surjection
  <2> QED
    BY <1>2, <2>3, FS_UNION
<1> QED
  BY <1>3 DEF Packets

LEMMA RankGrows ==
  ASSUME NEW o \in Packets, NEW k \in Packets
  PROVE  /\ Rank(o) \in Nat /\ Rank(k) \in Nat
         /\ Before(o, k) => Rank(o) < Rank(k)
<1> DEFINE S == {p \in Packets : Before(p, o)}
           T == {p \in Packets : Before(p, k)}
<1>1. IsFiniteSet(S) /\ IsFiniteSet(T)
  BY PacketsFinite, FS_Subset
<1>2. Cardinality(S) \in Nat /\ Cardinality(T) \in Nat
  BY <1>1, FS_CardinalityType
<1>3. ASSUME Before(o, k) PROVE Cardinality(S) < Cardinality(T)
  <2>1. \A p \in Packets : p.unit \in Nat /\ p.nal \in Nat /\ p.part \in Nat
    BY PacketShape
  <2>2. \A p \in Packets : Before(p, o) => Before(p, k)
    BY <1>3, <2>1 DEF Before
  <2>3. S \subseteq T /\ o \in T /\ o \notin S
    BY <1>3, <2>1, <2>2 DEF Before
  <2>4. Cardinality(S) <= Cardinality(T) /\ (Cardinality(S) = Cardinality(T) => S = T)
    BY <1>1, <2>3, FS_Subset
  <2> QED
    BY <1>2, <2>3, <2>4
<1> QED
  BY <1>2, <1>3 DEF Rank

\* The packet of the next place is the next fragment, the first of the next NAL, or the
\* first of a later unit.
LEMMA Neighbours ==
  ASSUME NEW f \in Packets, NEW k \in Packets, Rank(k) = Rank(f) + 1
  PROVE  \/ ~NalEnds(f) /\ k.unit = f.unit /\ k.nal = f.nal /\ k.part = f.part + 1
         \/ NalEnds(f) /\ ~Marker(f) /\ k.unit = f.unit /\ k.nal = f.nal + 1 /\ k.part = 1
         \/ Marker(f) /\ k.unit > f.unit /\ k.nal = 1 /\ k.part = 1
<1>0. /\ \A p \in Packets : /\ p.unit \in Units /\ p.nal \in Nals(p.unit)
                            /\ p.part \in 1 .. PartsOf(p.unit, p.nal)
                            /\ PartsOf(p.unit, p.nal) \in Nat \ {0} /\ Rank(p) \in Nat
                            /\ p.unit \in Nat /\ p.nal \in Nat /\ p.part \in Nat
                            /\ p.nal > 0 /\ p.part > 0 /\ Len(AccessUnits[p.unit]) \in Nat
                            /\ p = [unit |-> p.unit, nal |-> p.nal, part |-> p.part]
  BY PacketShape, RankGrows
<1>1. \A p, q \in Packets : p = q \/ Before(p, q) \/ Before(q, p)
  <2> TAKE p, q \in Packets
  <2>1. p.unit = q.unit /\ p.nal = q.nal /\ p.part = q.part => p = q
    BY <1>0
  <2>2. /\ p.unit \in Nat /\ p.nal \in Nat /\ p.part \in Nat
        /\ q.unit \in Nat /\ q.nal \in Nat /\ q.part \in Nat
    BY <1>0
  <2> QED
    BY <2>1, <2>2 DEF Before
<1>2. Before(f, k)
  BY <1>0, <1>1, RankGrows
<1>3. ASSUME NEW s \in Packets, Before(f, s) PROVE s = k \/ Before(k, s)
  <2>1. Rank(f) < Rank(s)
    BY <1>3, RankGrows
  <2>2. Before(s, k) => Rank(s) < Rank(k)
    BY RankGrows
  <2> QED
    BY <1>0, <1>1, <2>1, <2>2
<1>4. CASE ~NalEnds(f)
  <2> DEFINE s == [unit |-> f.unit, nal |-> f.nal, part |-> f.part + 1]
  <2>1. f.part + 1 \in 1 .. PartsOf(f.unit, f.nal)
    BY <1>0, <1>4 DEF NalEnds, PartsOf
  <2>2. s \in Packets
    BY <1>0, <2>1, PacketOf
  <2>3. s = k \/ Before(k, s)
    BY SMTT(30), <1>0, <1>3, <2>2 DEF Before
  <2> QED
    BY <1>0, <1>2, <1>4, <2>3 DEF Before
<1>5. CASE NalEnds(f) /\ ~Marker(f)
  <2> DEFINE s == [unit |-> f.unit, nal |-> f.nal + 1, part |-> 1]
  <2>1. f.nal + 1 \in Nals(f.unit)
    BY <1>0, <1>5 DEF Marker, Nals
  <2>2. s \in Packets
    <3>1. PartsOf(f.unit, f.nal + 1) \in Nat \ {0}
      BY <1>0, <2>1, NalShape
    <3> QED
      BY SMTT(30), <1>0, <2>1, <3>1, PacketOf
  <2>3. s = k \/ Before(k, s)
    BY SMTT(30), <1>0, <1>3, <2>2 DEF Before
  <2>4. k.unit = f.unit /\ k.nal \in {f.nal, f.nal + 1}
    BY <1>0, <1>2, <2>3 DEF Before
  <2>5. k.nal # f.nal
    BY <1>0, <1>2, <1>5, <2>4 DEF Before, NalEnds, PartsOf
  <2> QED
    BY <1>0, <1>5, <2>3, <2>4, <2>5 DEF Before
<1>6. CASE Marker(f)
  <2>1. k.unit > f.unit
    <3>1. ~(k.unit = f.unit /\ k.nal > f.nal)
      BY <1>0, <1>6 DEF Marker, Nals
    <3>2. ~(k.unit = f.unit /\ k.nal = f.nal /\ k.part > f.part)
      BY <1>0, <1>6 DEF Marker, NalEnds, PartsOf
    <3> QED
      BY <1>0, <1>2, <3>1, <3>2 DEF Before
  <2> DEFINE s == [unit |-> k.unit, nal |-> 1, part |-> 1]
  <2>2. 1 \in Nals(k.unit)
    BY <1>0 DEF Nals
  <2>3. s \in Packets
    <3>1. PartsOf(k.unit, 1) \in Nat \ {0}
      BY <1>0, <2>2, NalShape
    <3> QED
      BY <1>0, <2>2, <3>1, PacketOf
  <2>4. s = k \/ Before(k, s)
    BY <1>0, <1>3, <2>1, <2>3 DEF Before
  <2> QED
    BY <1>0, <1>6, <2>1, <2>4 DEF Before
<1> QED
  BY <1>4, <1>5, <1>6 DEF Marker

----------------------------------------------------------------------------
\* The invariant.  Of NALs that were assembled it says which they are, of the unit under
\* way how far it is, and of one that came whole so far that nothing is missing.
Fragments(k, n) == [j \in 1 .. n |-> packetize_nal(k.unit, k.nal)[j]]
NalsWhole(a, S) == {packetize_nal(a, i) : i \in S}
Members(nals) == {nals[i] : i \in DOMAIN nals}
OfUnit(nals, a) ==
  /\ a \in Units /\ nals \in Seq(NalsWhole(a, Nals(a)))
  /\ \A i, j \in DOMAIN nals : i < j => Head(nals[i]).nal < Head(nals[j]).nal
HasMedia(nals, a, S) == Members(nals) = NalsWhole(a, S)

IngestTypes ==
  /\ last \in Packets \cup {NoPacket} /\ whole \in BOOLEAN /\ open \in BOOLEAN
  /\ batchUnit \in Units \cup {0}
Expecting == expected = IF last = NoPacket THEN NoSeq ELSE (Number(last) + 1) % 65536
UnderWay ==
  fu # <<>> => /\ last # NoPacket /\ Fragmented(last) /\ ~NalEnds(last)
               /\ fu = Fragments(last, last.part)
Batched ==
  batch # <<>> =>
    /\ last # NoPacket /\ OfUnit(batch, batchUnit) /\ batchUnit <= last.unit
    /\ batchUnit = last.unit =>
         \A i \in DOMAIN batch : \/ Head(batch[i]).nal < last.nal
                                 \/ Head(batch[i]).nal = last.nal /\ NalEnds(last)
MediaBefore(a, n) == {i \in Media(a) : i < n}
SoFar ==
  open /\ whole =>
    /\ last # NoPacket
    /\ Fragmented(last) /\ ~NalEnds(last) => fu # <<>>
    /\ ~Marker(last) =>
         LET done == MediaBefore(last.unit, IF NalEnds(last) THEN last.nal + 1 ELSE last.nal)
         IN  IF batch = <<>> \/ batchUnit # last.unit THEN done = {}
             ELSE HasMedia(batch, last.unit, done)
PublishedWhole == \A u \in published : u # <<>> /\ \E a \in Units : OfUnit(u, a)
CleanPublished ==
  \A a \in clean : ShowsEnd(a) => \E u \in published : HasMedia(u, a, Media(a))
IngestInv ==
  /\ IngestTypes /\ Expecting /\ UnderWay /\ Batched /\ SoFar
  /\ PublishedWhole /\ CleanPublished

LEMMA InitIngest == IngestInit => IngestInv
<1> SUFFICES ASSUME IngestInit PROVE IngestInv
  OBVIOUS
<1>1. IngestTypes
  <2> QED
    BY DEF IngestInit, IngestTypes
<1>3. Expecting /\ UnderWay /\ Batched
  BY DEF IngestInit, Expecting, UnderWay, Batched
<1>2. SoFar /\ PublishedWhole /\ CleanPublished
  BY DEF IngestInit, SoFar, PublishedWhole, CleanPublished
<1> QED
  BY <1>1, <1>2, <1>3 DEF IngestInv

\* The number that comes next is the next packet's only: what else has it is further away
\* than packets are lost or late.
LEMMA NoPacketIsNone == NoPacket \notin Packets
BY PacketShape DEF NoPacket

LEMMA Aliases ==
  ASSUME NEW f \in Nat, NEW r \in Nat, NEW s \in Nat, NEW l \in Nat, NEW m \in Nat,
         s >= r - l, s <= r + m, l + m < 65535
  PROVE  (f + s) % 65536 = (((f + r) % 65536) + 1) % 65536 <=> s = r + 1
OBVIOUS

LEMMA GapSeen ==
  ASSUME IngestInv, NEW k \in Packets,
         last # NoPacket => Rank(k) \in Rank(last) - Lateness .. Rank(last) + Losses
  PROVE  Gap(k, Number(k)) <=> (last # NoPacket /\ ~Follows(k))
<1>1. CASE last = NoPacket
  BY <1>1 DEF Gap, IngestInv, Expecting
<1>2. CASE last # NoPacket
  <2>1. last \in Packets
    BY <1>2 DEF IngestInv, IngestTypes
  <2>2. Rank(last) \in Nat /\ Rank(k) \in Nat
    BY <2>1, RankGrows
  <2>3. FirstSeq \in Nat /\ Lateness \in Nat /\ Losses \in Nat
    BY IngestAssumption
  <2>4. Number(k) = (Number(last) + 1) % 65536 <=> Rank(k) = Rank(last) + 1
    <3>1. Rank(k) >= Rank(last) - Lateness /\ Rank(k) <= Rank(last) + Losses
      BY <1>2, <2>2, <2>3
    <3> QED
      BY <2>2, <2>3, <3>1, LossesAssumption, Aliases DEF Number
  <2>5. expected = (Number(last) + 1) % 65536
    BY <1>2 DEF IngestInv, Expecting
  <2>6. expected # NoSeq
    BY <2>2, <2>3, <2>5 DEF Number, NoSeq
  <2> QED
    BY <1>2, <2>4, <2>5, <2>6 DEF Gap, Follows
<1> QED
  BY <1>1, <1>2

\* What a packet makes of the fragments that are its NAL's so far.
LEMMA Assembles ==
  ASSUME NEW k \in Packets, NEW buffer,
         buffer # <<>> => Fragmented(k) /\ k.part > 1 /\ buffer = Fragments(k, k.part - 1)
  PROVE  /\ Complete(k, buffer) # <<>> => NalEnds(k) /\ Complete(k, buffer) = packetize_nal(k.unit, k.nal)
         /\ Collected(k, buffer) # <<>> => Collected(k, buffer) = Fragments(k, k.part)
         /\ (k.part = 1 \/ buffer # <<>>) =>
              /\ Collected(k, buffer) # <<>>
              /\ NalEnds(k) => Complete(k, buffer) # <<>>
<1> DEFINE s == packetize_nal(k.unit, k.nal)
           n == PartsOf(k.unit, k.nal)
<1>1. /\ n \in Nat \ {0} /\ k.part \in 1 .. n
      /\ k = [unit |-> k.unit, nal |-> k.nal, part |-> k.part]
      /\ k.unit \in Units /\ k.nal \in Nals(k.unit)
  BY PacketShape
<1>2. s = [j \in 1 .. n |-> [unit |-> k.unit, nal |-> k.nal, part |-> j]]
  BY DEF packetize_nal, PartsOf
<1>3. s[k.part] = k
  BY <1>1, <1>2
<1>4. NalEnds(k) <=> k.part = n
  BY DEF NalEnds, PartsOf
<1>5. Fragmented(k) <=> n > 1
  BY DEF Fragmented, PartsOf
<1>6. k.part = 1 => <<k>> = Fragments(k, k.part)
  BY <1>1, <1>3 DEF Fragments
<1>7. k.part = n => Fragments(k, k.part) = s
  BY <1>2 DEF Fragments
<1>8. ASSUME buffer # <<>>, k.part # 1 PROVE Append(buffer, k) = Fragments(k, k.part) /\ Append(buffer, k) # <<>>
  <2> DEFINE m == k.part - 1
             b == Fragments(k, m)
  <2>1. m \in Nat /\ k.part = m + 1 /\ buffer = b
    BY <1>1, <1>8
  <2>2. b = [j \in 1 .. m |-> s[j]] /\ \A j \in 1 .. m : s[j] \in Packets
    <3>1. s \in Seq(Packets) /\ Len(s) = n
      BY <1>1, NalShape
    <3> QED
      BY <1>1, <3>1 DEF Fragments
  <2>3. b \in Seq(Packets) /\ Len(b) = m
    <3> HIDE DEF s, m
    <3>1. b \in [1 .. m -> Packets]
      BY <2>2
    <3> QED
      BY <2>1, <3>1
  <2>4. Append(b, k) = [j \in 1 .. m + 1 |-> IF j <= m THEN b[j] ELSE k]
    <3> HIDE DEF b, m
    <3>1. /\ Append(b, k) \in Seq(Packets) /\ Len(Append(b, k)) = m + 1
          /\ \A j \in 1 .. m : Append(b, k)[j] = b[j]
          /\ Append(b, k)[m + 1] = k
      BY <2>3, AppendProperties
    <3>2. Append(b, k) \in [1 .. m + 1 -> Packets]
      BY <3>1, LenProperties
    <3>3. \A j \in 1 .. m + 1 : Append(b, k)[j] = IF j <= m THEN b[j] ELSE k
      BY <2>1, <3>1
    <3> QED
      BY <3>2, <3>3
  <2>5. Fragments(k, k.part) = [j \in 1 .. m + 1 |-> s[j]]
    BY <2>1 DEF Fragments
  <2>6. \A j \in 1 .. m + 1 : (IF j <= m THEN b[j] ELSE k) = s[j]
    BY <1>3, <2>1, <2>2
  <2>7. Append(b, k) # <<>>
    <3> HIDE DEF b
    <3> QED
      BY <2>3, AppendProperties
  <2> QED
    BY <2>1, <2>4, <2>5, <2>6, <2>7
<1>9. <<k>> # <<>>
  OBVIOUS
<1> HIDE DEF s, n
<1> QED
  BY <1>1, <1>4, <1>5, <1>6, <1>7, <1>8, <1>9 DEF Complete, Collected, s

\* What a packet finds: nothing behind a gap, else what the packet before it left.
Buffer(k) == IF Gap(k, Number(k)) THEN <<>> ELSE fu
Batch(k) == IF Gap(k, Number(k)) THEN <<>> ELSE batch
FitsBuffer(k) ==
  Buffer(k) # <<>> => Fragmented(k) /\ k.part > 1 /\ Buffer(k) = Fragments(k, k.part - 1)
FitsBatch(k) ==
  Batch(k) # <<>> =>
    /\ OfUnit(Batch(k), batchUnit) /\ batchUnit <= k.unit
    /\ batchUnit = k.unit => \A i \in DOMAIN Batch(k) : Head(Batch(k)[i]).nal < k.nal
Complements(k) ==
  /\ k.part > 1 => Buffer(k) # <<>> /\ ~Gap(k, Number(k))
  /\ IF Batch(k) = <<>> \/ batchUnit # k.unit THEN MediaBefore(k.unit, k.nal) = {}
     ELSE HasMedia(Batch(k), k.unit, MediaBefore(k.unit, k.nal))

LEMMA PacketFinds ==
  ASSUME IngestInv, NEW k \in Packets, Deliver(k)
  PROVE  /\ FitsBuffer(k) /\ FitsBatch(k)
         /\ whole' => Complements(k)
<1>1. Gap(k, Number(k)) <=> (last # NoPacket /\ ~Follows(k))
  BY GapSeen DEF Deliver
<1>2. /\ k.unit \in Nat /\ k.nal \in Nat /\ k.part \in Nat /\ k.unit \in Units
      /\ k.part \in 1 .. PartsOf(k.unit, k.nal) /\ PartsOf(k.unit, k.nal) \in Nat
      /\ k.nal > 0 /\ k.part > 0
  BY PacketShape
<1>3. last # NoPacket => /\ last \in Packets /\ last.unit \in Nat /\ last.nal \in Nat
                         /\ last.part \in Nat
  BY PacketShape DEF IngestInv, IngestTypes
<1>4. last # NoPacket /\ Follows(k) =>
        \/ ~NalEnds(last) /\ k.unit = last.unit /\ k.nal = last.nal /\ k.part = last.part + 1
        \/ NalEnds(last) /\ ~Marker(last) /\ k.unit = last.unit /\ k.nal = last.nal + 1 /\ k.part = 1
        \/ Marker(last) /\ k.unit > last.unit /\ k.nal = 1 /\ k.part = 1
  BY <1>3, Neighbours DEF Follows
<1>5. Marker(last) => NalEnds(last)
  BY DEF Marker
<1>6. batchUnit \in Nat
  <2>1. Len(AccessUnits) \in Nat
    BY UnitsAssumption
  <2> QED
    BY <2>1 DEF IngestInv, IngestTypes, Units
<1>7. FitsBuffer(k)
  <2> SUFFICES ASSUME Buffer(k) # <<>>
               PROVE  Fragmented(k) /\ k.part > 1 /\ Buffer(k) = Fragments(k, k.part - 1)
    BY DEF FitsBuffer
  <2>1. /\ ~Gap(k, Number(k)) /\ Buffer(k) = fu /\ fu # <<>>
    BY DEF Buffer
  <2>2. last # NoPacket /\ Fragmented(last) /\ ~NalEnds(last) /\ fu = Fragments(last, last.part)
    BY <2>1 DEF IngestInv, UnderWay
  <2>3. k.unit = last.unit /\ k.nal = last.nal /\ k.part = last.part + 1
    BY <1>1, <1>4, <1>5, <2>1, <2>2
  <2>4. last.part > 0
    BY <1>3, <2>2, PacketShape
  <2>5. k.part > 1 /\ k.part - 1 = last.part
    BY <1>3, <2>2, <2>3, <2>4
  <2>6. Fragmented(k) <=> Fragmented(last)
    BY <2>3 DEF Fragmented
  <2>7. Fragments(k, last.part) = Fragments(last, last.part)
    BY <2>3 DEF Fragments
  <2> QED
    BY <2>1, <2>2, <2>5, <2>6, <2>7
<1>8. FitsBatch(k)
  <2> SUFFICES ASSUME Batch(k) # <<>>
               PROVE  /\ OfUnit(batch, batchUnit) /\ batchUnit <= k.unit /\ Batch(k) = batch
                      /\ batchUnit = k.unit => \A i \in DOMAIN batch : Head(batch[i]).nal < k.nal
    BY DEF FitsBatch
  <2>1. ~Gap(k, Number(k)) /\ Batch(k) = batch /\ batch # <<>>
    BY DEF Batch
  <2>2. /\ last # NoPacket /\ OfUnit(batch, batchUnit) /\ batchUnit <= last.unit
        /\ batchUnit = last.unit =>
             \A i \in DOMAIN batch : \/ Head(batch[i]).nal < last.nal
                                     \/ Head(batch[i]).nal = last.nal /\ NalEnds(last)
    BY <2>1 DEF IngestInv, Batched
  <2>3. Follows(k) /\ batchUnit <= k.unit /\ (batchUnit = k.unit => batchUnit = last.unit)
    BY <1>1, <1>2, <1>3, <1>4, <1>6, <2>1, <2>2
  <2>4. ASSUME batchUnit = k.unit, NEW i \in DOMAIN batch PROVE Head(batch[i]).nal < k.nal
    <3>1. Head(batch[i]).nal < last.nal \/ (Head(batch[i]).nal = last.nal /\ NalEnds(last))
      BY <2>2, <2>3, <2>4
    <3>2. k.unit = last.unit
      BY <2>3, <2>4
    <3>3. Head(batch[i]).nal \in Nat
      <4>1. batch[i] \in NalsWhole(batchUnit, Nals(batchUnit)) /\ batchUnit \in Units
        BY <2>2 DEF OfUnit
      <4>2. PICK n \in Nals(batchUnit) : batch[i] = packetize_nal(batchUnit, n)
        BY <4>1 DEF NalsWhole
      <4> QED
        BY <4>1, <4>2, NalShape DEF Nals
    <3> QED
      BY <1>2, <1>3, <1>4, <2>2, <2>3, <3>1, <3>2, <3>3
  <2> QED
    BY <2>1, <2>2, <2>3, <2>4
<1>9. ASSUME whole' PROVE Complements(k)
  <2>0. (k.nal = 1 /\ k.part = 1) \/ (whole /\ Follows(k))
    BY <1>9 DEF Deliver
  <2>1. CASE k.nal = 1 /\ k.part = 1
    <3>1. MediaBefore(k.unit, k.nal) = {}
      BY <2>1 DEF MediaBefore, Media, Nals
    <3>2. Batch(k) = <<>> \/ batchUnit # k.unit
      <4> SUFFICES ASSUME Batch(k) # <<>>, batchUnit = k.unit PROVE FALSE
        OBVIOUS
      <4>1. /\ OfUnit(Batch(k), batchUnit)
            /\ \A i \in DOMAIN Batch(k) : Head(Batch(k)[i]).nal < 1
        BY <1>8, <2>1 DEF FitsBatch
      <4>2. Batch(k) \in Seq(NalsWhole(batchUnit, Nals(batchUnit))) /\ batchUnit \in Units
        BY <4>1 DEF OfUnit
      <4>3. 1 \in DOMAIN Batch(k) /\ Batch(k)[1] \in NalsWhole(batchUnit, Nals(batchUnit))
        BY <4>2
      <4>4. PICK n \in Nals(batchUnit) : Batch(k)[1] = packetize_nal(batchUnit, n)
        BY <4>3 DEF NalsWhole
      <4>5. Head(Batch(k)[1]).nal = n /\ n \in Nat /\ n > 0
        BY <4>2, <4>4, NalShape DEF Nals
      <4> QED
        BY <4>1, <4>3, <4>5
    <3> QED
      BY <2>1, <3>1, <3>2 DEF Complements
  <2>2. CASE whole /\ Follows(k) /\ ~(k.nal = 1 /\ k.part = 1)
    <3>0. open
      BY DEF Deliver
    <3>1. last # NoPacket /\ ~Gap(k, Number(k)) /\ Buffer(k) = fu /\ Batch(k) = batch
      BY <1>1, <2>2 DEF Follows, Buffer, Batch
    <3>2. k.unit = last.unit /\ ~Marker(last)
      BY <1>4, <1>5, <2>2, <3>1
    <3>3. /\ Fragmented(last) /\ ~NalEnds(last) => fu # <<>>
          /\ LET done == MediaBefore(last.unit, IF NalEnds(last) THEN last.nal + 1 ELSE last.nal)
             IN  IF batch = <<>> \/ batchUnit # last.unit THEN done = {}
                 ELSE HasMedia(batch, last.unit, done)
      BY <2>2, <3>0, <3>2 DEF IngestInv, SoFar
    <3>4. (IF NalEnds(last) THEN last.nal + 1 ELSE last.nal) = k.nal
      BY <1>4, <1>5, <2>2, <3>1, <3>2
    <3>5. ASSUME k.part > 1 PROVE fu # <<>>
      <4>1. ~NalEnds(last) /\ k.nal = last.nal
        BY <1>4, <1>5, <2>2, <3>1, <3>5
      <4>2. Fragmented(last)
        BY <1>2, <3>2, <3>5, <4>1 DEF Fragmented, PartsOf
      <4> QED
        BY <3>3, <4>1, <4>2
    <3> QED
      BY <3>1, <3>2, <3>3, <3>4, <3>5 DEF Complements
  <2> QED
    BY <2>0, <2>1, <2>2
<1> QED
  BY <1>7, <1>8, <1>9

\* A NAL joins those of its unit.
LEMMA NalJoins ==
  ASSUME NEW a \in Units, NEW n \in Nals(a), NEW nals, NEW nal, nal = packetize_nal(a, n),
         nals = <<>> \/ (OfUnit(nals, a) /\ \A i \in DOMAIN nals : Head(nals[i]).nal < n)
  PROVE  LET now == Append(nals, nal)
         IN  /\ OfUnit(now, a) /\ now # <<>> /\ \A i \in DOMAIN now : Head(now[i]).nal <= n
             /\ Members(now) = Members(nals) \cup {nal}
<1> DEFINE S == NalsWhole(a, Nals(a))
           now == Append(nals, nal)
<1>1. nal \in S /\ nals \in Seq(S)
  <2>1. nal \in S
    BY DEF NalsWhole
  <2>2. OfUnit(nals, a) => nals \in Seq(S)
    BY DEF OfUnit
  <2>3. <<>> \in Seq(S)
    <3> HIDE DEF S
    <3> QED
      OBVIOUS
  <2> QED
    BY <2>1, <2>2, <2>3
<1>2. \A s \in S : Head(s).nal \in Nat
  BY NalShape DEF NalsWhole, Nals
<1>3. Head(nal).nal = n /\ n \in Nat
  BY NalShape DEF Nals
<1> HIDE DEF S
<1>4. /\ now \in Seq(S) /\ now # <<>> /\ Len(now) = Len(nals) + 1 /\ Len(nals) \in Nat
      /\ \A i \in 1 .. Len(nals) : now[i] = nals[i]
      /\ now[Len(nals) + 1] = nal
      /\ DOMAIN nals = 1 .. Len(nals) /\ DOMAIN now = 1 .. Len(nals) + 1
  BY <1>1, AppendProperties, LenProperties
<1> HIDE DEF now
<1>5. \A i \in 1 .. Len(nals) : Head(nals[i]).nal < n /\ Head(nals[i]).nal \in Nat
  <2> TAKE i \in 1 .. Len(nals)
  <2>1. nals # <<>>
    BY <1>1, <1>4
  <2>2. nals[i] \in S
    BY <1>1
  <2> QED
    BY <1>2, <1>4, <2>1, <2>2
<1>6. ASSUME NEW i \in DOMAIN now, NEW j \in DOMAIN now, i < j
      PROVE  Head(now[i]).nal < Head(now[j]).nal
  <2>1. i \in 1 .. Len(nals) /\ now[i] = nals[i]
    BY <1>4, <1>6
  <2>2. CASE j = Len(nals) + 1
    BY <1>3, <1>4, <1>5, <2>1, <2>2
  <2>3. CASE j # Len(nals) + 1
    <3>1. j \in 1 .. Len(nals) /\ now[j] = nals[j]
      BY <1>4, <2>3
    <3>2. nals # <<>>
      BY <1>1, <1>4, <2>1
    <3> QED
      BY <1>4, <1>6, <2>1, <3>1, <3>2 DEF OfUnit
  <2> QED
    BY <2>2, <2>3
<1>7. \A i \in DOMAIN now : Head(now[i]).nal <= n
  BY <1>3, <1>4, <1>5
<1>8. Members(now) = Members(nals) \cup {nal}
  <2>1. \A x \in Members(now) : x \in Members(nals) \cup {nal}
    <3> TAKE x \in Members(now)
    <3>1. PICK i \in DOMAIN now : x = now[i]
      BY DEF Members
    <3> QED
      BY <1>4, <3>1 DEF Members
  <2>2. Members(nals) \subseteq Members(now)
    <3> SUFFICES ASSUME NEW i \in DOMAIN nals PROVE nals[i] \in Members(now)
      BY DEF Members
    <3>1. i \in DOMAIN now /\ now[i] = nals[i]
      BY <1>4
    <3> QED
      BY <3>1 DEF Members
  <2>3. nal \in Members(now)
    <3>1. Len(nals) + 1 \in DOMAIN now
      BY <1>4
    <3> QED
      BY <1>4, <3>1 DEF Members
  <2> QED
    BY <2>1, <2>2, <2>3
<1> QED
  BY <1>4, <1>6, <1>7, <1>8 DEF OfUnit, S, now

LEMMA FlushedWhole ==
  ASSUME NEW nals, NEW a, nals # <<>>, OfUnit(nals, a)
  PROVE  /\ \A u \in Flushed(nals) : u # <<>> /\ \E b \in Units : OfUnit(u, b)
         /\ ShowsEnd(a) /\ HasMedia(nals, a, Media(a)) =>
              \E u \in Flushed(nals) : HasMedia(u, a, Media(a))
<1>0. a \in Units
  BY DEF OfUnit
<1>1. \A u \in Flushed(nals) : u # <<>> /\ \E b \in Units : OfUnit(u, b)
  BY <1>0 DEF Flushed
<1>2. ASSUME ShowsEnd(a), HasMedia(nals, a, Media(a)) PROVE nals \in Flushed(nals)
  <2>1. PICK i \in Nals(a) : AccessUnits[a][i].kind = "slice"
    BY <1>2 DEF ShowsEnd
  <2>2. i \in Media(a)
    BY <2>1 DEF Media
  <2>3. packetize_nal(a, i) \in Members(nals)
    BY <1>2, <2>2 DEF HasMedia, NalsWhole
  <2>4. PICK n \in DOMAIN nals : nals[n] = packetize_nal(a, i)
    BY <2>3 DEF Members
  <2>5. Kind(nals[n]) = "slice"
    BY <1>0, <2>1, <2>4, NalShape DEF Kind
  <2> QED
    BY <2>5 DEF Flushed
<1> QED
  BY <1>1, <1>2

LEMMA DeliverKeeps ==
  ASSUME IngestInv, NEW k \in Packets, Deliver(k)
  PROVE  IngestInv'
<1> DEFINE gap == Gap(k, Number(k))
           nal == Complete(k, Buffer(k))
           upto == IF NalEnds(k) THEN k.nal + 1 ELSE k.nal
<1>1. /\ FitsBuffer(k) /\ FitsBatch(k) /\ (whole' => Complements(k))
  BY PacketFinds
<1>2. /\ k.unit \in Units /\ k.nal \in Nals(k.unit) /\ k.unit \in Nat /\ k.nal \in Nat
      /\ k.part \in Nat /\ k.part > 0 /\ k # NoPacket
  BY PacketShape, NoPacketIsNone
<1>3. /\ nal # <<>> => NalEnds(k) /\ nal = packetize_nal(k.unit, k.nal)
      /\ Collected(k, Buffer(k)) # <<>> => Collected(k, Buffer(k)) = Fragments(k, k.part)
      /\ (k.part = 1 \/ Buffer(k) # <<>>) =>
           /\ Collected(k, Buffer(k)) # <<>>
           /\ NalEnds(k) => nal # <<>>
  BY <1>1, Assembles DEF FitsBuffer
<1>4. /\ last' = k /\ open /\ open' = open
      /\ whole' = ((k.nal = 1 /\ k.part = 1) \/ (whole /\ Follows(k)))
      /\ clean' = IF whole' /\ Marker(k) THEN clean \cup {k.unit} ELSE clean
      /\ expected' = (Number(k) + 1) % 65536
  BY DEF Deliver, ingest_rtp_packet
<1>5. \/ /\ gap /\ is_fu_a_continuation(k)
         /\ fu' = <<>> /\ batch' = <<>> /\ UNCHANGED <<batchUnit, published>>
      \/ /\ ~(gap /\ is_fu_a_continuation(k))
         /\ fu' = IF ~Fragmented(k) THEN Buffer(k)
                  ELSE IF NalEnds(k) THEN <<>> ELSE Collected(k, Buffer(k))
         /\ \/ /\ nal = <<>> \/ Kind(nal) = "config"
               /\ batch' = Batch(k) /\ UNCHANGED <<batchUnit, published>>
            \/ /\ nal # <<>> /\ Kind(nal) # "config"
               /\ Joins(k, nal, Batch(k))
  BY DEF Deliver, ingest_rtp_packet, Buffer, Batch
<1>6. Expecting'
  <2>1. Number(k)' = Number(k)
    BY DEF Number, Rank
  <2> QED
    BY <1>2, <1>4, <2>1 DEF Expecting
<1>7. UnderWay'
  <2>1. ASSUME fu' # <<>> PROVE Fragmented(k) /\ ~NalEnds(k) /\ fu' = Fragments(k, k.part)
    BY <1>1, <1>3, <1>5, <2>1 DEF FitsBuffer
  <2> QED
    BY <1>2, <1>4, <2>1 DEF UnderWay
<1>8. whole' => /\ Fragmented(k) /\ ~NalEnds(k) => fu' # <<>>
                /\ ~(gap /\ is_fu_a_continuation(k))
                /\ NalEnds(k) => nal # <<>>
  <2>1. ASSUME whole' PROVE /\ k.part = 1 \/ Buffer(k) # <<>>
                            /\ ~(gap /\ is_fu_a_continuation(k))
    BY <1>1, <1>2, <2>1 DEF Complements, is_fu_a_continuation
  <2> QED
    BY <1>3, <1>5, <2>1
<1>9. nal # <<>> => Kind(nal) = AccessUnits[k.unit][k.nal].kind
  BY <1>2, <1>3, NalShape DEF Kind
<1>10. MediaBefore(k.unit, upto) =
         MediaBefore(k.unit, k.nal)
           \cup (IF NalEnds(k) /\ k.nal \in Media(k.unit) THEN {k.nal} ELSE {})
  <2>1. \A i \in Media(k.unit) : i \in Nat
    BY DEF Media, Nals
  <2> QED
    BY <1>2, <2>1 DEF MediaBefore
<1>11. Marker(k) => MediaBefore(k.unit, upto) = Media(k.unit)
  <2>1. \A i \in Media(k.unit) : i \in Nat /\ i <= Len(AccessUnits[k.unit])
    BY DEF Media, Nals
  <2> QED
    BY <1>2, <2>1 DEF MediaBefore, Marker
<1>12. k.nal \in Media(k.unit) <=> AccessUnits[k.unit][k.nal].kind # "config"
  BY <1>2 DEF Media
<1>13. ShowsEnd(k.unit) /\ Marker(k) => k.nal \in Media(k.unit)
  BY DEF ShowsEnd, Marker
<1> HIDE DEF upto
\* Whatever becomes of the batch, these four are left to show.
<1>20. ASSUME batchUnit' \in Units \cup {0},
              Batched', PublishedWhole',
              published \subseteq published',
              whole' /\ ~Marker(k) =>
                IF batch' = <<>> \/ batchUnit' # k.unit THEN MediaBefore(k.unit, upto) = {}
                ELSE HasMedia(batch', k.unit, MediaBefore(k.unit, upto)),
              whole' /\ Marker(k) /\ ShowsEnd(k.unit) =>
                \E u \in published' : HasMedia(u, k.unit, Media(k.unit))
       PROVE  IngestInv'
  <2>1. IngestTypes'
    <3>1. Packets' = Packets /\ Units' = Units
      BY DEF Packets, Units
    <3>2. whole' \in BOOLEAN
      BY <1>4
    <3> QED
      BY <1>4, <1>20, <3>1, <3>2 DEF IngestTypes, IngestInv
  <2>2. SoFar'
    BY <1>2, <1>4, <1>8, <1>20 DEF SoFar, upto
  <2>3. CleanPublished'
    <3> SUFFICES ASSUME NEW a \in clean', ShowsEnd(a)
                 PROVE  \E u \in published' : HasMedia(u, a, Media(a))
      BY DEF CleanPublished
    <3>1. CASE a \in clean
      BY <1>20, <3>1 DEF IngestInv, CleanPublished
    <3>2. CASE a \notin clean
      BY <1>4, <1>20, <3>2
    <3> QED
      BY <3>1, <3>2
  <2> QED
    BY <1>6, <1>7, <1>20, <2>1, <2>2, <2>3 DEF IngestInv
<1>14. CASE gap /\ is_fu_a_continuation(k)
  <2>1. batch' = <<>> /\ UNCHANGED <<batchUnit, published>> /\ ~whole'
    BY <1>5, <1>8, <1>14
  <2>2. Batched' /\ PublishedWhole' /\ batchUnit' \in Units \cup {0}
    BY <2>1 DEF Batched, PublishedWhole, IngestInv, IngestTypes
  <2> QED
    BY <1>20, <2>1, <2>2
<1>15. CASE /\ ~(gap /\ is_fu_a_continuation(k)) /\ (nal = <<>> \/ Kind(nal) = "config")
            /\ batch' = Batch(k) /\ UNCHANGED <<batchUnit, published>>
  <2>1. batch' = Batch(k) /\ UNCHANGED <<batchUnit, published>>
    BY <1>15
  <2>2. batchUnit' \in Units \cup {0} /\ PublishedWhole'
    BY <2>1 DEF IngestInv, IngestTypes, PublishedWhole
  <2>3. Batched'
    BY <1>1, <1>2, <1>4, <2>1 DEF Batched, FitsBatch
  <2>4. ASSUME whole' PROVE ~(NalEnds(k) /\ k.nal \in Media(k.unit))
    BY <1>8, <1>9, <1>12, <1>15, <2>4
  <2>5. ASSUME whole' PROVE
          IF batch' = <<>> \/ batchUnit' # k.unit THEN MediaBefore(k.unit, upto) = {}
          ELSE HasMedia(batch', k.unit, MediaBefore(k.unit, upto))
    BY <1>1, <1>10, <2>1, <2>4, <2>5 DEF Complements
  <2>6. whole' /\ Marker(k) => ~ShowsEnd(k.unit)
    BY <1>13, <2>4 DEF Marker
  <2> QED
    BY <1>20, <2>1, <2>2, <2>3, <2>5, <2>6
<1>16. CASE nal # <<>> /\ Kind(nal) # "config" /\ Joins(k, nal, Batch(k))
  <2> DEFINE turn == Batch(k) # <<>> /\ batchUnit # k.unit
             old == IF turn THEN <<>> ELSE Batch(k)
             now == Append(old, nal)
  <2>1. /\ published' = published \cup (IF turn THEN Flushed(Batch(k)) ELSE {})
                                  \cup (IF Marker(k) THEN Flushed(now) ELSE {})
        /\ batch' = (IF Marker(k) THEN <<>> ELSE now) /\ batchUnit' = k.unit
    <3>1. <<nal>> = Append(<<>>, nal)
      OBVIOUS
    <3> QED
      BY <1>16, <3>1 DEF Joins
  <2>2. /\ OfUnit(now, k.unit) /\ now # <<>> /\ \A i \in DOMAIN now : Head(now[i]).nal <= k.nal
        /\ Members(now) = Members(old) \cup {nal}
    <3>1. nal = packetize_nal(k.unit, k.nal)
      BY <1>3, <1>16
    <3>2. old = <<>> \/ (OfUnit(old, k.unit) /\ \A i \in DOMAIN old : Head(old[i]).nal < k.nal)
      BY <1>1 DEF FitsBatch
    <3> HIDE DEF now, old
    <3>3. now = Append(old, nal)
      BY DEF now
    <3> QED
      BY <1>2, <3>1, <3>2, <3>3, NalJoins
  <2>3. NalEnds(k) /\ k.nal \in Media(k.unit)
    BY <1>3, <1>9, <1>12, <1>16
  <2>4. whole' => HasMedia(now, k.unit, MediaBefore(k.unit, upto))
    <3> SUFFICES ASSUME whole' PROVE Members(now) = NalsWhole(k.unit, MediaBefore(k.unit, upto))
      BY DEF HasMedia
    <3>1. Members(old) = NalsWhole(k.unit, MediaBefore(k.unit, k.nal))
      <4>1. Members(<<>>) = {} /\ NalsWhole(k.unit, {}) = {}
        BY DEF Members, NalsWhole
      <4>2. CASE Batch(k) = <<>> \/ batchUnit # k.unit
        BY <1>1, <4>1, <4>2 DEF Complements
      <4>3. CASE ~(Batch(k) = <<>> \/ batchUnit # k.unit)
        BY <1>1, <4>3 DEF Complements, HasMedia
      <4> QED
        BY <4>2, <4>3
    <3>2. MediaBefore(k.unit, upto) = MediaBefore(k.unit, k.nal) \cup {k.nal}
      BY <1>10, <2>3
    <3>3. nal = packetize_nal(k.unit, k.nal)
      BY <1>3, <1>16
    <3> QED
      BY <2>2, <3>1, <3>2, <3>3 DEF NalsWhole
  <2> HIDE DEF now, old
  <2>5. batchUnit' \in Units \cup {0}
    BY <1>2, <2>1
  <2>6. Batched'
    <3> SUFFICES ASSUME batch' # <<>>
                 PROVE  /\ OfUnit(now, k.unit) /\ batch' = now
                        /\ \A i \in DOMAIN now : \/ Head(now[i]).nal < k.nal
                                                 \/ Head(now[i]).nal = k.nal /\ NalEnds(k)
      BY <1>2, <1>4, <2>1 DEF Batched
    <3>1. \A i \in DOMAIN now : Head(now[i]).nal \in Nat
      <4> TAKE i \in DOMAIN now
      <4>1. now[i] \in NalsWhole(k.unit, Nals(k.unit))
        BY <2>2 DEF OfUnit
      <4> QED
        BY <1>2, <4>1, NalShape DEF NalsWhole, Nals
    <3> QED
      BY <1>2, <2>1, <2>2, <2>3, <3>1
  <2>7. PublishedWhole'
    <3>1. turn => \A u \in Flushed(Batch(k)) : u # <<>> /\ \E b \in Units : OfUnit(u, b)
      BY <1>1, FlushedWhole DEF FitsBatch
    <3>2. \A u \in Flushed(now) : u # <<>> /\ \E b \in Units : OfUnit(u, b)
      BY <2>2, FlushedWhole
    <3> QED
      BY <2>1, <3>1, <3>2 DEF PublishedWhole, IngestInv
  <2>8. published \subseteq published'
    BY <2>1
  <2>9. whole' /\ ~Marker(k) =>
          IF batch' = <<>> \/ batchUnit' # k.unit THEN MediaBefore(k.unit, upto) = {}
          ELSE HasMedia(batch', k.unit, MediaBefore(k.unit, upto))
    BY <2>1, <2>2, <2>4
  <2>10. ASSUME whole', Marker(k), ShowsEnd(k.unit)
         PROVE  \E u \in published' : HasMedia(u, k.unit, Media(k.unit))
    <3>1. HasMedia(now, k.unit, Media(k.unit))
      BY <1>11, <2>4, <2>10
    <3>2. \E u \in Flushed(now) : HasMedia(u, k.unit, Media(k.unit))
      BY <2>2, <2>10, <3>1, FlushedWhole
    <3> QED
      BY <2>1, <2>10, <3>2
  <2> QED
    BY <1>20, <2>5, <2>6, <2>7, <2>8, <2>9, <2>10
<1> QED
  BY <1>5, <1>14, <1>15, <1>16

LEMMA FlushKeeps == IngestInv /\ flush_remaining => IngestInv'
<1> SUFFICES ASSUME IngestInv, flush_remaining PROVE IngestInv'
  OBVIOUS
<1>1. /\ open' = FALSE /\ batch' = <<>> /\ published' = published \cup Flushed(batch)
      /\ UNCHANGED <<times, expected, fu, batchUnit, last, whole, clean>>
  BY DEF flush_remaining
<1>2. \A u \in Flushed(batch) : u # <<>> /\ \E b \in Units : OfUnit(u, b)
  <2>1. CASE batch = <<>>
    BY <2>1 DEF Flushed
  <2>2. CASE batch # <<>>
    BY <2>2, FlushedWhole DEF IngestInv, Batched
  <2> QED
    BY <2>1, <2>2
<1>3. PublishedWhole'
  BY <1>1, <1>2 DEF IngestInv, PublishedWhole
<1>4. CleanPublished'
  <2> SUFFICES ASSUME NEW a \in clean, ShowsEnd(a)
               PROVE  \E u \in published' : HasMedia(u, a, Media(a))
    BY <1>1 DEF CleanPublished
  <2> QED
    BY <1>1 DEF IngestInv, CleanPublished
<1>5. Batched' /\ SoFar'
  BY <1>1 DEF Batched, SoFar
<1>6. Expecting' /\ UnderWay'
  <2>1. Expecting'
    BY <1>1 DEF IngestInv, Expecting, Number, Rank
  <2>2. UnderWay'
    BY <1>1 DEF IngestInv, UnderWay, Fragmented, NalEnds, Fragments
  <2> QED
    BY <2>1, <2>2
<1>7. IngestTypes'
  <2>1. Packets' = Packets /\ Units' = Units
    BY DEF Packets, Units
  <2> QED
    BY <1>1, <2>1 DEF IngestInv, IngestTypes
<1> QED
  BY <1>3, <1>4, <1>5, <1>6, <1>7 DEF IngestInv

LEMMA NextIngest == IngestInv /\ [IngestNext]_ingestVars => IngestInv'
<1> SUFFICES ASSUME IngestInv, [IngestNext]_ingestVars PROVE IngestInv'
  OBVIOUS
<1>1. CASE flush_remaining
  BY <1>1, FlushKeeps
<1>2. CASE \E k \in Packets : Deliver(k)
  BY <1>2, DeliverKeeps
<1>3. CASE UNCHANGED ingestVars
  <2>1. UNCHANGED <<expected, fu, batch, batchUnit, published, last, whole, clean, open>>
    BY <1>3 DEF ingestVars
  <2>2. IngestTypes' /\ Batched' /\ SoFar' /\ PublishedWhole' /\ CleanPublished'
    BY <2>1 DEF IngestInv, IngestTypes, Batched, SoFar, PublishedWhole, CleanPublished
  <2>3. Expecting' /\ UnderWay'
    BY <2>1 DEF IngestInv, Expecting, UnderWay
  <2> QED
    BY <2>2, <2>3 DEF IngestInv
<1> QED
  BY <1>1, <1>2, <1>3 DEF IngestNext

LEMMA UnitsOfInv == IngestInv => UnitsIntact
<1> SUFFICES ASSUME IngestInv PROVE UnitsIntact
  OBVIOUS
<1>1. ASSUME NEW u \in published
      PROVE  /\ \A i \in DOMAIN u : NalWhole(u[i]) /\ Head(u[i]).unit = Head(u[1]).unit
             /\ \A i, j \in DOMAIN u : i < j => Head(u[i]).nal < Head(u[j]).nal
  <2>1. PICK a \in Units : OfUnit(u, a)
    BY DEF IngestInv, PublishedWhole
  <2>2. u # <<>>
    BY DEF IngestInv, PublishedWhole
  <2>3. u \in Seq(NalsWhole(a, Nals(a)))
    BY <2>1 DEF OfUnit
  <2>4. \A i \in DOMAIN u : NalWhole(u[i]) /\ Head(u[i]).unit = a
    <3> TAKE i \in DOMAIN u
    <3>1. u[i] \in NalsWhole(a, Nals(a))
      BY <2>3
    <3>2. PICK n \in Nals(a) : u[i] = packetize_nal(a, n)
      BY <3>1 DEF NalsWhole
    <3> QED
      BY <3>2, NalShape DEF NalWhole
  <2>5. 1 \in DOMAIN u
    BY <2>2, <2>3
  <2> QED
    BY <2>1, <2>4, <2>5 DEF OfUnit
<1>2. \A a \in clean : ShowsEnd(a) =>
        \E u \in published : {u[i] : i \in DOMAIN u} = {packetize_nal(a, i) : i \in Media(a)}
  BY DEF IngestInv, CleanPublished, HasMedia, Members, NalsWhole
<1> QED
  BY <1>1, <1>2 DEF UnitsIntact

LEMMA PathsKeepIngest == IngestInv /\ [PathsNext]_pathVars => IngestInv'
<1>1. PathsNext => [IngestNext]_ingestVars
  BY DEF PathsNext
<1>2. UNCHANGED pathVars => UNCHANGED ingestVars
  BY DEF pathVars
<1> QED
  BY <1>1, <1>2, NextIngest
=============================================================================
