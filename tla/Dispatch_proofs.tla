-------------------------- MODULE Dispatch_proofs --------------------------
(***************************************************************************)
(* What a reader of the ring is promised for every capacity, batch size,   *)
(* lag threshold and set of policies, whatever is pushed, evicted or reset *)
(* between two of its locked reads.                                        *)
(***************************************************************************)
EXTENDS Dispatch, FrameRing_proofs, FunctionTheorems, SequenceTheorems

\* Everything the hub and the reader do to the ring is a step of the ring.
LEMMA DispatchStepsRing == [DNext]_allVars => [Next]_vars
<1> SUFFICES ASSUME [DNext]_allVars PROVE [Next]_vars
  OBVIOUS
<1>1. CASE Hub
  BY <1>1 DEF Hub, HubPush, HubEvict, HubReset, Send, Next
<1>2. CASE Subscribe \/ Start
  BY <1>2 DEF Subscribe, Start, Keep
<1>3. CASE Call
  <2>1. UNCHANGED vars
    BY <1>3 DEF Call, Keep, EnsureNotEmpty, EnsureAhead, Wake, Begin, SnapLive, Relatest,
       CatchUp, Read, ScanIdr, Gap, Jump, JumpLatest, Retry, Handle, FinishPrime, Deadline,
       Fallback, begin_video_catchup_after_idr, Baseline, PrimeLook, PrimeWait, PrimeEmpty,
       PrimeBytes
  <2> QED
    BY <2>1
<1>4. CASE UNCHANGED allVars
  BY <1>4 DEF allVars
<1> QED
  BY <1>1, <1>2, <1>3, <1>4 DEF DNext

\* A ring with its hub and its reader behaves as a ring: no step of dispatch.rs or of
\* live_play.rs writes to it, and stream_hub.rs does so by push and reset only.
THEOREM DispatchIsRing == DSpec => Init /\ [][Next]_vars
<1>1. DInit => Init
  BY DEF DInit
<1> QED
  BY <1>1, DispatchStepsRing, PTL DEF DSpec

\* Hence what is proved of the ring holds under its readers.
LEMMA DispatchRing == DSpec => []IInv
<1>1. DInit => IInv
  BY InitIInv DEF DInit
<1>2. IInv /\ [DNext]_allVars => IInv'
  BY DispatchStepsRing, NextIInv
<1> QED
  BY <1>1, <1>2, PTL DEF DSpec
----------------------------------------------------------------------------
Increasing(s) == \A i, j \in DOMAIN s : i < j => s[i] < s[j]

\* The rank of a seq among a finite set of them numbers the set from 1 on.
LEMMA Ranks ==
  ASSUME NEW S, S \subseteq Nat, IsFiniteSet(S),
         NEW rank, rank = [q \in S |-> Cardinality({p \in S : p <= q})]
  PROVE  /\ \A p, q \in S : p < q => rank[p] < rank[q]
         /\ rank \in Bijection(S, 1 .. Cardinality(S))
<1> DEFINE upto(q) == {p \in S : p <= q}
<1>1. Cardinality(S) \in Nat
  BY FS_CardinalityType
<1>2. ASSUME NEW q \in S
      PROVE  /\ IsFiniteSet(upto(q))
             /\ rank[q] = Cardinality(upto(q)) /\ rank[q] \in 1 .. Cardinality(S)
  <2>1. upto(q) \in SUBSET S /\ q \in upto(q)
    BY <1>2
  <2>2. IsFiniteSet(upto(q)) /\ Cardinality(upto(q)) <= Cardinality(S)
    BY <2>1, FS_Subset
  <2>3. Cardinality(upto(q)) \in Nat /\ Cardinality(upto(q)) # 0
    BY <2>1, <2>2, FS_CardinalityType, FS_EmptySet
  <2>4. rank[q] = Cardinality(upto(q))
    BY <1>2
  <2> HIDE DEF upto
  <2> QED
    BY <1>1, <2>2, <2>3, <2>4
<1>3. ASSUME NEW p \in S, NEW q \in S, p < q PROVE rank[p] < rank[q]
  <2>1. upto(p) \in SUBSET upto(q) /\ q \in upto(q) /\ q \notin upto(p)
    <3>1. \A x \in S : x \in Nat
      OBVIOUS
    <3>2. \A x \in S : x <= p => x <= q
      BY <1>3, <3>1
    <3>3. q <= q /\ ~(q <= p)
      BY <1>3, <3>1
    <3> QED
      BY <3>2, <3>3
  <2>2. /\ Cardinality(upto(p)) <= Cardinality(upto(q))
        /\ Cardinality(upto(q)) # Cardinality(upto(p))
    BY <1>2, <2>1, FS_Subset
  <2>3. /\ rank[p] = Cardinality(upto(p)) /\ rank[q] = Cardinality(upto(q))
        /\ rank[p] \in Nat /\ rank[q] \in Nat
    BY <1>1, <1>2
  <2> HIDE DEF upto
  <2> QED
    BY <2>2, <2>3
<1> HIDE DEF upto
<1>4. rank \in Injection(S, 1 .. Cardinality(S))
  <2>1. rank \in [S -> 1 .. Cardinality(S)]
    BY <1>2
  <2>2. ASSUME NEW p \in S, NEW q \in S, rank[p] = rank[q] PROVE p = q
    <3>1. p \in Nat /\ q \in Nat /\ rank[p] \in Int /\ rank[q] \in Int
      BY <1>1, <2>1
    <3> QED
      BY <1>3, <2>2, <3>1
  <2> QED
    BY <2>1, <2>2 DEF Injection, IsInjective
<1>5. IsFiniteSet(1 .. Cardinality(S)) /\ Cardinality(1 .. Cardinality(S)) = Cardinality(S)
  BY <1>1, FS_Interval
<1>6. rank \in Surjection(S, 1 .. Cardinality(S))
  BY <1>4, <1>5, FS_Injection
<1> QED
  BY <1>3, <1>4, <1>6 DEF Bijection

\* InOrder lists each member of a finite set of seqs once, in ascending order.
LEMMA InOrderFacts ==
  ASSUME NEW S, S \subseteq Nat, IsFiniteSet(S)
  PROVE  /\ InOrder(S) \in Seq(Nat)
         /\ ToSet(InOrder(S)) = S
         /\ Increasing(InOrder(S))
<1> DEFINE N == Cardinality(S)
           rank == [q \in S |-> Cardinality({p \in S : p <= q})]
           s == InOrder(S)
<1>1. /\ \A p, q \in S : p < q => rank[p] < rank[q]
      /\ rank \in Bijection(S, 1 .. N)
  BY Ranks
<1>2. N \in Nat
  BY FS_CardinalityType
<1>3. /\ s = [n \in 1 .. N |-> CHOOSE q \in S : Cardinality({p \in S : p <= q}) = n]
      /\ \A q \in S : rank[q] = Cardinality({p \in S : p <= q})
      /\ rank \in [S -> 1 .. N]
  BY <1>1 DEF InOrder, Bijection, Injection
<1>4. ASSUME NEW n \in 1 .. N PROVE s[n] \in S /\ rank[s[n]] = n
  <2>1. PICK q \in S : rank[q] = n
    BY <1>1 DEF Bijection, Surjection
  <2>2. \E r \in S : Cardinality({p \in S : p <= r}) = n
    BY <1>3, <2>1
  <2> QED
    BY <1>3, <2>2
<1> HIDE DEF rank, s, N
<1>5. s \in [1 .. N -> S]
  BY <1>3, <1>4
<1>6. s \in Seq(Nat) /\ DOMAIN s = 1 .. N
  <2>1. s \in [1 .. N -> Nat]
    BY <1>5
  <2> QED
    BY <1>2, <2>1
<1>7. ToSet(s) = S
  <2>1. ASSUME NEW q \in S PROVE q \in ToSet(s)
    <3>1. rank[q] \in 1 .. N
      BY <1>3
    <3>2. s[rank[q]] \in S /\ rank[s[rank[q]]] = rank[q]
      BY <1>4, <3>1
    <3>3. s[rank[q]] = q
      BY <1>1, <3>2 DEF Bijection, Injection, IsInjective
    <3> QED
      BY <1>6, <3>1, <3>3 DEF ToSet
  <2> QED
    BY <1>4, <1>6, <2>1 DEF ToSet
<1>8. ASSUME NEW i \in 1 .. N, NEW j \in 1 .. N, i < j PROVE s[i] < s[j]
  <2>1. /\ s[i] \in S /\ rank[s[i]] = i
        /\ s[j] \in S /\ rank[s[j]] = j
    BY <1>4
  <2>2. CASE s[j] < s[i]
    <3>1. j < i
      BY <1>1, <2>1, <2>2
    <3> QED
      BY <1>2, <1>8, <3>1
  <2>3. CASE s[i] = s[j]
    BY <1>2, <1>8, <2>1, <2>3
  <2>4. s[i] \in Nat /\ s[j] \in Nat
    BY <2>1
  <2> QED
    BY <2>2, <2>3, <2>4
<1> QED
  BY <1>6, <1>7, <1>8 DEF Increasing, s

\* A log goes on in order when what is added lies beyond all of it.
LEMMA Joined ==
  ASSUME NEW s \in Seq(Nat), NEW t \in Seq(Nat)
  PROVE  /\ s \o t \in Seq(Nat)
         /\ ToSet(s \o t) = ToSet(s) \cup ToSet(t)
         /\ (/\ Increasing(s) /\ Increasing(t)
             /\ \A x \in ToSet(s), y \in ToSet(t) : x < y) => Increasing(s \o t)
<1> DEFINE u == s \o t
<1>1. u \in Seq(Nat)
  OBVIOUS
<1>2. /\ Len(s) \in Nat /\ Len(t) \in Nat /\ Len(u) = Len(s) + Len(t)
      /\ DOMAIN s = 1 .. Len(s) /\ DOMAIN t = 1 .. Len(t) /\ DOMAIN u = 1 .. Len(u)
  OBVIOUS
<1>3. \A i \in DOMAIN u : u[i] = IF i <= Len(s) THEN s[i] ELSE t[i - Len(s)]
  OBVIOUS
<1> HIDE DEF u
<1>4. ASSUME NEW x \in ToSet(u) PROVE x \in ToSet(s) \cup ToSet(t)
  <2>1. PICK i \in DOMAIN u : x = u[i]
    BY DEF ToSet
  <2>2. CASE i <= Len(s)
    BY <1>2, <1>3, <2>1, <2>2 DEF ToSet
  <2>3. CASE ~(i <= Len(s))
    <3>1. i - Len(s) \in DOMAIN t /\ x = t[i - Len(s)]
      BY <1>2, <1>3, <2>1, <2>3
    <3> QED
      BY <3>1 DEF ToSet
  <2> QED
    BY <2>2, <2>3
<1>5. ASSUME NEW x \in ToSet(s) PROVE x \in ToSet(u)
  <2>1. PICK i \in DOMAIN s : x = s[i]
    BY DEF ToSet
  <2>2. i \in DOMAIN u /\ x = u[i]
    BY <1>2, <1>3, <2>1
  <2> QED
    BY <2>2 DEF ToSet
<1>6. ASSUME NEW x \in ToSet(t) PROVE x \in ToSet(u)
  <2>1. PICK i \in DOMAIN t : x = t[i]
    BY DEF ToSet
  <2>2. i + Len(s) \in DOMAIN u /\ ~(i + Len(s) <= Len(s)) /\ (i + Len(s)) - Len(s) = i
    BY <1>2, <2>1
  <2>3. x = u[i + Len(s)]
    BY <1>3, <2>1, <2>2
  <2> QED
    BY <2>2, <2>3 DEF ToSet
<1>7. ASSUME Increasing(s), Increasing(t), \A x \in ToSet(s), y \in ToSet(t) : x < y,
             NEW i \in DOMAIN u, NEW j \in DOMAIN u, i < j
      PROVE  u[i] < u[j]
  <2>1. CASE j <= Len(s)
    <3>1. i \in DOMAIN s /\ j \in DOMAIN s /\ i <= Len(s)
      BY <1>2, <1>7, <2>1
    <3> QED
      BY <1>3, <1>7, <2>1, <3>1 DEF Increasing
  <2>2. CASE ~(i <= Len(s))
    <3>1. i - Len(s) \in DOMAIN t /\ j - Len(s) \in DOMAIN t /\ i - Len(s) < j - Len(s)
          /\ ~(j <= Len(s))
      BY <1>2, <1>7, <2>2
    <3> QED
      BY <1>3, <1>7, <2>2, <3>1 DEF Increasing
  <2>3. CASE i <= Len(s) /\ ~(j <= Len(s))
    <3>1. i \in DOMAIN s /\ j - Len(s) \in DOMAIN t
      BY <1>2, <1>7, <2>3
    <3>2. u[i] = s[i] /\ u[j] = t[j - Len(s)]
      BY <1>3, <2>3
    <3>3. s[i] \in ToSet(s) /\ t[j - Len(s)] \in ToSet(t)
      BY <3>1 DEF ToSet
    <3> QED
      BY <1>7, <3>2, <3>3
  <2>4. i \in Nat /\ j \in Nat
    BY <1>2
  <2> QED
    BY <1>2, <2>1, <2>2, <2>3, <2>4
<1> QED
  BY <1>1, <1>4, <1>5, <1>6, <1>7 DEF Increasing, u
----------------------------------------------------------------------------
\* What the locked reads of the ring return: nothing beyond what was written.
LEMMA Reads ==
  ASSUME TypeOK
  PROVE  /\ write_seq \in Nat /\ write_seq <= MaxSeq /\ MaxSeq \in Nat
         /\ latest_seq = IF write_seq >= 1 THEN write_seq - 1 ELSE 0
         /\ \A mode : snap(mode) \in Nat /\ snap(mode) <= latest_seq
         /\ oldest_seq \in Int /\ -1 <= oldest_seq /\ oldest_seq < write_seq
         /\ latest_idr_seq \in Int /\ -1 <= latest_idr_seq /\ latest_idr_seq < write_seq
         /\ \A q \in DOMAIN slots : q \in Nat /\ q < write_seq
<1>1. /\ write_seq \in Nat /\ write_seq <= MaxSeq /\ MaxSeq \in Nat
      /\ \A q \in DOMAIN slots : q \in Nat /\ q < write_seq
      /\ \A q \in idr_seqs : q \in Nat /\ q < write_seq
  BY MaxSeqAssumption DEF TypeOK
<1>2. latest_seq = IF write_seq >= 1 THEN write_seq - 1 ELSE 0
  BY DEF latest_seq, Monus
<1>3. oldest_seq \in Int /\ -1 <= oldest_seq /\ oldest_seq < write_seq
  <2>1. CASE DOMAIN slots = {}
    BY <1>1, <2>1 DEF oldest_seq, NoSeq
  <2>2. CASE DOMAIN slots # {}
    <3>1. DOMAIN slots \subseteq Nat
      BY <1>1
    <3>2. Min(DOMAIN slots) \in DOMAIN slots
      BY <2>2, <3>1, MinOfNats
    <3>3. oldest_seq \in DOMAIN slots
      BY <2>2, <3>2 DEF oldest_seq
    <3> QED
      BY <1>1, <3>3
  <2> QED
    BY <2>1, <2>2
<1>4. latest_idr_seq \in Int /\ -1 <= latest_idr_seq /\ latest_idr_seq < write_seq
  <2>1. CASE idr_seqs = {}
    BY <1>1, <2>1 DEF latest_idr_seq, NoSeq
  <2>2. CASE idr_seqs # {}
    <3>1. idr_seqs \subseteq 0 .. write_seq
      BY <1>1
    <3>2. Max(idr_seqs) \in idr_seqs
      BY <1>1, <2>2, <3>1, MaxOfNats
    <3>3. latest_idr_seq \in idr_seqs
      BY <2>2, <3>2 DEF latest_idr_seq
    <3> QED
      BY <1>1, <3>3
  <2> QED
    BY <2>1, <2>2
<1>5. ASSUME NEW mode PROVE snap(mode) \in Nat /\ snap(mode) <= latest_seq
  BY <1>1, <1>2, <1>4 DEF snap, NoSeq
<1> QED
  BY <1>1, <1>2, <1>3, <1>4, <1>5

\* A batch holds frames of the ring between its two ends, in ascending order.
LEMMA BatchFrames ==
  ASSUME TypeOK, NEW S, S \subseteq DOMAIN slots
  PROVE  /\ S \subseteq Nat /\ IsFiniteSet(S)
         /\ InOrder(S) \in Seq(Nat) /\ ToSet(InOrder(S)) = S /\ Increasing(InOrder(S))
<1>1. S \subseteq 0 .. write_seq /\ write_seq \in Nat
  BY Reads
<1>2. IsFiniteSet(0 .. write_seq)
  BY <1>1, FS_Interval
<1>3. S \subseteq Nat /\ IsFiniteSet(S)
  BY <1>1, <1>2, FS_Subset
<1> QED
  BY <1>3, InOrderFacts

\* Collapsing a batch only leaves frames out; a batch of one frame stays in order.
LEMMA Coalesced ==
  ASSUME TypeOK, NEW S, S \subseteq DOMAIN slots
  PROVE  /\ coalesce_flv_batch(S) \in Seq(Nat)
         /\ ToSet(coalesce_flv_batch(S)) \subseteq S
         /\ (\A p, q \in S : p = q) => Increasing(coalesce_flv_batch(S))
<1> DEFINE video == {q \in S : IsVideo(slots[q].kind)}
           idrs  == {q \in video : is_video_keyframe(slots[q].kind)}
           chosen == CASE Cardinality(video) <= 1 -> video
                       [] Cardinality(video) > 1 /\ idrs # {} -> {Max(idrs)}
                       [] OTHER -> {}
           rest == S \ video
<1>1. coalesce_flv_batch(S) = InOrder(rest) \o InOrder(chosen)
  BY DEF coalesce_flv_batch
<1>2. video \subseteq S /\ idrs \subseteq video /\ rest \subseteq S /\ rest \cap video = {}
  OBVIOUS
<1>3. idrs # {} => Max(idrs) \in idrs
  <2>1. S \subseteq 0 .. write_seq /\ write_seq \in Nat
    BY Reads
  <2> HIDE DEF idrs
  <2> QED
    BY <1>2, <2>1, MaxOfNats
<1>4. chosen = video \/ (idrs # {} /\ chosen = {Max(idrs)}) \/ chosen = {}
  OBVIOUS
<1> HIDE DEF video, idrs, chosen, rest
<1>5. chosen \subseteq video
  BY <1>2, <1>3, <1>4
<1>6. rest \subseteq DOMAIN slots /\ chosen \subseteq DOMAIN slots
  BY <1>2, <1>5
<1>7. /\ InOrder(rest) \in Seq(Nat) /\ ToSet(InOrder(rest)) = rest /\ Increasing(InOrder(rest))
      /\ InOrder(chosen) \in Seq(Nat) /\ ToSet(InOrder(chosen)) = chosen
      /\ Increasing(InOrder(chosen))
  BY <1>6, BatchFrames
<1>8. (\A p, q \in S : p = q) => rest = {} \/ chosen = {}
  BY <1>2, <1>5
<1>9. /\ InOrder(rest) \o InOrder(chosen) \in Seq(Nat)
      /\ ToSet(InOrder(rest) \o InOrder(chosen)) = rest \cup chosen
  BY <1>7, Joined
<1>10. ASSUME rest = {} \/ chosen = {} PROVE Increasing(InOrder(rest) \o InOrder(chosen))
  <2>1. \A x \in ToSet(InOrder(rest)), y \in ToSet(InOrder(chosen)) : x < y
    BY <1>7, <1>10
  <2> QED
    BY <1>7, <2>1, Joined
<1> QED
  BY <1>1, <1>2, <1>5, <1>8, <1>9, <1>10
----------------------------------------------------------------------------
\* The policies that reach a label, and what the reader knows when it is there.
OfLive == {"catchup", "scan", "fallback", "fallbackUntil"}
OfWebRtc ==
  {"snapLive", "relatest", "baseline", "primeLook", "primeWait", "primeEmpty", "primeBytes"}
Placing ==
  {"off", "start", "prime", "baseline", "primeLook", "primeWait", "primeEmpty", "primeBytes"}
Placed ==
  /\ IF pc = "off" THEN policy = "none" ELSE policy \in Policies
  /\ pc \in OfLive => policy = "LiveCoalesce"
  /\ pc \in OfWebRtc => policy = "WebRtcPlay"
  /\ pc = "prime" => policy \in {"LiveCoalesce", "SequentialFromIdr"}
  /\ pc \in Placing => log = << >>
  /\ pc = "jump" => resync
  /\ pc = "fallbackUntil" => loc.probe >= 0
  /\ loc.latest <= Monus(MaxSeq, 1)

\* The reader's part of DTypeOK.
ReaderTyped ==
  /\ unseen \in BOOLEAN /\ policy \in Policies \cup {"none"}
  /\ cursor \in 0 .. MaxSeq + 1 /\ until \in NoSeq .. (MaxSeq - 1)
  /\ resync \in BOOLEAN /\ (priming => policy = "LiveCoalesce")
  /\ loc \in [latest : 0 .. MaxSeq, probe : NoSeq .. (MaxSeq - 1),
             got : {"none", "frames", "idr", "last"}]
  /\ pc = "scan" => cursor <= loc.probe /\ loc.probe <= loc.latest

\* Until the first reset what a reader has read never exceeds what was written, ...
Bounds ==
  resets = 0 =>
    /\ cursor <= Greater(write_seq, 1)
    /\ loc.latest <= Monus(write_seq, 1)
    /\ pc = "snapLive" => cursor <= Monus(write_seq, 1)
    /\ pc = "jump" => cursor < loc.probe
    /\ pc \in {"jump", "fallbackUntil"} => loc.probe < write_seq

\* ... and what a reader that may not coalesce has handed out lies behind its cursor.
LogBehind ==
  resets = 0 /\ policy # "LiveCoalesce" =>
    Increasing(log) /\ \A q \in ToSet(log) : q < cursor

DInv == IInv /\ DTypeOK /\ log \in Seq(Nat) /\ Placed /\ Bounds /\ LogBehind

LEMMA InitDInv == DInit => DInv
<1> SUFFICES ASSUME DInit PROVE DInv
  OBVIOUS
<1>1. IInv /\ TypeOK /\ write_seq = 0 /\ MaxSeq \in Nat
  BY InitIInv, MaxSeqAssumption DEF DInit, Init, IInv
<1>2. log = << >> /\ log \in Seq(Nat) /\ ToSet(log) = {} /\ Increasing(log)
  BY DEF DInit, ToSet, Increasing
<1>3. DTypeOK
  <2>1. loc \in [latest : 0 .. MaxSeq, probe : NoSeq .. (MaxSeq - 1),
                got : {"none", "frames", "idr", "last"}]
    BY <1>1 DEF DInit, NoLocals, NoSeq
  <2>2. cursor \in 0 .. MaxSeq + 1 /\ until \in NoSeq .. (MaxSeq - 1) /\ resets \in 0 .. MaxResets
    BY <1>1, MaxResetsAssumption DEF DInit, NoSeq
  <2> QED
    BY <1>1, <1>2, <2>1, <2>2 DEF DInit, DTypeOK
<1>4. Placed
  BY <1>1, <1>2 DEF DInit, Placed, OfLive, OfWebRtc, Placing, NoLocals, Monus
<1>5. Bounds /\ LogBehind
  BY <1>1, <1>2 DEF DInit, Bounds, LogBehind, Greater, Monus, NoLocals
<1> QED
  BY <1>1, <1>2, <1>3, <1>4, <1>5 DEF DInv

LEMMA BoundsGrow ==
  ASSUME NEW a \in Nat, NEW b \in Nat, a <= b
  PROVE  /\ Greater(a, 1) <= Greater(b, 1) /\ Monus(a, 1) <= Monus(b, 1)
         /\ Greater(a, 1) \in Int /\ Greater(b, 1) \in Int
         /\ Monus(a, 1) \in Int /\ Monus(b, 1) \in Int
BY DEF Greater, Monus

\* The hub's side: a push and its eviction only raise write_seq, a reset
\* ends Bounds and LogBehind.
LEMMA HubKeeps == ASSUME DInv, IInv', Hub PROVE DInv'
<1>0. TypeOK /\ TypeOK' /\ MaxSeq \in Nat /\ MaxResets \in Nat
  BY MaxSeqAssumption, MaxResetsAssumption DEF DInv, IInv
<1>1. CASE HubPush \/ HubEvict \/ Send
  <2>1. /\ write_seq \in Nat /\ write_seq' \in Nat /\ write_seq <= write_seq'
        /\ UNCHANGED <<readerVars, resets>>
        /\ sending' \subseteq {"push", "reset"} /\ unseen' \in BOOLEAN
    <3>1. write_seq \in Nat /\ write_seq' \in Nat
      BY <1>0 DEF TypeOK
    <3>2. sending \subseteq {"push", "reset"} /\ unseen \in BOOLEAN
      BY DEF DInv, DTypeOK
    <3>3. CASE HubPush
      BY <3>1, <3>2, <3>3 DEF HubPush, Push, hubVars
    <3>4. CASE HubEvict
      BY <3>1, <3>2, <3>4 DEF HubEvict, Evict, EvictOldestGop, EvictFront, EvictDone
    <3>5. CASE Send
      BY <3>1, <3>2, <3>5 DEF Send, vars
    <3> QED
      BY <1>1, <3>3, <3>4, <3>5
  <2>2. DTypeOK'
    BY <1>0, <2>1 DEF DInv, DTypeOK, readerVars
  <2>3. Placed'
    BY <1>0, <2>1 DEF DInv, Placed, readerVars
  <2>4. Bounds' /\ LogBehind'
    <3>1. /\ cursor \in Int /\ loc.latest \in Int /\ loc.probe \in Int
          /\ write_seq \in Nat /\ write_seq' \in Nat /\ write_seq <= write_seq'
      BY <1>0, <2>1 DEF DInv, DTypeOK, NoSeq
    <3>2. /\ cursor' = cursor /\ loc' = loc /\ pc' = pc /\ policy' = policy
          /\ resets' = resets /\ log' = log
      BY <2>1 DEF readerVars
    <3>3. ToSet(log') = ToSet(log) /\ (Increasing(log) => Increasing(log'))
      BY <3>2
    <3>4. ASSUME resets = 0, policy # "LiveCoalesce"
          PROVE  Increasing(log') /\ \A q \in ToSet(log') : q < cursor'
      BY <3>2, <3>3, <3>4 DEF DInv, LogBehind
    <3>5. ASSUME resets = 0
          PROVE  /\ cursor <= Greater(write_seq, 1) /\ loc.latest <= Monus(write_seq, 1)
                 /\ pc = "snapLive" => cursor <= Monus(write_seq, 1)
                 /\ pc = "jump" => cursor < loc.probe
                 /\ pc \in {"jump", "fallbackUntil"} => loc.probe < write_seq
      BY <3>5 DEF DInv, Bounds
    <3>6. /\ Greater(write_seq, 1) <= Greater(write_seq', 1)
          /\ Monus(write_seq, 1) <= Monus(write_seq', 1)
          /\ Greater(write_seq, 1) \in Int /\ Greater(write_seq', 1) \in Int
          /\ Monus(write_seq, 1) \in Int /\ Monus(write_seq', 1) \in Int
      BY <3>1, BoundsGrow
    <3>7. ASSUME resets = 0
          PROVE  /\ cursor <= Greater(write_seq', 1) /\ loc.latest <= Monus(write_seq', 1)
                 /\ pc = "snapLive" => cursor <= Monus(write_seq', 1)
                 /\ pc = "jump" => cursor < loc.probe
                 /\ pc \in {"jump", "fallbackUntil"} => loc.probe < write_seq'
      BY <3>1, <3>5, <3>6, <3>7
    <3> QED
      BY <3>2, <3>4, <3>7 DEF Bounds, LogBehind
  <2> QED
    BY <2>1, <2>2, <2>3, <2>4 DEF DInv, readerVars
<1>2. CASE HubReset
  <2>1. /\ UNCHANGED <<unseen, policy, cursor, until, resync, priming, pc, loc>>
        /\ resets' = resets + 1 /\ resets < MaxResets /\ log' = << >>
        /\ sending' = sending \cup {"reset"}
    BY <1>2 DEF HubReset
  <2>2. log' \in Seq(Nat) /\ ToSet(log') = {} /\ resets \in Nat
    BY <2>1, <1>0 DEF ToSet, DInv, DTypeOK
  <2>3. DTypeOK'
    BY <1>0, <2>1, <2>2 DEF DInv, DTypeOK
  <2>4. Placed'
    BY <1>0, <2>1 DEF DInv, Placed
  <2>5. Bounds' /\ LogBehind'
    BY <2>1, <2>2 DEF Bounds, LogBehind
  <2> QED
    BY <2>2, <2>3, <2>4, <2>5 DEF DInv
<1> QED
  BY <1>1, <1>2 DEF Hub

\* A step of the reader that hands nothing out: it leaves the ring, the senders of the
\* channel, the count of resets and the log alone, and moves the cursor back only
\* before the first read.
QuietStep ==
  /\ UNCHANGED <<vars, sending, resets, log>>
  /\ ReaderTyped' /\ Placed' /\ Bounds'
  /\ resets = 0 /\ log # << >> /\ policy' # "LiveCoalesce" => cursor <= cursor' /\ policy' = policy

LEMMA QuietKeeps == ASSUME DInv, QuietStep PROVE DInv'
<1>1. IInv' /\ TypeOK'
  <2>1. IInv'
    BY NextIInv DEF DInv, QuietStep
  <2> QED
    BY <2>1 DEF IInv
<1>2. DTypeOK'
  BY <1>1 DEF DInv, DTypeOK, QuietStep, ReaderTyped, vars
<1>3. LogBehind'
  <2>1. CASE log = << >>
    <3>1. ToSet(log') = {} /\ Increasing(log')
      BY <2>1 DEF QuietStep, ToSet, Increasing
    <3> QED
      BY <3>1 DEF LogBehind
  <2>2. ASSUME log # << >>, resets = 0, policy' # "LiveCoalesce"
        PROVE  Increasing(log') /\ \A q \in ToSet(log') : q < cursor'
    <3>1. cursor <= cursor' /\ policy # "LiveCoalesce" /\ log' = log
      BY <2>2 DEF QuietStep
    <3>2. Increasing(log) /\ \A q \in ToSet(log) : q < cursor
      BY <2>2, <3>1 DEF DInv, LogBehind
    <3>3. \A q \in ToSet(log) : q \in Int
      BY DEF DInv, ToSet
    <3>4. cursor \in Int /\ cursor' \in Int
      BY <1>2, MaxSeqAssumption DEF DInv, DTypeOK
    <3>5. \A q \in ToSet(log) : q < cursor'
      BY <3>1, <3>2, <3>3, <3>4
    <3> QED
      BY <3>1, <3>2, <3>5
  <2> QED
    BY <2>1, <2>2 DEF LogBehind, QuietStep
<1> QED
  BY <1>1, <1>2, <1>3 DEF DInv, QuietStep
----------------------------------------------------------------------------
\* The reader's steps that only look at the ring or wait.
Look ==
  \/ EnsureNotEmpty \/ EnsureAhead \/ Wake \/ Begin \/ Relatest \/ Gap
  \/ JumpLatest \/ Deadline \/ Baseline \/ PrimeWait \/ PrimeEmpty

LEMMA LookKeeps == ASSUME DInv, Look PROVE DInv'
<1>1. /\ write_seq \in Nat /\ write_seq <= MaxSeq /\ MaxSeq \in Nat
      /\ latest_seq = IF write_seq >= 1 THEN write_seq - 1 ELSE 0
      /\ \A mode : snap(mode) \in Nat /\ snap(mode) <= latest_seq
      /\ oldest_seq \in Int /\ -1 <= oldest_seq /\ oldest_seq < write_seq
      /\ latest_idr_seq \in Int /\ -1 <= latest_idr_seq /\ latest_idr_seq < write_seq
      /\ \A q \in DOMAIN slots : q \in Nat /\ q < write_seq
  BY Reads DEF DInv, IInv
<1>2. ReaderTyped /\ Placed /\ Bounds
  BY DEF DInv, DTypeOK, ReaderTyped
<1> USE DEF Keep, Goto, NoLocals
<1>3. UNCHANGED <<vars, sending, resets, log>> /\ UNCHANGED <<policy, cursor>>
  <2>1. CASE EnsureNotEmpty
    BY <1>2, <2>1 DEF EnsureNotEmpty
  <2>2. CASE EnsureAhead
    BY <1>2, <2>2 DEF EnsureAhead
  <2>3. CASE Wake
    BY <1>2, <2>3 DEF Wake
  <2>4. CASE Begin
    BY <1>2, <2>4 DEF Begin
  <2>5. CASE Relatest
    BY <1>2, <2>5 DEF Relatest
  <2>6. CASE Gap
    BY <1>2, <2>6 DEF Gap
  <2>7. CASE JumpLatest
    BY <1>2, <2>7 DEF JumpLatest
  <2>8. CASE Deadline
    BY <1>2, <2>8 DEF Deadline
  <2>9. CASE Baseline
    BY <1>2, <2>9 DEF Baseline
  <2>10. CASE PrimeWait
    BY <1>2, <2>10 DEF PrimeWait
  <2>11. CASE PrimeEmpty
    BY <1>2, <2>11 DEF PrimeEmpty
  <2> QED
    BY <2>1, <2>2, <2>3, <2>4, <2>5, <2>6, <2>7, <2>8, <2>9, <2>10, <2>11 DEF Look
<1>4. ReaderTyped'
  <2>1. CASE EnsureNotEmpty
    BY <1>1, <1>2, <2>1 DEF EnsureNotEmpty, ReaderTyped, NoSeq
  <2>2. CASE EnsureAhead
    BY <1>1, <1>2, <2>2 DEF EnsureAhead, ReaderTyped, NoSeq
  <2>3. CASE Wake
    BY <1>1, <1>2, <2>3 DEF Wake, ReaderTyped, NoSeq
  <2>4. CASE Begin
    BY <1>1, <1>2, <2>4 DEF Begin, ReaderTyped, NoSeq
  <2>5. CASE Relatest
    BY <1>1, <1>2, <2>5 DEF Relatest, ReaderTyped, NoSeq
  <2>6. CASE Gap
    BY <1>1, <1>2, <2>6 DEF Gap, ReaderTyped, NoSeq
  <2>7. CASE JumpLatest
    BY <1>1, <1>2, <2>7 DEF JumpLatest, ReaderTyped, NoSeq
  <2>8. CASE Deadline
    BY <1>1, <1>2, <2>8 DEF Deadline, ReaderTyped, NoSeq
  <2>9. CASE Baseline
    BY <1>1, <1>2, <2>9 DEF Baseline, ReaderTyped, NoSeq
  <2>10. CASE PrimeWait
    BY <1>1, <1>2, <2>10 DEF PrimeWait, ReaderTyped, NoSeq
  <2>11. CASE PrimeEmpty
    BY <1>1, <1>2, <2>11 DEF PrimeEmpty, ReaderTyped, NoSeq
  <2> QED
    BY <2>1, <2>2, <2>3, <2>4, <2>5, <2>6, <2>7, <2>8, <2>9, <2>10, <2>11 DEF Look
<1>5. Placed'
  <2>1. CASE EnsureNotEmpty
    BY <1>1, <1>2, <2>1 DEF EnsureNotEmpty, Placed, OfLive, OfWebRtc, Placing, Monus
  <2>2. CASE EnsureAhead
    BY <1>1, <1>2, <2>2 DEF EnsureAhead, Placed, OfLive, OfWebRtc, Placing, Monus
  <2>3. CASE Wake
    BY <1>1, <1>2, <2>3 DEF Wake, Placed, OfLive, OfWebRtc, Placing, Monus
  <2>4. CASE Begin
    BY <1>1, <1>2, <2>4 DEF Begin, Placed, OfLive, OfWebRtc, Placing, Monus, CatchingUp, Lagging
  <2>5. CASE Relatest
    BY <1>1, <1>2, <2>5 DEF Relatest, Placed, OfLive, OfWebRtc, Placing, Monus
  <2>6. CASE Gap
    <3>1. pc' = "jump" => resync'
      BY <2>6 DEF Gap
    <3>2. pc' \in {"jump", "ensure"} /\ loc'.latest = 0 /\ UNCHANGED <<policy, log>> /\ pc # "off"
      BY <2>6 DEF Gap
    <3> QED
      BY <1>1, <1>2, <3>1, <3>2 DEF Placed, OfLive, OfWebRtc, Placing, Monus
  <2>7. CASE JumpLatest
    BY <1>1, <1>2, <2>7 DEF JumpLatest, Placed, OfLive, OfWebRtc, Placing, Monus
  <2>8. CASE Deadline
    BY <1>1, <1>2, <2>8 DEF Deadline, Placed, OfLive, OfWebRtc, Placing, Monus, ReaderTyped
  <2>9. CASE Baseline
    BY <1>1, <1>2, <2>9 DEF Baseline, Placed, OfLive, OfWebRtc, Placing, Monus
  <2>10. CASE PrimeWait
    BY <1>1, <1>2, <2>10 DEF PrimeWait, Placed, OfLive, OfWebRtc, Placing, Monus, ReaderTyped
  <2>11. CASE PrimeEmpty
    BY <1>1, <1>2, <2>11 DEF PrimeEmpty, Placed, OfLive, OfWebRtc, Placing, Monus
  <2> QED
    BY <2>1, <2>2, <2>3, <2>4, <2>5, <2>6, <2>7, <2>8, <2>9, <2>10, <2>11 DEF Look
<1>6. Bounds'
  <2>1. CASE EnsureNotEmpty
    BY <1>1, <1>2, <2>1 DEF EnsureNotEmpty, Bounds, ReaderTyped, Greater, Monus, vars
  <2>2. CASE EnsureAhead
    BY <1>1, <1>2, <2>2 DEF EnsureAhead, Bounds, ReaderTyped, Greater, Monus, vars
  <2>3. CASE Wake
    BY <1>1, <1>2, <2>3 DEF Wake, Bounds, ReaderTyped, Greater, Monus, vars
  <2>4. CASE Begin
    BY <1>1, <1>2, <2>4, BatchAssumption DEF Begin, Bounds, ReaderTyped, Greater, Monus, vars, CatchingUp, Lagging
  <2>5. CASE Relatest
    BY <1>1, <1>2, <2>5 DEF Relatest, Bounds, ReaderTyped, Greater, Monus, vars
  <2>6. CASE Gap
    BY <1>1, <1>2, <2>6 DEF Gap, Bounds, ReaderTyped, Greater, Monus, vars
  <2>7. CASE JumpLatest
    BY <1>1, <1>2, <2>7 DEF JumpLatest, Bounds, ReaderTyped, Greater, Monus, vars
  <2>8. CASE Deadline
    BY <1>1, <1>2, <2>8 DEF Deadline, Bounds, ReaderTyped, Greater, Monus, vars
  <2>9. CASE Baseline
    BY <1>1, <1>2, <2>9 DEF Baseline, Bounds, ReaderTyped, Greater, Monus, vars
  <2>10. CASE PrimeWait
    BY <1>1, <1>2, <2>10 DEF PrimeWait, Bounds, ReaderTyped, Greater, Monus, vars
  <2>11. CASE PrimeEmpty
    BY <1>1, <1>2, <2>11 DEF PrimeEmpty, Bounds, ReaderTyped, Greater, Monus, vars
  <2> QED
    BY <2>1, <2>2, <2>3, <2>4, <2>5, <2>6, <2>7, <2>8, <2>9, <2>10, <2>11 DEF Look
<1> QED
  BY <1>2, <1>3, <1>4, <1>5, <1>6, QuietKeeps DEF QuietStep, ReaderTyped
\* Those that place the cursor without a frame.
Move ==
  \/ Subscribe \/ Start \/ SnapLive \/ ScanIdr \/ Jump \/ Handle
  \/ FinishPrime \/ Fallback \/ begin_video_catchup_after_idr \/ PrimeLook \/ PrimeBytes

LEMMA MoveKeeps == ASSUME DInv, Move PROVE DInv'
<1>1. /\ write_seq \in Nat /\ write_seq <= MaxSeq /\ MaxSeq \in Nat
      /\ latest_seq = IF write_seq >= 1 THEN write_seq - 1 ELSE 0
      /\ \A mode : snap(mode) \in Nat /\ snap(mode) <= latest_seq
      /\ oldest_seq \in Int /\ -1 <= oldest_seq /\ oldest_seq < write_seq
      /\ latest_idr_seq \in Int /\ -1 <= latest_idr_seq /\ latest_idr_seq < write_seq
      /\ \A q \in DOMAIN slots : q \in Nat /\ q < write_seq
  BY Reads DEF DInv, IInv
<1>2. ReaderTyped /\ Placed /\ Bounds
  BY DEF DInv, DTypeOK, ReaderTyped
<1> USE DEF Keep, Goto, NoLocals
<1>3. UNCHANGED <<vars, sending, resets, log>>
  <2>1. CASE Subscribe
    BY <1>2, <2>1 DEF Subscribe, Placed, Placing, OfLive, OfWebRtc
  <2>2. CASE Start
    BY <1>2, <2>2 DEF Start, Placed, Placing, OfLive, OfWebRtc
  <2>3. CASE SnapLive
    BY <1>2, <2>3 DEF SnapLive, Placed, Placing, OfLive, OfWebRtc
  <2>4. CASE ScanIdr
    BY <1>2, <2>4 DEF ScanIdr, Placed, Placing, OfLive, OfWebRtc
  <2>5. CASE Jump
    BY <1>2, <2>5 DEF Jump, Placed, Placing, OfLive, OfWebRtc
  <2>6. CASE Handle
    BY <1>2, <2>6 DEF Handle, Placed, Placing, OfLive, OfWebRtc
  <2>7. CASE FinishPrime
    BY <1>2, <2>7 DEF FinishPrime, Placed, Placing, OfLive, OfWebRtc
  <2>8. CASE Fallback
    BY <1>2, <2>8 DEF Fallback, Placed, Placing, OfLive, OfWebRtc
  <2>9. CASE begin_video_catchup_after_idr
    BY <1>2, <2>9 DEF begin_video_catchup_after_idr, Placed, Placing, OfLive, OfWebRtc
  <2>10. CASE PrimeLook
    BY <1>2, <2>10 DEF PrimeLook, Placed, Placing, OfLive, OfWebRtc
  <2>11. CASE PrimeBytes
    BY <1>2, <2>11 DEF PrimeBytes, Placed, Placing, OfLive, OfWebRtc
  <2> QED
    BY <2>1, <2>2, <2>3, <2>4, <2>5, <2>6, <2>7, <2>8, <2>9, <2>10, <2>11 DEF Move
<1>4. ReaderTyped'
  <2>1. CASE Subscribe
    <3>1. unseen' \in BOOLEAN /\ resync' \in BOOLEAN /\ policy' \in Policies \cup {"none"}
      BY <1>2, <2>1 DEF Subscribe, ReaderTyped
    <3>2. priming' => policy' = "LiveCoalesce"
      BY <1>2, <2>1 DEF Subscribe, ReaderTyped, Placed
    <3>3. cursor' \in 0 .. MaxSeq + 1 /\ until' \in NoSeq .. (MaxSeq - 1)
      BY <1>1, <1>2, <2>1 DEF Subscribe, ReaderTyped, NoSeq
    <3>4. loc' \in [latest : 0 .. MaxSeq, probe : NoSeq .. (MaxSeq - 1),
                    got : {"none", "frames", "idr", "last"}]
      BY <1>1, <1>2, <2>1 DEF Subscribe, ReaderTyped, NoSeq
    <3>5. pc' = "scan" => cursor' <= loc'.probe /\ loc'.probe <= loc'.latest
      BY <1>1, <1>2, <2>1 DEF Subscribe, ReaderTyped, NoSeq
    <3> QED
      BY <3>1, <3>2, <3>3, <3>4, <3>5 DEF ReaderTyped
  <2>2. CASE Start
    <3>1. unseen' \in BOOLEAN /\ resync' \in BOOLEAN /\ policy' \in Policies \cup {"none"}
      BY <1>2, <2>2 DEF Start, ReaderTyped
    <3>2. priming' => policy' = "LiveCoalesce"
      BY <1>2, <2>2 DEF Start, ReaderTyped, Placed
    <3>3. cursor' \in 0 .. MaxSeq + 1 /\ until' \in NoSeq .. (MaxSeq - 1)
      BY <1>1, <1>2, <2>2 DEF Start, ReaderTyped, NoSeq 
    <3>4. loc' \in [latest : 0 .. MaxSeq, probe : NoSeq .. (MaxSeq - 1),
                    got : {"none", "frames", "idr", "last"}]
      BY <1>1, <1>2, <2>2 DEF Start, ReaderTyped, NoSeq, Primes
    <3>5. pc' = "scan" => cursor' <= loc'.probe /\ loc'.probe <= loc'.latest
      BY <1>1, <1>2, <2>2 DEF Start, ReaderTyped, NoSeq, Primes
    <3> QED
      BY <3>1, <3>2, <3>3, <3>4, <3>5 DEF ReaderTyped
  <2>3. CASE SnapLive
    BY <1>1, <1>2, <2>3 DEF SnapLive, ReaderTyped, NoSeq, Placed, OfLive, OfWebRtc, Monus
  <2>4. CASE ScanIdr
    <3>1. unseen' \in BOOLEAN /\ resync' \in BOOLEAN /\ policy' \in Policies \cup {"none"}
      BY <1>2, <2>4 DEF ScanIdr, ReaderTyped
    <3>2. priming' => policy' = "LiveCoalesce"
      BY <1>2, <2>4 DEF ScanIdr, ReaderTyped, Placed
    <3>3. cursor' \in 0 .. MaxSeq + 1 /\ until' \in NoSeq .. (MaxSeq - 1)
      BY SMTT(30), <1>1, <1>2, <2>4 DEF ScanIdr, ReaderTyped, NoSeq, Placed, OfLive, Monus
    <3>4. loc' \in [latest : 0 .. MaxSeq, probe : NoSeq .. (MaxSeq - 1),
                    got : {"none", "frames", "idr", "last"}]
      BY SMTT(30), <1>1, <1>2, <2>4 DEF ScanIdr, ReaderTyped, NoSeq, Returned, Placed, Monus
    <3>5. pc' = "scan" => cursor' <= loc'.probe /\ loc'.probe <= loc'.latest
      BY <1>1, <1>2, <2>4 DEF ScanIdr, ReaderTyped, NoSeq, Returned, Placed, Monus
    <3> QED
      BY <3>1, <3>2, <3>3, <3>4, <3>5 DEF ReaderTyped
  <2>5. CASE Jump
    BY <1>1, <1>2, <2>5 DEF Jump, ReaderTyped, NoSeq, Placed, OfLive, OfWebRtc, Monus, Greater
  <2>6. CASE Handle
    <3>1. unseen' \in BOOLEAN /\ resync' \in BOOLEAN /\ policy' \in Policies \cup {"none"}
      BY <1>2, <2>6 DEF Handle, ReaderTyped
    <3>2. priming' => policy' = "LiveCoalesce"
      BY <1>2, <2>6 DEF Handle, ReaderTyped, Placed
    <3>3. cursor' \in 0 .. MaxSeq + 1 /\ until' \in NoSeq .. (MaxSeq - 1)
      BY <1>1, <1>2, <2>6 DEF Handle, ReaderTyped, NoSeq
    <3>4. loc' \in [latest : 0 .. MaxSeq, probe : NoSeq .. (MaxSeq - 1),
                    got : {"none", "frames", "idr", "last"}]
      BY <1>1, <1>2, <2>6 DEF Handle, ReaderTyped, NoSeq
    <3>5. pc' = "scan" => cursor' <= loc'.probe /\ loc'.probe <= loc'.latest
      BY <1>1, <1>2, <2>6 DEF Handle, ReaderTyped, NoSeq
    <3> QED
      BY <3>1, <3>2, <3>3, <3>4, <3>5 DEF ReaderTyped
  <2>7. CASE FinishPrime
    BY <1>1, <1>2, <2>7 DEF FinishPrime, ReaderTyped, NoSeq, Placed, OfLive, OfWebRtc, Monus, Sequential
  <2>8. CASE Fallback
    BY SMTT(30), <1>1, <1>2, <2>8 DEF Fallback, ReaderTyped, NoSeq, Placed, OfLive, OfWebRtc, Monus
  <2>9. CASE begin_video_catchup_after_idr
    BY <1>1, <1>2, <2>9 DEF begin_video_catchup_after_idr, ReaderTyped, NoSeq, Placed, OfLive, OfWebRtc, Monus
  <2>10. CASE PrimeLook
    BY <1>1, <1>2, <2>10 DEF PrimeLook, ReaderTyped, NoSeq, Placed, OfLive, OfWebRtc, Monus, idr_is_close_to_live
  <2>11. CASE PrimeBytes
    BY <1>1, <1>2, <2>11 DEF PrimeBytes, ReaderTyped, NoSeq, Placed, OfLive, OfWebRtc, Monus
  <2> QED
    BY <2>1, <2>2, <2>3, <2>4, <2>5, <2>6, <2>7, <2>8, <2>9, <2>10, <2>11 DEF Move
<1>5. Placed'
  <2>1. CASE Subscribe
    BY <1>1, <1>2, <2>1 DEF Subscribe, Placed, OfLive, OfWebRtc, Placing, Monus, ReaderTyped
  <2>2. CASE Start
    BY SMTT(30), <1>1, <1>2, <2>2, PoliciesAssumption DEF Start, Placed, OfLive, OfWebRtc, Placing, Monus, Primes, ReaderTyped
  <2>3. CASE SnapLive
    BY <1>1, <1>2, <2>3 DEF SnapLive, Placed, OfLive, OfWebRtc, Placing, Monus, ReaderTyped
  <2>4. CASE ScanIdr
    BY <1>1, <1>2, <2>4 DEF ScanIdr, Placed, OfLive, OfWebRtc, Placing, Monus, ReaderTyped, Returned
  <2>5. CASE Jump
    BY <1>1, <1>2, <2>5 DEF Jump, Placed, OfLive, OfWebRtc, Placing, Monus, ReaderTyped
  <2>6. CASE Handle
    BY <1>1, <1>2, <2>6 DEF Handle, Placed, OfLive, OfWebRtc, Placing, Monus, ReaderTyped
  <2>7. CASE FinishPrime
    BY <1>1, <1>2, <2>7 DEF FinishPrime, Placed, OfLive, OfWebRtc, Placing, Monus, ReaderTyped
  <2>8. CASE Fallback
    BY SMTT(30), <1>1, <1>2, <2>8 DEF Fallback, Placed, OfLive, OfWebRtc, Placing, Monus, ReaderTyped, NoSeq
  <2>9. CASE begin_video_catchup_after_idr
    BY <1>1, <1>2, <2>9 DEF begin_video_catchup_after_idr, Placed, OfLive, OfWebRtc, Placing, Monus, ReaderTyped
  <2>10. CASE PrimeLook
    BY <1>1, <1>2, <2>10 DEF PrimeLook, Placed, OfLive, OfWebRtc, Placing, Monus, ReaderTyped
  <2>11. CASE PrimeBytes
    BY <1>1, <1>2, <2>11 DEF PrimeBytes, Placed, OfLive, OfWebRtc, Placing, Monus, ReaderTyped
  <2> QED
    BY <2>1, <2>2, <2>3, <2>4, <2>5, <2>6, <2>7, <2>8, <2>9, <2>10, <2>11 DEF Move
<1>6. Bounds'
  <2>1. CASE Subscribe
    BY <1>1, <1>2, <2>1 DEF Subscribe, Bounds, ReaderTyped, Greater, Monus, vars
  <2>2. CASE Start
    BY <1>1, <1>2, <2>2 DEF Start, Bounds, ReaderTyped, Greater, Monus, vars, Primes
  <2>3. CASE SnapLive
    BY <1>1, <1>2, <2>3 DEF SnapLive, Bounds, ReaderTyped, Greater, Monus, vars, snap
  <2>4. CASE ScanIdr
    BY <1>1, <1>2, <2>4 DEF ScanIdr, Bounds, ReaderTyped, Greater, Monus, vars, Returned
  <2>5. CASE Jump
    BY <1>1, <1>2, <2>5 DEF Jump, Bounds, ReaderTyped, Greater, Monus, vars
  <2>6. CASE Handle
    BY <1>1, <1>2, <2>6 DEF Handle, Bounds, ReaderTyped, Greater, Monus, vars
  <2>7. CASE FinishPrime
    BY <1>1, <1>2, <2>7 DEF FinishPrime, Bounds, ReaderTyped, Greater, Monus, vars
  <2>8. CASE Fallback
    BY <1>1, <1>2, <2>8 DEF Fallback, Bounds, ReaderTyped, Greater, Monus, vars
  <2>9. CASE begin_video_catchup_after_idr
    BY <1>1, <1>2, <2>9 DEF begin_video_catchup_after_idr, Bounds, ReaderTyped, Greater, Monus, vars
  <2>10. CASE PrimeLook
    BY <1>1, <1>2, <2>10 DEF PrimeLook, Bounds, ReaderTyped, Greater, Monus, vars
  <2>11. CASE PrimeBytes
    BY <1>1, <1>2, <2>11 DEF PrimeBytes, Bounds, ReaderTyped, Greater, Monus, vars
  <2> QED
    BY <2>1, <2>2, <2>3, <2>4, <2>5, <2>6, <2>7, <2>8, <2>9, <2>10, <2>11 DEF Move
<1>7. resets = 0 /\ log # << >> /\ policy' # "LiveCoalesce" => cursor <= cursor' /\ policy' = policy
  <2>1. pc \notin Placing => policy' = policy
    BY DEF Move, Subscribe, Start, SnapLive, ScanIdr, Jump, Handle, FinishPrime, Fallback,
       begin_video_catchup_after_idr, PrimeLook, PrimeBytes, Placing
  <2>2. CASE SnapLive
    BY <1>1, <1>2, <2>1, <2>2 DEF SnapLive, Bounds, ReaderTyped, Monus, snap, Placing
  <2>3. CASE Jump
    BY <1>1, <1>2, <2>1, <2>3 DEF Jump, Bounds, ReaderTyped, Greater, NoSeq, Placing
  <2>4. CASE Handle
    BY <1>2, <2>1, <2>4 DEF Handle, ReaderTyped, Placing
  <2>5. CASE pc \in OfLive
    BY <1>2, <2>1, <2>5 DEF Placed, OfLive, Placing
  <2>6. CASE pc \in Placing
    BY <1>2, <2>6 DEF Placed
  <2> QED
    BY <2>2, <2>3, <2>4, <2>5, <2>6 DEF Move, Subscribe, Start, ScanIdr, FinishPrime, Fallback,
       begin_video_catchup_after_idr, PrimeLook, PrimeBytes, OfLive, Placing
<1> QED
  BY <1>3, <1>4, <1>5, <1>6, <1>7, QuietKeeps DEF QuietStep
----------------------------------------------------------------------------
\* A read of the frames from the cursor to end: what it hands out lies in that range,
\* ascending unless the reader may coalesce, and the cursor ends up behind it.
ReadTo(end, out) ==
  /\ out \in Seq(Nat) /\ ToSet(out) \subseteq frames_from(cursor, end)
  /\ policy # "LiveCoalesce" => Increasing(out)
  /\ HandOut(out)
  /\ UNCHANGED <<vars, sending, resets, policy>>
  /\ \/ cursor' = IF frames_from(cursor, end) = {} THEN cursor ELSE end + 1
     \/ policy = "LiveCoalesce"

LEMMA ReadToKeeps ==
  ASSUME DInv, NEW end \in Int, NEW out, ReadTo(end, out)
  PROVE  /\ log' \in Seq(Nat) /\ ToSet(log') \subseteq 0 .. (write_seq - 1)
         /\ LogBehind'
<1> DEFINE frames == frames_from(cursor, end)
<1>1. /\ write_seq \in Nat /\ cursor \in Int /\ log \in Seq(Nat)
      /\ ToSet(log) \subseteq 0 .. (write_seq - 1)
      /\ \A q \in DOMAIN slots : q \in Nat /\ q < write_seq
  BY Reads, MaxSeqAssumption DEF DInv, DTypeOK, IInv
<1>2. \A q \in frames : q \in Nat /\ q < write_seq /\ cursor <= q /\ q <= end
  BY <1>1 DEF frames_from
<1>3. /\ out \in Seq(Nat) /\ ToSet(out) \subseteq frames
      /\ log' = log \/ log' = log \o out
      /\ policy # "LiveCoalesce" => Increasing(out)
      /\ policy' = policy /\ resets' = resets
      /\ (cursor' = IF frames = {} THEN cursor ELSE end + 1) \/ policy = "LiveCoalesce"
  BY DEF ReadTo, HandOut
<1> HIDE DEF frames
<1>4. log' \in Seq(Nat) /\ (log' = log \/ ToSet(log') = ToSet(log) \cup ToSet(out))
  BY <1>1, <1>3, Joined
<1>5. ToSet(log') \subseteq 0 .. (write_seq - 1)
  <2>1. ToSet(log') \subseteq ToSet(log) \cup frames
    BY <1>3, <1>4
  <2> QED
    BY <1>1, <1>2, <2>1
<1>6. LogBehind'
  <2> SUFFICES ASSUME resets = 0, policy # "LiveCoalesce"
               PROVE  Increasing(log') /\ \A q \in ToSet(log') : q < cursor'
    BY <1>3 DEF LogBehind
  <2>1. Increasing(log) /\ \A q \in ToSet(log) : q < cursor
    BY DEF DInv, LogBehind
  <2>2. \A q \in ToSet(log) : q \in Nat
    BY <1>1
  <2>3. \A x \in ToSet(log), y \in ToSet(out) : x < y
    BY <1>1, <1>2, <1>3, <2>1, <2>2
  <2>4. Increasing(log')
    BY <1>1, <1>3, <2>1, <2>3, Joined
  <2>5. CASE frames = {}
    BY <1>3, <1>4, <2>1, <2>4, <2>5
  <2>6. CASE frames # {}
    <3>1. cursor' = end + 1 /\ cursor <= end
      BY <1>1, <1>2, <1>3, <2>6
    <3>2. \A q \in ToSet(log) : q < cursor'
      BY <1>1, <2>1, <2>2, <3>1
    <3>3. \A q \in ToSet(out) : q < cursor'
      BY <1>2, <1>3, <3>1
    <3> QED
      BY <1>4, <2>4, <3>2, <3>3
  <2> QED
    BY <2>4, <2>5, <2>6
<1> QED
  BY <1>4, <1>5, <1>6

LEMMA ReadKeeps ==
  ASSUME DInv, NEW end \in Int, NEW out, ReadTo(end, out),
         ReaderTyped', Placed', Bounds'
  PROVE  DInv'
<1>1. UNCHANGED <<vars, sending, resets>>
  BY DEF ReadTo
<1>2. IInv' /\ TypeOK'
  <2>1. IInv'
    BY <1>1, NextIInv DEF DInv
  <2> QED
    BY <2>1 DEF IInv
<1>3. log' \in Seq(Nat) /\ ToSet(log') \subseteq 0 .. (write_seq - 1) /\ LogBehind'
  BY ReadToKeeps
<1>4. DTypeOK'
  BY <1>1, <1>2, <1>3 DEF DInv, DTypeOK, ReaderTyped, vars
<1> QED
  BY <1>2, <1>3, <1>4 DEF DInv

LEMMA HoldsFacts ==
  ASSUME NEW frames
  PROVE  /\ Holds(frames) \in {"none", "idr", "frames"}
         /\ Returned(Holds(frames)) \in {"ensure", "handle"}
         /\ NoLocals \in [latest : {0}, probe : {NoSeq}, got : {"none"}]
BY DEF Holds, Returned, NoLocals

\* The catch-up branch and the read behind a gap.
LEMMA CatchUpKeeps == ASSUME DInv, CatchUp \/ Retry PROVE DInv'
<1>1. /\ write_seq \in Nat /\ write_seq <= MaxSeq /\ MaxSeq \in Nat /\ TypeOK
      /\ \A q \in DOMAIN slots : q \in Nat /\ q < write_seq
  BY Reads DEF DInv, IInv
<1>2. ReaderTyped /\ Placed /\ Bounds
  BY DEF DInv, DTypeOK, ReaderTyped
<1>3. PICK end \in Int :
        /\ end <= loc.latest
        /\ HandOut(InOrder(frames_from(cursor, end)))
        /\ cursor' = IF frames_from(cursor, end) = {} THEN cursor ELSE end + 1
        /\ until' \in {until, NoSeq}
        /\ pc' = Returned(Holds(frames_from(cursor, end))) /\ loc' = NoLocals
        /\ UNCHANGED <<vars, sending, resets, policy, priming, unseen, resync>>
        /\ pc \in {"catchup", "retry"}
  <2>1. CASE CatchUp
    <3> DEFINE e == Lesser(loc.latest, until)
    <3>1. e \in Int /\ e <= loc.latest
      BY <1>2, MaxSeqAssumption DEF ReaderTyped, Lesser, NoSeq
    <3> HIDE DEF e
    <3>2. loc' = NoLocals /\ pc' = Returned(Holds(frames_from(cursor, e)))
      BY <2>1, HoldsFacts DEF CatchUp, Goto, e
    <3> QED
      BY <2>1, <3>1, <3>2 DEF CatchUp, Keep, seq_after, e
  <2>2. CASE Retry
    <3> DEFINE e == Lesser(loc.latest, cursor + MaxBatch - 1)
    <3>1. e \in Int /\ e <= loc.latest
      BY <1>2, MaxSeqAssumption, BatchAssumption DEF ReaderTyped, Lesser, NoSeq
    <3> HIDE DEF e
    <3>2. loc' = NoLocals /\ pc' = Returned(Holds(frames_from(cursor, e)))
      BY <2>2, HoldsFacts DEF Retry, Goto, e
    <3> QED
      BY <2>2, <3>1, <3>2 DEF Retry, Keep, seq_after, e
  <2> QED
    BY <2>1, <2>2
<1> DEFINE frames == frames_from(cursor, end)
<1>4. frames \subseteq DOMAIN slots /\ \A q \in frames : cursor <= q /\ q <= end
  BY DEF frames_from
<1>5. ReadTo(end, InOrder(frames))
  BY <1>1, <1>3, <1>4, BatchFrames DEF ReadTo
<1>6. pc' \in {"ensure", "handle"} /\ loc'.latest = 0
  BY <1>3, HoldsFacts
<1>7. cursor' \in 0 .. MaxSeq + 1 /\ (resets = 0 => cursor' <= Greater(write_seq, 1))
  <2>1. CASE frames = {}
    BY <1>2, <1>3, <2>1 DEF ReaderTyped, Bounds
  <2>2. CASE frames # {}
    <3>1. cursor' = end + 1 /\ cursor <= end /\ cursor \in Nat
      BY <1>1, <1>2, <1>3, <1>4, <2>2 DEF ReaderTyped
    <3> QED
      BY <1>1, <1>2, <1>3, <3>1 DEF ReaderTyped, Placed, Bounds, Greater, Monus
  <2> QED
    BY <2>1, <2>2
<1> HIDE DEF frames
<1>8. ReaderTyped'
  <2>1. loc' \in [latest : 0 .. MaxSeq, probe : NoSeq .. (MaxSeq - 1),
                  got : {"none", "frames", "idr", "last"}]
    BY <1>1, <1>3 DEF NoLocals, NoSeq
  <2>2. unseen' \in BOOLEAN /\ resync' \in BOOLEAN /\ (priming' => policy' = "LiveCoalesce")
    BY <1>2, <1>3 DEF ReaderTyped
  <2>3. policy' \in Policies \cup {"none"} /\ until' \in NoSeq .. (MaxSeq - 1)
    BY <1>1, <1>2, <1>3 DEF ReaderTyped, NoSeq
  <2> QED
    BY <1>6, <1>7, <2>1, <2>2, <2>3 DEF ReaderTyped
<1>9. Placed'
  BY <1>1, <1>2, <1>3, <1>6 DEF Placed, OfLive, OfWebRtc, Placing, Monus
<1>10. Bounds'
  BY <1>1, <1>3, <1>6, <1>7 DEF Bounds, Monus, vars
<1> QED
  BY <1>5, <1>8, <1>9, <1>10, ReadKeeps

\* The regular read.
LEMMA RegularReadKeeps == ASSUME DInv, Read PROVE DInv'
<1>1. /\ write_seq \in Nat /\ write_seq <= MaxSeq /\ MaxSeq \in Nat /\ TypeOK
      /\ \A q \in DOMAIN slots : q \in Nat /\ q < write_seq
  BY Reads DEF DInv, IInv
<1>2. ReaderTyped /\ Placed /\ Bounds /\ policy \in Policies
  BY DEF DInv, DTypeOK, ReaderTyped, Read, Placed
<1> DEFINE end == batch_end
           frames == frames_from(cursor, end)
           video == {q \in frames : IsVideo(slots[q].kind)}
           burst == policy = "LiveCoalesce" /\ Cardinality(video) > 1
           out == IF Sequential THEN InOrder(frames) ELSE coalesce_flv_batch(frames)
<1>3. /\ HandOut(out)
      /\ cursor' = IF frames = {} \/ burst THEN cursor ELSE end + 1
      /\ UNCHANGED <<vars, sending, resets, policy, priming, unseen, until, resync>>
      /\ pc = "read"
  BY DEF Read, Keep, seq_after
<1>4. /\ frames = {} => pc' = "gap" /\ loc' = NoLocals
      /\ frames # {} /\ ~burst => pc' \in {"ensure", "handle"} /\ loc' = NoLocals
      /\ burst /\ frames # {} =>
           pc' = "scan" /\ loc' = [loc EXCEPT !.probe = end, !.got = Holds(ToSet(out))]
  <2> DEFINE b == burst
             locals == IF b THEN [loc EXCEPT !.probe = end, !.got = Holds(ToSet(out))]
                       ELSE NoLocals
             back == Returned(Holds(ToSet(out)))
  <2>1. frames = {} => ~b
    BY FS_EmptySet
  <2>2. Goto(CASE frames = {} -> "gap" [] b -> "scan" [] OTHER -> back, locals)
    BY DEF Read
  <2>3. back \in {"ensure", "handle"}
    BY HoldsFacts
  <2> HIDE DEF b, back, frames
  <2>4. /\ frames = {} => pc' = "gap" /\ loc' = locals
        /\ frames # {} /\ b => pc' = "scan" /\ loc' = locals
        /\ frames # {} /\ ~b => pc' \in {"ensure", "handle"} /\ loc' \in {locals, NoLocals}
    BY <2>1, <2>2, <2>3 DEF Goto
  <2> QED
    BY <2>1, <2>4 DEF b
<1>5. /\ end \in Int
      /\ policy = "LiveCoalesce" => end = loc.latest
      /\ policy # "WebRtcPlay" => end <= loc.latest
      /\ policy = "WebRtcPlay" => end = cursor
  BY <1>2, MaxSeqAssumption, BatchAssumption, PoliciesAssumption
     DEF batch_end, Sequential, Lesser, ReaderTyped
<1>6. frames \subseteq DOMAIN slots /\ \A q \in frames : cursor <= q /\ q <= end
  BY DEF frames_from
<1>7. out \in Seq(Nat) /\ ToSet(out) \subseteq frames /\ (policy # "LiveCoalesce" => Increasing(out))
  <2>1. CASE Sequential
    BY <1>1, <1>6, <2>1, BatchFrames
  <2>2. CASE ~Sequential
    <3>1. policy # "LiveCoalesce" => policy = "WebRtcPlay"
      BY <1>2, <2>2, PoliciesAssumption DEF Sequential
    <3>2. policy # "LiveCoalesce" => \A p, q \in frames : p = q
      BY <1>1, <1>2, <1>5, <1>6, <3>1 DEF ReaderTyped
    <3> QED
      BY <1>1, <1>6, <2>2, <3>2, Coalesced
  <2> QED
    BY <2>1, <2>2
<1>8. frames # {} => /\ cursor <= end /\ end <= Monus(MaxSeq, 1) /\ MaxSeq >= 1
                     /\ resets = 0 => end + 1 <= Greater(write_seq, 1)
  <2> SUFFICES ASSUME frames # {}
               PROVE  /\ cursor <= end /\ end <= Monus(MaxSeq, 1) /\ MaxSeq >= 1
                      /\ resets = 0 => end + 1 <= Greater(write_seq, 1)
    OBVIOUS
  <2>1. PICK q \in frames : q \in Nat /\ q < write_seq /\ cursor <= q /\ q <= end
    BY <1>1, <1>6
  <2> HIDE DEF frames, end
  <2>2. CASE policy = "WebRtcPlay"
    BY <1>1, <1>2, <1>5, <2>1, <2>2 DEF ReaderTyped, Monus, Greater
  <2>3. CASE policy # "WebRtcPlay"
    BY <1>1, <1>2, <1>5, <2>1, <2>3 DEF ReaderTyped, Placed, Bounds, Monus, Greater
  <2> QED
    BY <2>2, <2>3
<1>9. ReadTo(end, out)
  BY <1>3, <1>5, <1>6, <1>7 DEF ReadTo
<1>10. cursor' \in 0 .. MaxSeq + 1 /\ (resets = 0 => cursor' <= Greater(write_seq, 1))
  BY <1>1, <1>2, <1>3, <1>5, <1>8 DEF ReaderTyped, Bounds, Monus
<1>11. burst => frames # {} /\ policy = "LiveCoalesce"
  BY FS_EmptySet
<1>12. Holds(ToSet(out)) \in {"none", "idr", "frames"}
  BY HoldsFacts
<1> HIDE DEF burst, frames, end, out
<1>13. loc' \in [latest : 0 .. MaxSeq, probe : NoSeq .. (MaxSeq - 1),
                 got : {"none", "frames", "idr", "last"}]
  <2>1. NoLocals \in [latest : 0 .. MaxSeq, probe : NoSeq .. (MaxSeq - 1),
                      got : {"none", "frames", "idr", "last"}]
    BY <1>1 DEF NoLocals, NoSeq
  <2>2. CASE burst
    <3>1. end \in NoSeq .. (MaxSeq - 1)
      BY <1>1, <1>2, <1>5, <1>8, <1>11, <2>2 DEF ReaderTyped, Monus, NoSeq
    <3> QED
      BY <1>2, <1>4, <1>11, <1>12, <2>2, <3>1 DEF ReaderTyped
  <2>3. CASE ~burst
    BY <1>4, <2>1, <2>3
  <2> QED
    BY <2>2, <2>3
<1>14. /\ pc' \in {"gap", "ensure", "handle", "scan"} /\ loc'.latest \in {0, loc.latest}
       /\ pc' = "scan" => burst /\ cursor' <= loc'.probe /\ loc'.probe <= loc'.latest
  <2>1. CASE burst
    <3>1. pc' = "scan" /\ loc'.probe = end /\ loc'.latest = loc.latest /\ cursor' = cursor
      BY <1>2, <1>3, <1>4, <1>11, <2>1 DEF ReaderTyped
    <3> QED
      BY <1>2, <1>5, <1>8, <1>11, <2>1, <3>1 DEF ReaderTyped
  <2>2. CASE ~burst
    BY <1>4, <2>2 DEF NoLocals
  <2> QED
    BY <2>1, <2>2
<1>15. ReaderTyped'
  <2>1. unseen' \in BOOLEAN /\ resync' \in BOOLEAN /\ (priming' => policy' = "LiveCoalesce")
    BY <1>2, <1>3 DEF ReaderTyped
  <2>2. policy' \in Policies \cup {"none"} /\ until' \in NoSeq .. (MaxSeq - 1)
    BY <1>2, <1>3 DEF ReaderTyped
  <2> QED
    BY <1>10, <1>13, <1>14, <2>1, <2>2 DEF ReaderTyped
<1>16. Placed'
  BY <1>1, <1>2, <1>3, <1>11, <1>14 DEF Placed, OfLive, OfWebRtc, Placing, Monus
<1>17. Bounds'
  BY <1>1, <1>2, <1>3, <1>10, <1>14 DEF Bounds, Monus, vars
<1> QED
  BY <1>5, <1>9, <1>15, <1>16, <1>17, ReadKeeps
----------------------------------------------------------------------------
LEMMA NextDInv == DInv /\ [DNext]_allVars => DInv'
<1> SUFFICES ASSUME DInv, [DNext]_allVars PROVE DInv'
  OBVIOUS
<1>1. IInv'
  BY DispatchStepsRing, NextIInv DEF DInv
<1>2. CASE Hub
  BY <1>1, <1>2, HubKeeps
<1>3. CASE Subscribe \/ Start \/ Call
  <2>1. Look \/ Move \/ CatchUp \/ Retry \/ Read
    BY <1>3 DEF Call, Look, Move
  <2> QED
    BY <2>1, LookKeeps, MoveKeeps, CatchUpKeeps, RegularReadKeeps
<1>4. CASE UNCHANGED allVars
  BY <1>1, <1>4 DEF allVars, hubVars, readerVars, vars, DInv, IInv, DTypeOK, Placed, Bounds,
     LogBehind, ToSet, Increasing
<1> QED
  BY <1>2, <1>3, <1>4 DEF DNext

\* The inductive invariant holds in every behaviour of a ring and its reader.
THEOREM DispatchInvariant == DSpec => []DInv
BY InitDInv, NextDInv, PTL DEF DSpec

\* The reader's cursor, catch-up, locals and log have their types, and an IDR scan stays
\* in the burst it was started on, whatever happens to the ring meanwhile.
THEOREM DispatchTypeOK == DSpec => []DTypeOK
<1>1. DInv => DTypeOK
  BY DEF DInv
<1> QED
  BY <1>1, DispatchInvariant, PTL

\* Before the first reset no interleaving of recv_batch's reads with pushes and evictions
\* moves the cursor past a frame that is still to be written.
THEOREM DispatchCursorWithinRing == DSpec => []CursorWithinRing
<1>1. DInv => CursorWithinRing
  BY DEF DInv, Bounds, CursorWithinRing
<1> QED
  BY <1>1, DispatchInvariant, PTL

\* Before the first reset a reader that may not coalesce hands every frame out at most
\* once and in the order of the sequence numbers.
THEOREM DispatchInOrderOnce == DSpec => []InOrderOnce
<1>1. DInv => InOrderOnce
  BY DEF DInv, LogBehind, Increasing, InOrderOnce
<1> QED
  BY <1>1, DispatchInvariant, PTL

\* A sequential reader's cursor moves on by a read, which hands out all it passes, or by
\* a jump, which a gap report precedes.
LEMMA NoStepSkips ==
  ASSUME DInv, [DNext]_allVars, Sequential, cursor' > cursor, pc \notin {"start", "prime"}
  PROVE  \/ \A q \in DOMAIN slots : cursor <= q /\ q < cursor' => q \in ToSet(log')
         \/ resync'
<1> DEFINE Handed == \A q \in DOMAIN slots : cursor <= q /\ q < cursor' => q \in ToSet(log')
<1>1. /\ policy \in {"SequentialFromIdr", "LiveSequential"} /\ ~priming
      /\ cursor \in Int /\ log \in Seq(Nat) /\ TypeOK /\ Placed
      /\ \A q \in DOMAIN slots : q \in Int
  BY MaxSeqAssumption, Reads DEF DInv, DTypeOK, Sequential, IInv
<1>2. cursor' # cursor
  BY <1>1
<1>3. ASSUME NEW end \in Int, HandOut(InOrder(frames_from(cursor, end))), cursor' = end + 1
      PROVE  Handed
  <2>1. frames_from(cursor, end) \subseteq DOMAIN slots
    BY DEF frames_from
  <2>2. /\ InOrder(frames_from(cursor, end)) \in Seq(Nat)
        /\ ToSet(InOrder(frames_from(cursor, end))) = frames_from(cursor, end)
    BY <1>1, <2>1, BatchFrames
  <2>3. frames_from(cursor, end) \subseteq ToSet(log')
    BY <1>1, <1>3, <2>2, Joined DEF HandOut
  <2>4. ASSUME NEW q \in DOMAIN slots, cursor <= q, q < end + 1
        PROVE  q \in frames_from(cursor, end)
    BY <1>1, <2>4 DEF frames_from
  <2> QED
    BY <1>3, <2>3, <2>4
<1>4. CASE Read
  <2>1. batch_end \in Int
    BY <1>1, MaxSeqAssumption, BatchAssumption
       DEF batch_end, Sequential, Lesser, DInv, DTypeOK
  <2>2. HandOut(InOrder(frames_from(cursor, batch_end))) /\ cursor' = batch_end + 1
    BY <1>1, <1>2, <1>4 DEF Read, seq_after
  <2> QED
    BY <1>3, <2>1, <2>2
<1>5. CASE Retry
  <2> DEFINE end == Lesser(loc.latest, cursor + MaxBatch - 1)
  <2>1. end \in Int
    BY <1>1, MaxSeqAssumption, BatchAssumption DEF Lesser, DInv, DTypeOK
  <2>2. HandOut(InOrder(frames_from(cursor, end))) /\ cursor' = end + 1
    BY <1>2, <1>5 DEF Retry, seq_after
  <2> HIDE DEF end
  <2> QED
    BY <1>3, <2>1, <2>2
<1>6. CASE Jump
  <2>1. resync /\ resync' = resync
    BY <1>1, <1>6 DEF Jump, Placed, Keep
  <2> QED
    BY <2>1
<1>7. CASE Hub \/ Look \/ UNCHANGED allVars
  <2>1. cursor' = cursor
    BY <1>7 DEF Hub, HubPush, HubEvict, HubReset, Send, Look, EnsureNotEmpty, EnsureAhead,
       Wake, Begin, Relatest, Gap, JumpLatest, Deadline, Baseline, PrimeWait, PrimeEmpty,
       Keep, allVars, readerVars
  <2> QED
    BY <1>2, <2>1
<1>8. CASE Subscribe \/ Handle
  BY <1>2, <1>8 DEF Subscribe, Handle
<1>9. CASE \/ SnapLive \/ ScanIdr \/ CatchUp \/ Fallback \/ begin_video_catchup_after_idr
           \/ PrimeLook \/ PrimeBytes \/ Start \/ FinishPrime
  <2>1. CASE SnapLive \/ ScanIdr \/ CatchUp \/ PrimeLook \/ PrimeBytes
    BY <1>1, <2>1 DEF SnapLive, ScanIdr, CatchUp, PrimeLook, PrimeBytes, Placed, OfLive, OfWebRtc
  <2>2. CASE Fallback \/ begin_video_catchup_after_idr
    BY <1>1, <2>2 DEF Fallback, begin_video_catchup_after_idr, Placed, OfLive
  <2>3. CASE Start \/ FinishPrime
    BY <2>3 DEF Start, FinishPrime
  <2> QED
    BY <1>9, <2>1, <2>2, <2>3
<1> QED
  BY <1>4, <1>5, <1>6, <1>7, <1>8, <1>9 DEF DNext, Call, Look

\* No step of a sequential reader passes a cached frame in silence.
THEOREM DispatchNoSilentSkip == DSpec => NoSilentSkip
<1>1. DInv /\ [DNext]_allVars =>
        [Sequential /\ cursor' > cursor /\ pc \notin {"start", "prime"} =>
           \/ \A q \in DOMAIN slots : cursor <= q /\ q < cursor' => q \in ToSet(log')
           \/ resync']_allVars
  BY NoStepSkips
<1> QED
  BY <1>1, DispatchInvariant, PTL DEF DSpec, NoSilentSkip
=============================================================================
