-------------------------- MODULE FrameRing_proofs --------------------------
(***************************************************************************)
(* What FrameRing guarantees for every capacity, every alphabet of frames  *)
(* and every bound: no flagged keyframe is ever retained without all that  *)
(* follows it, a late joiner is pointed at a retained frame, the running   *)
(* byte count is the payload retained, and memory is bounded by both       *)
(* capacities.                                                             *)
(***************************************************************************)
EXTENDS FrameRing, TLAPS, FiniteSetTheorems, WellFoundedInduction

\* Min returns the least element of a non-empty set of sequence numbers.
LEMMA MinOfNats ==
  ASSUME NEW S, S \subseteq Nat, S # {}
  PROVE  Min(S) \in S /\ \A y \in S : Min(S) <= y
<1> DEFINE below(x) == 0 .. (x - 1)
           B == {below(x) : x \in S}
<1>1. B \subseteq FiniteSubsetsOf(Nat) /\ B # {}
  <2>1. \A x \in S : below(x) \in SUBSET Nat
    OBVIOUS
  <2>2. ASSUME NEW x \in S PROVE IsFiniteSet(below(x))
    BY FS_Interval, 0 \in Int, x - 1 \in Int
  <2>3. \A x \in S : below(x) \in FiniteSubsetsOf(Nat)
    BY <2>1, <2>2 DEF FiniteSubsetsOf
  <2> HIDE DEF below
  <2> QED
    BY <2>3
<1>2. PICK b \in B : \A c \in B : ~(<<c, b>> \in StrictSubsetOrdering(Nat))
  BY <1>1, WFMin, FS_StrictSubsetOrderingWellFounded
<1>3. PICK x \in S : b = below(x)
  OBVIOUS
<1>4. ASSUME NEW y \in S PROVE x <= y
  <2>1. SUFFICES ASSUME y < x PROVE FALSE
    OBVIOUS
  <2>2. below(y) \subseteq below(x) /\ y \in below(x) /\ y \notin below(y)
    BY <2>1
  <2>3. <<below(y), below(x)>> \in StrictSubsetOrdering(Nat)
    BY <2>2 DEF StrictSubsetOrdering
  <2> QED
    BY <1>2, <1>3, <2>3
<1> QED
  BY <1>4 DEF Min

\* Max returns the greatest element of a non-empty bounded set of seqs.
LEMMA MaxOfNats ==
  ASSUME NEW n \in Nat, NEW S, S \subseteq 0 .. n, S # {}
  PROVE  Max(S) \in S /\ \A y \in S : y <= Max(S)
<1> DEFINE T == {n - s : s \in S}
<1>1. T \subseteq Nat /\ T # {}
  <2>1. \A s \in S : s \in 0 .. n /\ n - s \in Nat
    OBVIOUS
  <2> QED
    BY <2>1
<1>2. PICK m \in T : \A t \in T : m <= t
  BY <1>1, MinOfNats
<1>3. PICK x \in S : m = n - x
  OBVIOUS
<1>4. ASSUME NEW y \in S PROVE y <= x
  <2>1. n - y \in T
    OBVIOUS
  <2>2. n - x <= n - y
    BY <1>2, <1>3, <2>1
  <2>3. x \in Int /\ y \in Int
    OBVIOUS
  <2> HIDE DEF T
  <2> QED
    BY <2>2, <2>3
<1> QED
  BY <1>3, <1>4 DEF Max
----------------------------------------------------------------------------
\* KeyTailKept is not inductive alone: EvictOldestGop cuts at the seqs in
\* gop_starts, so that every flagged keyframe must be one of them.
KeysIndexed == FlaggedKeys \subseteq gop_starts
IInv == TypeOK /\ IndexesAgree /\ KeysIndexed /\ KeyTailKept

\* Dropping frames leaves the others as they are.
LEMMA DropKeeps ==
  ASSUME NEW seqs, Drop(seqs)
  PROVE  /\ DOMAIN slots' = DOMAIN slots \ seqs
         /\ \A q \in DOMAIN slots' : slots'[q] = slots[q]
BY DEF Drop, Restrict

\* Dropping a set of frames that holds no flagged keyframe's successors without
\* the keyframe itself keeps the inductive invariant of the slots.
LEMMA DropSafe ==
  ASSUME IInv, NEW seqs, Drop(seqs), UNCHANGED write_seq,
         \A k \in FlaggedKeys : k \in seqs \/ \A q \in seqs : q < k,
         seqs \subseteq Int
  PROVE  /\ DOMAIN slots' \subseteq 0 .. (write_seq' - 1)
         /\ \A q \in DOMAIN slots' : slots'[q] \in Frames
         /\ FlaggedKeys' = FlaggedKeys \ seqs
         /\ KeyTailKept'
<1>1. DOMAIN slots' = DOMAIN slots \ seqs /\ \A q \in DOMAIN slots' : slots'[q] = slots[q]
  BY DropKeeps
<1>2. FlaggedKeys' = FlaggedKeys \ seqs
  BY <1>1 DEF FlaggedKeys
<1>3. KeyTailKept'
  <2> SUFFICES ASSUME NEW k \in FlaggedKeys', NEW q \in k .. (write_seq - 1)
               PROVE  q \in DOMAIN slots'
    BY DEF KeyTailKept
  <2>1. k \in FlaggedKeys /\ \A r \in seqs : r < k
    BY <1>2
  <2>2. q \in DOMAIN slots
    BY <2>1 DEF IInv, KeyTailKept
  <2>3. k \in Int
    BY <2>1 DEF IInv, TypeOK, FlaggedKeys
  <2>4. q \notin seqs
    BY <2>1, <2>3
  <2> QED
    BY <1>1, <2>2, <2>4
<1> QED
  BY <1>1, <1>2, <1>3 DEF IInv, TypeOK

\* While more GOPs than the minimum are indexed, the oldest start and the one
\* after it exist, and nothing is indexed between them.
LEMMA OldestGopBounds ==
  ASSUME TypeOK, Cardinality(gop_starts) > MIN_GOPS_RETAINED
  PROVE  LET start == Min(gop_starts)
             end   == Min(gop_starts \ {Min(gop_starts)})
         IN  /\ start \in gop_starts /\ end \in gop_starts
             /\ start \in Nat /\ end \in Nat /\ start < end
             /\ \A g \in gop_starts : g = start \/ end <= g
<1> DEFINE start == Min(gop_starts)
<1>1. gop_starts \subseteq Nat
  BY DEF TypeOK
<1>2. gop_starts # {}
  BY FS_EmptySet DEF MIN_GOPS_RETAINED
<1>3. start \in gop_starts /\ \A y \in gop_starts : start <= y
  BY <1>1, <1>2, MinOfNats
<1>4. gop_starts \ {start} # {}
  <2>1. gop_starts # {start}
    BY FS_Singleton DEF MIN_GOPS_RETAINED
  <2> QED
    BY <2>1, <1>3
<1> DEFINE end == Min(gop_starts \ {start})
<1>5. end \in gop_starts \ {start} /\ \A y \in gop_starts \ {start} : end <= y
  BY <1>1, <1>4, MinOfNats
<1> HIDE DEF start, end
<1>6. start \in Nat /\ end \in Nat /\ start < end
  <2>1. start <= end /\ start # end
    BY <1>3, <1>5
  <2> QED
    BY <2>1, <1>1, <1>3, <1>5
<1>7. \A g \in gop_starts : g = start \/ end <= g
  BY <1>5
<1> QED
  BY <1>3, <1>5, <1>6, <1>7 DEF start, end

LEMMA InitIInv == Init => IInv
<1> SUFFICES ASSUME Init PROVE IInv
  OBVIOUS
<1>1. DOMAIN slots = {} /\ gop_starts = {} /\ idr_seqs = {} /\ write_seq = 0
  BY DEF Init
<1>2. FlaggedKeys = {}
  BY <1>1 DEF FlaggedKeys
<1>3. TypeOK
  <2>1. evicting \in BOOLEAN
    BY DEF Init
  <2> QED
    BY <1>1, <2>1, MaxSeqAssumption DEF TypeOK
<1>4. IndexesAgree /\ KeysIndexed /\ KeyTailKept
  BY <1>1, <1>2 DEF IndexesAgree, KeysIndexed, KeyTailKept
<1> QED
  BY <1>3, <1>4 DEF IInv

\* A pushed keyframe is indexed under its seq, and every pushed frame extends
\* the tail of the keyframes before it.
LEMMA PushIInv == ASSUME IInv, NEW frame \in Frames, Push(frame) PROVE IInv'
<1>1. /\ write_seq \in 0 .. MaxSeq /\ write_seq < MaxSeq /\ write_seq' = write_seq + 1
      /\ DOMAIN slots' = DOMAIN slots \cup {write_seq}
      /\ \A q \in DOMAIN slots' : slots'[q] = IF q = write_seq THEN frame ELSE slots[q]
  BY DEF Push, IInv, TypeOK
<1>2. write_seq \notin DOMAIN slots
  BY DEF IInv, TypeOK
<1>3. TypeOK'
  <2>1. /\ gop_starts' \subseteq gop_starts \cup {write_seq}
        /\ idr_seqs' \subseteq idr_seqs \cup {write_seq}
        /\ evicting' = TRUE
    BY DEF Push
  <2> QED
    BY <1>1, <2>1, MaxSeqAssumption DEF IInv, TypeOK
<1>4. IndexesAgree'
  BY DEF Push, IInv, IndexesAgree
<1>5. FlaggedKeys' \subseteq FlaggedKeys \cup (IF frame.kind = "key" THEN {write_seq} ELSE {})
  BY <1>1 DEF FlaggedKeys
<1>6. KeysIndexed'
  BY <1>5 DEF Push, is_video_keyframe, IInv, KeysIndexed
<1>7. KeyTailKept'
  <2> SUFFICES ASSUME NEW k \in FlaggedKeys', NEW q \in k .. write_seq
               PROVE  q \in DOMAIN slots'
    BY <1>1 DEF KeyTailKept
  <2>1. CASE q = write_seq
    BY <1>1, <2>1
  <2>2. CASE q # write_seq
    <3>1. k # write_seq
      BY <1>1, <2>2
    <3>2. k \in FlaggedKeys
      BY <1>5, <3>1
    <3>3. q \in k .. (write_seq - 1)
      BY <1>1, <2>2
    <3> QED
      BY <1>1, <3>2, <3>3 DEF IInv, KeyTailKept
  <2> QED
    BY <2>1, <2>2
<1> QED
  BY <1>3, <1>4, <1>6, <1>7 DEF IInv

LEMMA EvictOldestGopIInv == ASSUME IInv, EvictOldestGop PROVE IInv'
<1> DEFINE start == Min(gop_starts)
           end == Min(gop_starts \ {Min(gop_starts)})
<1>1. /\ start \in gop_starts /\ end \in gop_starts
      /\ start \in Nat /\ end \in Nat /\ start < end
      /\ \A g \in gop_starts : g = start \/ end <= g
  BY OldestGopBounds DEF EvictOldestGop, IInv
<1>2. /\ Drop(OldestGop) /\ UNCHANGED <<write_seq, evicting>>
      /\ gop_starts' = gop_starts \ {start} /\ idr_seqs' = idr_seqs \ {start}
  BY DEF EvictOldestGop, Unindex
<1>3. OldestGop = start .. (end - 1)
  BY DEF OldestGop
<1> HIDE DEF start, end
<1>4. \A k \in FlaggedKeys : k \in OldestGop \/ \A q \in OldestGop : q < k
  <2> SUFFICES ASSUME NEW k \in FlaggedKeys
               PROVE  k \in OldestGop \/ \A q \in OldestGop : q < k
    OBVIOUS
  <2>1. k \in gop_starts /\ k \in Nat
    BY DEF IInv, KeysIndexed, TypeOK
  <2>2. k = start \/ end <= k
    BY <1>1, <2>1
  <2> QED
    BY <1>1, <1>3, <2>1, <2>2
<1>5. /\ DOMAIN slots' \subseteq 0 .. (write_seq' - 1)
      /\ \A q \in DOMAIN slots' : slots'[q] \in Frames
      /\ FlaggedKeys' = FlaggedKeys \ OldestGop
      /\ KeyTailKept'
  <2>1. OldestGop \subseteq Int
    BY <1>1, <1>3
  <2> QED
    BY <1>2, <1>4, <2>1, DropSafe
<1>6. TypeOK' /\ IndexesAgree'
  BY <1>2, <1>5 DEF IInv, TypeOK, IndexesAgree
<1>7. KeysIndexed'
  <2>1. start \in OldestGop
    BY <1>1, <1>3
  <2> QED
    BY <1>2, <1>5, <2>1 DEF IInv, KeysIndexed
<1> QED
  BY <1>5, <1>6, <1>7 DEF IInv

LEMMA EvictFrontIInv == ASSUME IInv, EvictFront PROVE IInv'
<1>1. /\ Drop(Unheaded)
      /\ UNCHANGED <<gop_starts, idr_seqs, write_seq, evicting>>
  BY DEF EvictFront
<1>2. /\ DOMAIN slots' \subseteq 0 .. (write_seq' - 1)
      /\ \A q \in DOMAIN slots' : slots'[q] \in Frames
      /\ FlaggedKeys' = FlaggedKeys \ Unheaded
      /\ KeyTailKept'
  <2>1. Unheaded \subseteq Int
    BY DEF Unheaded, IInv, TypeOK
  <2>2. \A k \in FlaggedKeys : \A q \in Unheaded : q < k
    BY DEF Unheaded
  <2> QED
    BY <1>1, <2>1, <2>2, DropSafe
<1> QED
  BY <1>1, <1>2 DEF IInv, TypeOK, IndexesAgree, KeysIndexed

LEMMA ResetIInv == ASSUME IInv, Reset PROVE IInv'
<1>1. /\ DOMAIN slots' = {} /\ gop_starts' = {} /\ idr_seqs' = {}
      /\ write_seq' = 0 /\ evicting' = evicting
  BY DEF Reset
<1>2. FlaggedKeys' = {}
  BY <1>1 DEF FlaggedKeys
<1> QED
  BY <1>1, <1>2, MaxSeqAssumption
     DEF IInv, TypeOK, IndexesAgree, KeysIndexed, KeyTailKept

LEMMA NextIInv == IInv /\ [Next]_vars => IInv'
<1> SUFFICES ASSUME IInv, [Next]_vars PROVE IInv'
  OBVIOUS
<1>1. CASE \E frame \in Frames : Push(frame)
  BY <1>1, PushIInv
<1>2. CASE EvictOldestGop
  BY <1>2, EvictOldestGopIInv
<1>3. CASE EvictFront
  BY <1>3, EvictFrontIInv
<1>4. CASE EvictDone
  BY <1>4 DEF EvictDone, IInv, TypeOK, IndexesAgree, KeysIndexed, KeyTailKept, FlaggedKeys
<1>5. CASE Reset
  BY <1>5, ResetIInv
<1>6. CASE UNCHANGED vars
  BY <1>6 DEF vars, IInv, TypeOK, IndexesAgree, KeysIndexed, KeyTailKept, FlaggedKeys
<1> QED
  BY <1>1, <1>2, <1>3, <1>4, <1>5, <1>6 DEF Next, Evict

\* The inductive invariant holds in every behaviour of the ring.
THEOREM RingInvariant == Spec => []IInv
BY InitIInv, NextIInv, PTL DEF Spec
----------------------------------------------------------------------------
\* Every retained or indexed seq was written and every slot holds a frame,
\* through pushes, evictions and resets.
THEOREM RingTypeOK == Spec => []TypeOK
<1>1. IInv => TypeOK
  BY DEF IInv
<1> QED
  BY <1>1, RingInvariant, PTL

\* No keyframe is retained with a hole behind it, whatever the capacities.
THEOREM RingKeyTailKept == Spec => []KeyTailKept
<1>1. IInv => KeyTailKept
  BY DEF IInv
<1> QED
  BY <1>1, RingInvariant, PTL

\* The IDR index and the GOP index hold the same seqs.
THEOREM RingIndexesAgree == Spec => []IndexesAgree
<1>1. IInv => IndexesAgree
  BY DEF IInv
<1> QED
  BY <1>1, RingInvariant, PTL

LEMMA IInvServes == IInv => LateJoinServed
<1> SUFFICES ASSUME IInv, NEW k \in FlaggedKeys PROVE snap("LatestIdr") \in DOMAIN slots
  BY DEF LateJoinServed
<1> DEFINE m == Max(idr_seqs)
<1>1. k \in idr_seqs /\ idr_seqs \subseteq 0 .. (write_seq - 1) /\ write_seq \in Nat
  BY DEF IInv, TypeOK, IndexesAgree, KeysIndexed
<1>2. write_seq - 1 \in Nat
  BY <1>1
<1>3. m \in idr_seqs /\ k <= m
  BY <1>1, <1>2, MaxOfNats
<1> HIDE DEF m
<1>4. m \in DOMAIN slots
  BY <1>1, <1>3 DEF IInv, KeyTailKept
<1>5. latest_idr_seq = m /\ m # NoSeq
  BY <1>1, <1>3 DEF latest_idr_seq, NoSeq, m
<1> QED
  BY <1>4, <1>5 DEF snap

\* As long as a flagged keyframe is cached, snap(LatestIdr) gives a cached seq.
THEOREM RingLateJoinServed == Spec => []LateJoinServed
BY IInvServes, RingInvariant, PTL
----------------------------------------------------------------------------
\* Each step that removes frames removes whole GOPs.
LEMMA StepKeepsGopHeads ==
  ASSUME IInv, [Next]_vars, NEW q \in DOMAIN slots \cap DOMAIN slots', NEW g \in GopHead(q)
  PROVE  g \in DOMAIN slots'
<1>1. /\ g \in gop_starts /\ g \in DOMAIN slots /\ g <= q
      /\ \A h \in gop_starts : h <= q => h <= g
  BY DEF GopHead
<1>2. g \in Nat /\ q \in Nat
  BY <1>1 DEF IInv, TypeOK
<1>3. CASE \E frame \in Frames : Push(frame)
  BY <1>1, <1>3 DEF Push
<1>4. CASE EvictOldestGop
  <2> DEFINE start == Min(gop_starts)
             end == Min(gop_starts \ {Min(gop_starts)})
  <2>1. /\ start \in gop_starts /\ end \in gop_starts
        /\ start \in Nat /\ end \in Nat /\ start < end
        /\ \A h \in gop_starts : h = start \/ end <= h
    BY <1>4, OldestGopBounds DEF EvictOldestGop, IInv
  <2>2. DOMAIN slots' = DOMAIN slots \ OldestGop
    BY <1>4, DropKeeps DEF EvictOldestGop
  <2>3. OldestGop = start .. (end - 1)
    BY DEF OldestGop
  <2> HIDE DEF start, end
  <2>4. CASE g = start
    <3>1. q < end
      BY <1>1, <1>2, <2>1, <2>4
    <3>2. q \in OldestGop
      BY <1>1, <1>2, <2>1, <2>3, <2>4, <3>1
    <3> QED
      BY <2>2, <3>2
  <2>5. CASE end <= g
    BY <1>1, <1>2, <2>1, <2>2, <2>3, <2>5
  <2> QED
    BY <1>1, <2>1, <2>4, <2>5
<1>5. CASE EvictFront
  <2>1. DOMAIN slots' = DOMAIN slots \ Unheaded
    BY <1>5, DropKeeps DEF EvictFront
  <2>2. PICK k \in FlaggedKeys : ~(q < k)
    BY <2>1 DEF Unheaded
  <2>3. k \in gop_starts /\ k \in Nat
    BY <2>2 DEF IInv, KeysIndexed, TypeOK
  <2>4. k <= g
    BY <1>1, <1>2, <2>2, <2>3
  <2>5. g \notin Unheaded
    BY <1>2, <2>2, <2>3, <2>4 DEF Unheaded
  <2> QED
    BY <1>1, <2>1, <2>5
<1>6. CASE EvictDone
  BY <1>1, <1>6 DEF EvictDone
<1>7. CASE Reset
  <2>1. DOMAIN slots' = {}
    BY <1>7 DEF Reset
  <2> QED
    BY <2>1
<1>8. CASE UNCHANGED vars
  BY <1>1, <1>8 DEF vars
<1> QED
  BY <1>3, <1>4, <1>5, <1>6, <1>7, <1>8 DEF Next, Evict

\* Eviction never cuts a GOP in two: whatever survives a step keeps its head.
THEOREM RingKeepsGopHeads == Spec => KeepsGopHeads
<1>1. IInv /\ [Next]_vars =>
        [\A q \in DOMAIN slots \cap DOMAIN slots' : GopHead(q) \subseteq DOMAIN slots']_vars
  BY StepKeepsGopHeads
<1> QED
  BY <1>1, RingInvariant, PTL DEF Spec, KeepsGopHeads
----------------------------------------------------------------------------
\* The byte count is a fold over the retained frames, which is a recursive function on
\* the subsets of their seqs.  That such a function exists is proved here for a finite
\* domain: its graph is the least relation closed under the two rules of the recursion.
Chosen(s) == CHOOSE x \in s : TRUE
Sums(iter, g, D) ==
  iter = [s \in SUBSET D |-> IF s = {} THEN 0 ELSE g[Chosen(s)] + iter[s \ {Chosen(s)}]]

\* Every non-empty family of subsets of a finite set has a member none of whose proper
\* subsets is in the family.
LEMMA SmallestSubset ==
  ASSUME NEW D, IsFiniteSet(D), NEW F, F \subseteq SUBSET D, F # {}
  PROVE  \E s \in F : \A t \in SUBSET s : t # s => t \notin F
<1>1. IsWellFoundedOn(StrictSubsetOrdering(D), SUBSET D)
  BY FS_FiniteSubsetsOfFinite, FS_StrictSubsetOrderingWellFounded
<1>2. PICK s \in F : \A t \in F : ~(<<t, s>> \in StrictSubsetOrdering(D))
  BY <1>1, WFMin
<1>3. ASSUME NEW t \in SUBSET s, t # s, t \in F PROVE FALSE
  BY <1>2, <1>3 DEF StrictSubsetOrdering
<1> QED
  BY <1>3

LEMMA SumExists ==
  ASSUME NEW D, IsFiniteSet(D), NEW g \in [D -> Nat]
  PROVE  \E iter : Sums(iter, g, D)
<1> DEFINE All == (SUBSET D) \X Nat
           Closed(R) ==
             /\ <<{}, 0>> \in R
             /\ \A s \in SUBSET D, n \in Nat :
                  s # {} /\ <<s \ {Chosen(s)}, n>> \in R => <<s, g[Chosen(s)] + n>> \in R
           In(s, n) == \A R \in SUBSET All : Closed(R) => <<s, n>> \in R
           Only(s, n) == \A m \in Nat : In(s, m) <=> m = n
<1>1. \A s \in SUBSET D : s # {} => /\ Chosen(s) \in s /\ g[Chosen(s)] \in Nat
                                    /\ s \ {Chosen(s)} \in SUBSET s
                                    /\ s \ {Chosen(s)} # s
  <2> SUFFICES ASSUME NEW s \in SUBSET D, s # {} PROVE Chosen(s) \in s
    OBVIOUS
  <2> QED
    BY DEF Chosen
<1>2. Only({}, 0)
  <2>1. In({}, 0)
    OBVIOUS
  <2>2. ASSUME NEW m \in Nat, m # 0 PROVE ~In({}, m)
    <3> DEFINE R == All \ {<<{}, m>>}
    <3>1. Closed(R)
      <4>1. <<{}, 0>> \in R
        BY <2>2
      <4>2. ASSUME NEW s \in SUBSET D, NEW n \in Nat, s # {}
            PROVE  <<s, g[Chosen(s)] + n>> \in R
        <5>1. g[Chosen(s)] + n \in Nat
          BY <1>1, <4>2
        <5> QED
          BY <4>2, <5>1
      <4> QED
        BY <4>1, <4>2
    <3>2. R \in SUBSET All /\ <<{}, m>> \notin R
      OBVIOUS
    <3> HIDE DEF R, Closed
    <3> QED
      BY <3>1, <3>2
  <2> HIDE DEF In
  <2> QED
    BY <2>1, <2>2
<1>3. ASSUME NEW s \in SUBSET D, s # {}, NEW n \in Nat, Only(s \ {Chosen(s)}, n)
      PROVE  Only(s, g[Chosen(s)] + n)
  <2> DEFINE p == s \ {Chosen(s)}
             v == g[Chosen(s)]
  <2>1. v \in Nat /\ v + n \in Nat /\ p \in SUBSET D
    BY <1>1, <1>3
  <2>2. In(s, v + n)
    <3> SUFFICES ASSUME NEW R \in SUBSET All, Closed(R) PROVE <<s, v + n>> \in R
      OBVIOUS
    <3>1. In(p, n)
      BY <1>3
    <3>2. <<p, n>> \in R
      BY <3>1
    <3> QED
      BY <1>3, <3>2
  <2>3. ASSUME NEW m \in Nat, m # v + n PROVE ~In(s, m)
    <3>1. CASE m < v
      <4> DEFINE R == All \ {<<s, m>>}
      <4>1. Closed(R)
        <5>1. <<{}, 0>> \in R
          BY <1>3
        <5>2. ASSUME NEW t \in SUBSET D, NEW k \in Nat, t # {}
              PROVE  <<t, g[Chosen(t)] + k>> \in R
          <6>1. g[Chosen(t)] \in Nat /\ g[Chosen(t)] + k \in Nat
            BY <1>1, <5>2
          <6>2. t = s => g[Chosen(t)] + k # m
            BY <3>1, <2>1, <6>1
          <6> QED
            BY <6>1, <6>2
        <5> QED
          BY <5>1, <5>2
      <4>2. R \in SUBSET All /\ <<s, m>> \notin R
        OBVIOUS
      <4> HIDE DEF R, Closed
      <4> QED
        BY <4>1, <4>2
    <3>2. CASE m >= v
      <4>1. m - v \in Nat /\ m - v # n /\ v + (m - v) = m
        BY <2>1, <2>3, <3>2
      <4>2. PICK R0 \in SUBSET All : Closed(R0) /\ <<p, m - v>> \notin R0
        BY <1>3, <4>1
      <4> DEFINE R == R0 \ {<<s, m>>}
      <4>3. Closed(R)
        <5>1. <<{}, 0>> \in R
          BY <1>3, <4>2
        <5>2. ASSUME NEW t \in SUBSET D, NEW k \in Nat, t # {}, <<t \ {Chosen(t)}, k>> \in R
              PROVE  <<t, g[Chosen(t)] + k>> \in R
          <6>1. <<t \ {Chosen(t)}, k>> \in R0
            BY <5>2
          <6>2. <<t, g[Chosen(t)] + k>> \in R0
            BY <4>2, <5>2, <6>1
          <6>3. ASSUME t = s, g[Chosen(t)] + k = m PROVE FALSE
            <7>1. k = m - v
              BY <2>1, <6>3
            <7> QED
              BY <4>2, <6>1, <6>3, <7>1
          <6> QED
            BY <6>2, <6>3
        <5> QED
          BY <5>1, <5>2
      <4>4. R \in SUBSET All /\ <<s, m>> \notin R
        OBVIOUS
      <4> HIDE DEF R, Closed
      <4> QED
        BY <4>3, <4>4
    <3> HIDE DEF In, v
    <3> QED
      BY <2>1, <3>1, <3>2
  <2> HIDE DEF In
  <2> QED
    BY <2>1, <2>2, <2>3
<1> HIDE DEF Only, In, Closed, All
<1>4. \A s \in SUBSET D : \E n \in Nat : Only(s, n)
  <2> DEFINE Bad == {s \in SUBSET D : ~\E n \in Nat : Only(s, n)}
  <2>1. SUFFICES ASSUME Bad # {} PROVE FALSE
    OBVIOUS
  <2>2. PICK s \in Bad : \A t \in SUBSET s : t # s => t \notin Bad
    <3>1. Bad \subseteq SUBSET D
      OBVIOUS
    <3> HIDE DEF Bad
    <3> QED
      BY <2>1, <3>1, SmallestSubset
  <2>3. s \in SUBSET D /\ s # {}
    BY <1>2
  <2>4. s \ {Chosen(s)} \notin Bad /\ s \ {Chosen(s)} \in SUBSET D
    BY <1>1, <2>2, <2>3
  <2>5. PICK n \in Nat : Only(s \ {Chosen(s)}, n)
    BY <2>4
  <2>6. Only(s, g[Chosen(s)] + n) /\ g[Chosen(s)] + n \in Nat
    BY <1>1, <1>3, <2>3, <2>5
  <2> QED
    BY <2>6
<1>5. \A s \in SUBSET D : \A m, n \in Nat : Only(s, m) /\ Only(s, n) => m = n
  BY DEF Only
<1> DEFINE f == [s \in SUBSET D |-> CHOOSE n \in Nat : Only(s, n)]
<1>6. \A s \in SUBSET D : f[s] \in Nat /\ Only(s, f[s])
  BY <1>4
<1>7. f[{}] = 0
  BY <1>2, <1>5, <1>6
<1>8. ASSUME NEW s \in SUBSET D, s # {} PROVE f[s] = g[Chosen(s)] + f[s \ {Chosen(s)}]
  <2>1. s \ {Chosen(s)} \in SUBSET D
    OBVIOUS
  <2>2. f[s \ {Chosen(s)}] \in Nat /\ Only(s \ {Chosen(s)}, f[s \ {Chosen(s)}])
    BY <1>6, <2>1
  <2>3. Only(s, g[Chosen(s)] + f[s \ {Chosen(s)}]) /\ g[Chosen(s)] + f[s \ {Chosen(s)}] \in Nat
    BY <1>1, <1>3, <1>8, <2>2
  <2> HIDE DEF f
  <2> QED
    BY <1>5, <1>6, <2>3
<1>9. f = [s \in SUBSET D |-> IF s = {} THEN 0 ELSE g[Chosen(s)] + f[s \ {Chosen(s)}]]
  <2>1. f = [s \in SUBSET D |-> f[s]]
    OBVIOUS
  <2> HIDE DEF f
  <2>2. \A s \in SUBSET D : f[s] = IF s = {} THEN 0 ELSE g[Chosen(s)] + f[s \ {Chosen(s)}]
    BY <1>7, <1>8
  <2> QED
    BY <2>1, <2>2
<1> QED
  BY <1>9 DEF Sums

\* Such a function sums: any member may be taken out first.
Totals(iter, g, D) ==
  /\ iter \in [SUBSET D -> Nat] /\ iter[{}] = 0
  /\ \A s \in SUBSET D : \A x \in s : iter[s] = g[x] + iter[s \ {x}]

LEMMA SumFacts ==
  ASSUME NEW D, IsFiniteSet(D), NEW g \in [D -> Nat], NEW iter, Sums(iter, g, D)
  PROVE  Totals(iter, g, D)
<1>1. DOMAIN iter = SUBSET D /\ iter = [s \in SUBSET D |-> iter[s]]
  BY DEF Sums
<1>2. iter[{}] = 0
  <2>1. {} \in SUBSET D
    OBVIOUS
  <2> QED
    BY <2>1 DEF Sums
<1>3. \A s \in SUBSET D :
        s # {} => Chosen(s) \in s /\ iter[s] = g[Chosen(s)] + iter[s \ {Chosen(s)}]
  <2> SUFFICES ASSUME NEW s \in SUBSET D, s # {}
               PROVE  Chosen(s) \in s /\ iter[s] = g[Chosen(s)] + iter[s \ {Chosen(s)}]
    OBVIOUS
  <2>1. Chosen(s) \in s
    BY DEF Chosen
  <2> QED
    BY <2>1 DEF Sums
<1>4. \A s \in SUBSET D : iter[s] \in Nat
  <2> DEFINE Bad == {s \in SUBSET D : iter[s] \notin Nat}
  <2>1. SUFFICES ASSUME Bad # {} PROVE FALSE
    OBVIOUS
  <2>2. PICK s \in Bad : \A t \in SUBSET s : t # s => t \notin Bad
    <3>1. Bad \subseteq SUBSET D
      OBVIOUS
    <3> HIDE DEF Bad
    <3> QED
      BY <2>1, <3>1, SmallestSubset
  <2>3. s \in SUBSET D /\ s # {}
    BY <1>2
  <2>4. s \ {Chosen(s)} \in SUBSET s /\ s \ {Chosen(s)} # s /\ g[Chosen(s)] \in Nat
    BY <1>3, <2>3
  <2>5. iter[s \ {Chosen(s)}] \in Nat
    <3>1. s \ {Chosen(s)} \notin Bad /\ s \ {Chosen(s)} \in SUBSET D
      BY <2>2, <2>3, <2>4
    <3> QED
      BY <3>1
  <2>6. iter[s] = g[Chosen(s)] + iter[s \ {Chosen(s)}]
    BY <1>3, <2>3
  <2>7. iter[s] \in Nat
    BY <2>4, <2>5, <2>6
  <2> QED
    BY <2>7
<1>5. \A s \in SUBSET D : \A x \in s : iter[s] = g[x] + iter[s \ {x}]
  <2> DEFINE Bad == {s \in SUBSET D : \E x \in s : iter[s] # g[x] + iter[s \ {x}]}
  <2>1. SUFFICES ASSUME Bad # {} PROVE FALSE
    OBVIOUS
  <2>2. PICK s \in Bad : \A t \in SUBSET s : t # s => t \notin Bad
    <3>1. Bad \subseteq SUBSET D
      OBVIOUS
    <3> HIDE DEF Bad
    <3> QED
      BY <2>1, <3>1, SmallestSubset
  <2>3. s \in SUBSET D
    OBVIOUS
  <2>4. PICK x \in s : iter[s] # g[x] + iter[s \ {x}]
    OBVIOUS
  <2>5. ASSUME NEW t \in SUBSET s, t # s, NEW y \in t PROVE iter[t] = g[y] + iter[t \ {y}]
    BY <2>2, <2>3, <2>5
  <2> HIDE DEF Bad
  <2> DEFINE p == Chosen(s)
  <2>6. p \in s /\ iter[s] = g[p] + iter[s \ {p}]
    BY <1>3, <2>3, <2>4
  <2> HIDE DEF p
  <2>7. p # x
    BY <2>4, <2>6
  <2>8. iter[s \ {p}] = g[x] + iter[(s \ {p}) \ {x}]
    <3>1. s \ {p} \in SUBSET s /\ s \ {p} # s /\ x \in s \ {p}
      BY <2>6, <2>7
    <3> QED
      BY <2>5, <3>1
  <2>9. iter[s \ {x}] = g[p] + iter[(s \ {p}) \ {x}]
    <3>1. s \ {x} \in SUBSET s /\ s \ {x} # s /\ p \in s \ {x}
      BY <2>6, <2>7
    <3>2. (s \ {x}) \ {p} = (s \ {p}) \ {x}
      OBVIOUS
    <3> QED
      BY <2>5, <3>1, <3>2
  <2>10. g[p] \in Nat /\ g[x] \in Nat /\ iter[(s \ {p}) \ {x}] \in Nat
    BY <1>4, <2>3, <2>4, <2>6
  <2> QED
    BY <2>4, <2>6, <2>8, <2>9, <2>10
<1> QED
  BY <1>1, <1>2, <1>4, <1>5 DEF Totals

\* Sums over two functions agree on the sets of arguments on which the functions agree.
LEMMA SumsAgree ==
  ASSUME NEW D, IsFiniteSet(D), NEW g \in [D -> Nat], NEW a, Sums(a, g, D),
         NEW E, IsFiniteSet(E), NEW h \in [E -> Nat], NEW b, Sums(b, h, E),
         NEW S, S \subseteq D, S \subseteq E, \A x \in S : g[x] = h[x]
  PROVE  a[S] = b[S]
<1>1. /\ a[{}] = 0 /\ \A s \in SUBSET D : \A x \in s : a[s] = g[x] + a[s \ {x}]
      /\ b[{}] = 0 /\ \A s \in SUBSET E : \A x \in s : b[s] = h[x] + b[s \ {x}]
  <2>1. Totals(a, g, D)
    BY SumFacts
  <2>2. Totals(b, h, E)
    BY SumFacts
  <2> QED
    BY <2>1, <2>2 DEF Totals
<1> DEFINE Bad == {s \in SUBSET S : a[s] # b[s]}
<1>2. SUFFICES ASSUME Bad # {} PROVE FALSE
  OBVIOUS
<1>3. PICK s \in Bad : \A t \in SUBSET s : t # s => t \notin Bad
  <2>1. Bad \subseteq SUBSET S /\ IsFiniteSet(S)
    BY FS_Subset
  <2> HIDE DEF Bad
  <2> QED
    BY <1>2, <2>1, SmallestSubset
<1>4. s \in SUBSET S /\ a[s] # b[s]
  OBVIOUS
<1>5. PICK x \in s : TRUE
  BY <1>1, <1>4
<1>6. s \ {x} \in SUBSET s /\ s \ {x} # s /\ s \ {x} \in SUBSET S
  BY <1>4, <1>5
<1>7. a[s \ {x}] = b[s \ {x}]
  BY <1>3, <1>6
<1>8. a[s] = g[x] + a[s \ {x}] /\ b[s] = h[x] + b[s \ {x}] /\ g[x] = h[x]
  BY <1>1, <1>4, <1>5
<1> QED
  BY <1>4, <1>7, <1>8

\* The sum over a set is the sum over any part of it and the rest.
LEMMA SumSplits ==
  ASSUME NEW D, IsFiniteSet(D), NEW g \in [D -> Nat], NEW iter, Sums(iter, g, D), NEW A
  PROVE  iter[D] = iter[D \cap A] + iter[D \ A]
<1>1. /\ iter \in [SUBSET D -> Nat] /\ iter[{}] = 0
      /\ \A s \in SUBSET D : \A x \in s : iter[s] = g[x] + iter[s \ {x}]
  BY SumFacts DEF Totals
<1> DEFINE Bad == {s \in SUBSET D : iter[s] # iter[s \cap A] + iter[s \ A]}
<1>2. SUFFICES ASSUME Bad # {} PROVE FALSE
  <2>1. D \in SUBSET D
    OBVIOUS
  <2> QED
    BY <2>1
<1>3. PICK s \in Bad : \A t \in SUBSET s : t # s => t \notin Bad
  <2>1. Bad \subseteq SUBSET D
    OBVIOUS
  <2> HIDE DEF Bad
  <2> QED
    BY <1>2, <2>1, SmallestSubset
<1>4. s \in SUBSET D /\ iter[s] # iter[s \cap A] + iter[s \ A]
  OBVIOUS
<1>5. PICK x \in s : TRUE
  <2>1. CASE s = {}
    <3>1. s \cap A = {} /\ s \ A = {}
      BY <2>1
    <3> QED
      BY <1>1, <1>4, <2>1, <3>1
  <2> QED
    BY <2>1
<1>6. s \ {x} \in SUBSET s /\ s \ {x} # s /\ s \ {x} \in SUBSET D
  BY <1>4, <1>5
<1>7. iter[s \ {x}] = iter[(s \ {x}) \cap A] + iter[(s \ {x}) \ A]
  BY <1>3, <1>6
<1>8. /\ iter[s] = g[x] + iter[s \ {x}]
      /\ g[x] \in Nat /\ s \cap A \in SUBSET D /\ s \ A \in SUBSET D
      /\ (s \ {x}) \cap A \in SUBSET D /\ (s \ {x}) \ A \in SUBSET D
  BY <1>1, <1>4, <1>5
<1>9. iter[(s \ {x}) \cap A] \in Nat /\ iter[(s \ {x}) \ A] \in Nat
  BY <1>1, <1>8
<1>10. CASE x \in A
  <2>1. (s \cap A) \ {x} = (s \ {x}) \cap A /\ (s \ {x}) \ A = s \ A /\ x \in s \cap A
    BY <1>5, <1>10
  <2>2. iter[s \cap A] = g[x] + iter[(s \cap A) \ {x}]
    BY <1>1, <1>8, <2>1
  <2>3. iter[s \cap A] = g[x] + iter[(s \ {x}) \cap A] /\ iter[s \ A] = iter[(s \ {x}) \ A]
    BY <2>1, <2>2
  <2> QED
    BY <1>4, <1>7, <1>8, <1>9, <2>3
<1>11. CASE x \notin A
  <2>1. (s \ A) \ {x} = (s \ {x}) \ A /\ (s \ {x}) \cap A = s \cap A /\ x \in s \ A
    BY <1>5, <1>11
  <2>2. iter[s \ A] = g[x] + iter[(s \ A) \ {x}]
    BY <1>1, <1>8, <2>1
  <2>3. iter[s \ A] = g[x] + iter[(s \ {x}) \ A] /\ iter[s \cap A] = iter[(s \ {x}) \cap A]
    BY <2>1, <2>2
  <2> QED
    BY <1>4, <1>7, <1>8, <1>9, <2>3
<1> QED
  BY <1>10, <1>11
----------------------------------------------------------------------------
\* Payloads(f): f maps finitely many seqs to frames with a size.
Payloads(f) == IsFiniteSet(DOMAIN f) /\ \A q \in DOMAIN f : f[q].size \in Nat
SizeOf(f) == [q \in DOMAIN f |-> f[q].size]

\* The byte count of the retained frames is such a sum.
LEMMA BytesSums ==
  ASSUME NEW f, Payloads(f)
  PROVE  /\ SizeOf(f) \in [DOMAIN f -> Nat]
         /\ \E iter : Sums(iter, SizeOf(f), DOMAIN f) /\ Bytes(f) = iter[DOMAIN f]
<1> DEFINE D == DOMAIN f
           g == SizeOf(f)
           sum == CHOOSE iter : Sums(iter, g, D)
<1>1. g \in [D -> Nat] /\ DOMAIN g = D /\ IsFiniteSet(D)
  BY DEF Payloads, SizeOf
<1>2. Bytes(f) = FoldFunction(+, 0, g)
  BY DEF Bytes, SizeOf
<1> HIDE DEF g, D
<1>3. FoldFunction(+, 0, g) =
        (CHOOSE iter : iter = [s \in SUBSET D |-> IF s = {} THEN 0
             ELSE g[CHOOSE x \in s : TRUE] + iter[s \ {CHOOSE x \in s : TRUE}]])[D]
  BY <1>1 DEF FoldFunction, FoldFunctionOnSet, MapThenFoldSet
<1>4. FoldFunction(+, 0, g) = sum[D]
  BY <1>3 DEF Sums, Chosen
<1>5. \E iter : Sums(iter, g, D)
  BY <1>1, SumExists
<1>6. Sums(sum, g, D)
  BY <1>5
<1> QED
  BY <1>1, <1>2, <1>4, <1>6 DEF g, D

LEMMA BytesType == ASSUME NEW f, Payloads(f) PROVE Bytes(f) \in Nat
<1>1. PICK iter : Sums(iter, SizeOf(f), DOMAIN f) /\ Bytes(f) = iter[DOMAIN f]
  BY BytesSums
<1>2. Totals(iter, SizeOf(f), DOMAIN f)
  BY <1>1, BytesSums, SumFacts DEF Payloads
<1> QED
  BY <1>1, <1>2 DEF Totals

\* No frames, no bytes.
LEMMA BytesOfNone == ASSUME NEW f, DOMAIN f = {} PROVE Bytes(f) = 0
<1>1. Payloads(f)
  BY FS_EmptySet DEF Payloads
<1>2. PICK iter : Sums(iter, SizeOf(f), DOMAIN f) /\ Bytes(f) = iter[DOMAIN f]
  BY <1>1, BytesSums
<1>3. Totals(iter, SizeOf(f), DOMAIN f)
  BY <1>1, <1>2, BytesSums, SumFacts DEF Payloads
<1> QED
  BY <1>2, <1>3 DEF Totals

\* A frame added adds its size.
LEMMA BytesAdded ==
  ASSUME NEW f, Payloads(f), NEW h, NEW x, x \notin DOMAIN f, DOMAIN h = DOMAIN f \cup {x},
         \A q \in DOMAIN f : h[q] = f[q], h[x].size \in Nat
  PROVE  Payloads(h) /\ Bytes(h) = Bytes(f) + h[x].size
<1> DEFINE D == DOMAIN f
           E == DOMAIN h
<1>1. Payloads(h)
  <2>1. IsFiniteSet(E)
    BY FS_AddElement DEF Payloads
  <2> QED
    BY <2>1 DEF Payloads
<1>2. PICK a : Sums(a, SizeOf(f), D) /\ Bytes(f) = a[D]
  BY BytesSums
<1>3. PICK b : Sums(b, SizeOf(h), E) /\ Bytes(h) = b[E]
  BY <1>1, BytesSums
<1>4. /\ SizeOf(f) \in [D -> Nat] /\ SizeOf(h) \in [E -> Nat]
      /\ IsFiniteSet(D) /\ IsFiniteSet(E)
  BY <1>1, BytesSums DEF Payloads
<1>5. Totals(b, SizeOf(h), E)
  BY <1>3, <1>4, SumFacts
<1>6. b[E] = SizeOf(h)[x] + b[E \ {x}]
  BY <1>5 DEF Totals
<1>7. E \ {x} = D
  OBVIOUS
<1>8. a[D] = b[D]
  <2>1. D \subseteq E /\ \A q \in D : SizeOf(f)[q] = SizeOf(h)[q]
    BY DEF SizeOf
  <2> QED
    BY <1>2, <1>3, <1>4, <2>1, SumsAgree
<1>9. SizeOf(h)[x] = h[x].size
  BY DEF SizeOf
<1>10. Bytes(f) \in Nat
  BY BytesType
<1> QED
  BY <1>1, <1>2, <1>3, <1>6, <1>7, <1>8, <1>9, <1>10

\* The bytes of the frames dropped and of the frames kept add up.
LEMMA BytesSplit ==
  ASSUME NEW f, Payloads(f), NEW A
  PROVE  LET dropped == Restrict(f, DOMAIN f \cap A)
             kept    == Restrict(f, DOMAIN f \ A)
         IN  Payloads(dropped) /\ Payloads(kept) /\ Bytes(f) = Bytes(dropped) + Bytes(kept)
<1> DEFINE D == DOMAIN f
           part(S) == Restrict(f, S)
<1>1. ASSUME NEW S, S \subseteq D PROVE DOMAIN part(S) = S /\ Payloads(part(S))
  <2>1. DOMAIN part(S) = S /\ \A q \in S : part(S)[q] = f[q]
    BY DEF Restrict
  <2>2. IsFiniteSet(S)
    BY <1>1, FS_Subset DEF Payloads
  <2> HIDE DEF part
  <2> QED
    BY <1>1, <2>1, <2>2 DEF Payloads
<1>2. PICK a : Sums(a, SizeOf(f), D) /\ Bytes(f) = a[D]
  BY BytesSums
<1>3. SizeOf(f) \in [D -> Nat] /\ IsFiniteSet(D)
  BY BytesSums DEF Payloads
<1>4. ASSUME NEW S, S \subseteq D PROVE Bytes(part(S)) = a[S]
  <2>1. PICK b : Sums(b, SizeOf(part(S)), S) /\ Bytes(part(S)) = b[S]
    BY <1>1, <1>4, BytesSums
  <2>2. SizeOf(part(S)) \in [S -> Nat] /\ IsFiniteSet(S)
    BY <1>1, <1>4, BytesSums DEF Payloads
  <2>3. \A q \in S : SizeOf(f)[q] = SizeOf(part(S))[q]
    BY <1>4 DEF SizeOf, Restrict
  <2> HIDE DEF part
  <2>4. a[S] = b[S]
    BY <1>2, <1>3, <1>4, <2>1, <2>2, <2>3, SumsAgree
  <2> QED
    BY <2>1, <2>4
<1>5. a[D] = a[D \cap A] + a[D \ A]
  BY <1>2, <1>3, SumSplits
<1>6. D \cap A \subseteq D /\ D \ A \subseteq D
  OBVIOUS
<1> HIDE DEF part, D
<1>7. /\ Payloads(part(D \cap A)) /\ Payloads(part(D \ A))
      /\ Bytes(f) = Bytes(part(D \cap A)) + Bytes(part(D \ A))
  BY <1>1, <1>2, <1>4, <1>5, <1>6
<1> QED
  BY <1>7 DEF part, D
----------------------------------------------------------------------------
\* Dropping frames subtracts exactly their bytes: saturating_sub never saturates.
LEMMA DropExact ==
  ASSUME Payloads(slots), BytesExact, NEW seqs, Drop(seqs)
  PROVE  BytesExact'
<1> DEFINE dropped == Restrict(slots, DOMAIN slots \cap seqs)
           kept == Restrict(slots, DOMAIN slots \ seqs)
<1>1. /\ Payloads(dropped) /\ Payloads(kept)
      /\ Bytes(slots) = Bytes(dropped) + Bytes(kept)
  BY BytesSplit
<1>2. slots' = kept /\ bytes_used' = Monus(bytes_used, Bytes(dropped))
  BY DEF Drop
<1> HIDE DEF dropped, kept
<1>3. Bytes(dropped) \in Nat /\ Bytes(kept) \in Nat
  BY <1>1, BytesType
<1>4. bytes_used' = Bytes(kept)
  BY <1>1, <1>2, <1>3 DEF BytesExact, Monus
<1> QED
  BY <1>2, <1>4 DEF BytesExact

LEMMA SlotsArePayloads == IInv => Payloads(slots)
<1> SUFFICES ASSUME IInv PROVE Payloads(slots)
  OBVIOUS
<1>1. DOMAIN slots \subseteq 0 .. write_seq /\ write_seq \in Int
  BY DEF IInv, TypeOK
<1>2. IsFiniteSet(DOMAIN slots)
  <2>1. IsFiniteSet(0 .. write_seq)
    BY <1>1, FS_Interval
  <2> QED
    BY <1>1, <2>1, FS_Subset
<1>3. \A q \in DOMAIN slots : slots[q].size \in Nat
  BY SizesAssumption DEF IInv, TypeOK, Frames
<1> QED
  BY <1>2, <1>3 DEF Payloads

\* The running total and the measured bounds, step by step.
BInv == IInv /\ BytesExact /\ MemoryBounded

LEMMA InitBInv == Init => BInv
<1> SUFFICES ASSUME Init PROVE BInv
  OBVIOUS
<1>1. DOMAIN slots = {} /\ bytes_used = 0
  BY DEF Init
<1>2. Bytes(slots) = 0 /\ Cardinality(DOMAIN slots) = 0
  BY <1>1, BytesOfNone, FS_EmptySet
<1> QED
  BY <1>1, <1>2, InitIInv, CapacityAssumption DEF BInv, BytesExact, MemoryBounded

LEMMA NextBInv == BInv /\ [Next]_vars => BInv'
<1> SUFFICES ASSUME BInv, [Next]_vars PROVE BInv'
  OBVIOUS
<1>1. IInv /\ IInv' /\ Payloads(slots) /\ BytesExact
  BY NextIInv, SlotsArePayloads DEF BInv
<1>2. ASSUME NEW frame \in Frames, Push(frame) PROVE BytesExact' /\ MemoryBounded'
  <2>1. /\ DOMAIN slots' = DOMAIN slots \cup {write_seq}
        /\ \A q \in DOMAIN slots : q # write_seq /\ slots'[q] = slots[q]
        /\ slots'[write_seq] = frame /\ bytes_used' = bytes_used + frame.size /\ evicting'
    BY <1>1, <1>2 DEF Push, IInv, TypeOK
  <2>2. frame.size \in Nat
    BY SizesAssumption DEF Frames
  <2>3. Bytes(slots') = Bytes(slots) + frame.size
    BY <1>1, <2>1, <2>2, BytesAdded
  <2> QED
    BY <1>1, <2>1, <2>3 DEF BytesExact, MemoryBounded
<1>3. CASE EvictOldestGop \/ EvictFront
  <2>1. evicting' /\ \E seqs : Drop(seqs)
    BY <1>3 DEF EvictOldestGop, EvictFront
  <2> QED
    BY <1>1, <2>1, DropExact DEF BInv, MemoryBounded
<1>4. CASE EvictDone
  <2>1. UNCHANGED <<slots, bytes_used>>
    BY <1>4 DEF EvictDone
  <2>2. BytesExact'
    BY <1>1, <2>1 DEF BytesExact
  <2>3. ~needs_evict => Cardinality(DOMAIN slots) <= CapacityFrames /\ bytes_used <= CapacityBytes
    <3>1. Cardinality(DOMAIN slots) \in Nat
      BY <1>1, FS_CardinalityType DEF Payloads
    <3>2. bytes_used \in Nat
      BY <1>1, BytesType DEF BytesExact
    <3> QED
      BY <3>1, <3>2, CapacityAssumption DEF needs_evict
  <2>4. ~needs_evict \/ Cardinality(DOMAIN slots) <= 1
    BY <1>4 DEF EvictDone
  <2>5. MemoryBounded'
    BY <1>1, <2>1, <2>3, <2>4 DEF MemoryBounded, BytesExact
  <2> QED
    BY <1>1, <2>2, <2>5 DEF BInv
<1>5. CASE Reset
  <2>1. DOMAIN slots' = {} /\ bytes_used' = 0
    BY <1>5 DEF Reset
  <2>2. Bytes(slots') = 0 /\ Cardinality(DOMAIN slots') = 0
    BY <2>1, BytesOfNone, FS_EmptySet
  <2> QED
    BY <1>1, <2>1, <2>2, CapacityAssumption DEF BInv, BytesExact, MemoryBounded
<1>6. CASE UNCHANGED vars
  BY <1>1, <1>6 DEF vars, BInv, BytesExact, MemoryBounded
<1> QED
  BY <1>1, <1>2, <1>3, <1>4, <1>5, <1>6 DEF Next, Evict, BInv

\* The byte counter always equals the payload retained, whichever path removed frames.
THEOREM RingBytesExact == Spec => []BytesExact
<1>1. BInv => BytesExact
  BY DEF BInv
<1> QED
  BY <1>1, InitBInv, NextBInv, PTL DEF Spec

\* After every push the cache is within both capacities, or holds one frame.
THEOREM RingMemoryBounded == Spec => []MemoryBounded
<1>1. BInv => MemoryBounded
  BY DEF BInv
<1> QED
  BY <1>1, InitBInv, NextBInv, PTL DEF Spec
=============================================================================
