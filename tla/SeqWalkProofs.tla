--------------------------- MODULE SeqWalkProofs ----------------------------
(* Proofs about TcpSeq and SeqWalk, for every width of the numbers.        *)
EXTENDS SeqWalk, TLAPS

(* A relative number that has not wrapped survives the trip to the wire    *)
(* and back: buildPackage's sum undone by TCP_RELATIVE_SEQ.                *)
LEMMA RoundTrip ==
  ASSUME NEW base \in U32, NEW rel \in Nat, rel >= 1, rel + base < Mod
  PROVE  RelativeSeq(AbsoluteSeq(rel, base), base) = rel
<1>1. rel + base \in Nat /\ Mod \in Nat /\ Mod > 0
  BY HalfAssumption DEF U32, Mod
<1>2. (rel + base) % Mod = rel + base
  BY <1>1
<1> QED BY <1>1, <1>2 DEF RelativeSeq, AbsoluteSeq, U32

(* After wrapping, the number read back is one short: TCP_RELATIVE_SEQ     *)
(* adds 2^32 - 1 where 2^32 is needed.                                     *)
LEMMA RoundTripWrapped ==
  ASSUME NEW base \in U32, NEW rel \in Nat, rel >= 1, rel < Mod, rel + base >= Mod
  PROVE  RelativeSeq(AbsoluteSeq(rel, base), base) = rel - 1
<1>1. Mod \in Nat /\ Mod > 0 /\ rel + base - Mod \in 0 .. (Mod - 1)
  BY HalfAssumption DEF U32, Mod
<1>2. (rel + base) % Mod = rel + base - Mod
  BY <1>1, Z3 DEF U32
<1>3. rel + base - Mod < base
  BY <1>1 DEF U32
<1>4. (Mod - 1) - base + (rel + base - Mod) = rel - 1
  BY <1>1 DEF U32
<1>5. (rel - 1) % Mod = rel - 1
  BY <1>1
<1> QED BY <1>1, <1>2, <1>3, <1>4, <1>5 DEF RelativeSeq, AbsoluteSeq, U32

(* compare_u32 orders two numbers below 2^31 as the numbers they are,      *)
(* 0 and 2^31 - 1 apart, which it takes for being in the other order.      *)
LEMMA CompareSmall ==
  ASSUME NEW s1 \in Nat, NEW s2 \in Nat, s1 <= MaxInt, s2 <= MaxInt,
         s1 >= 1 \/ s2 < MaxInt, NEW c \in compare_u32(s1, s2)
  PROVE  /\ s1 < s2 => c = -1
         /\ s1 = s2 => c = 0
         /\ s1 > s2 => c = 1
<1>0. MaxInt \in Nat
  BY HalfAssumption DEF MaxInt
<1>1. ToInt(s1) = s1 /\ ToInt(s2) = s2
  BY <1>0 DEF ToInt
<1>2. IntSub(s2, s1) = {s2 - s1}
  BY <1>0 DEF IntSub
<1>3. CASE s1 = s2
  BY <1>3 DEF compare_u32
<1>4. CASE s1 # s2
  <2>1. c = IF s1 < s2 /\ s2 - s1 < MaxInt THEN -1 ELSE 1
    BY <1>1, <1>2, <1>4 DEF compare_u32
  <2>2. s2 - s1 < MaxInt
    BY <1>0
  <2> QED BY <1>4, <2>1, <2>2
<1> QED BY <1>3, <1>4

-----------------------------------------------------------------------------
(* While the numbers are in range they are the kernel's own and every      *)
(* segment queued lies before the next one; short of 2^31 bytes no more is *)
(* counted than was sent.  Inductive.                                      *)
Exact ==
  InRange => /\ mRemoteNext = sent
             /\ verdict.queued <=> verdict.new
             /\ \A i \in 1 .. Len(mForwardQueue) : mForwardQueue[i] < mRemoteNext

Walk == TypeOK /\ sent >= 1 /\ Exact /\ AcksNothingUnsent

LEMMA Widths ==
  /\ Half \in Nat /\ MaxInt \in Nat /\ MaxInt >= 1 /\ Mod \in Nat /\ MaxInt < Mod
  /\ U32 = 0 .. (Mod - 1)
BY HalfAssumption DEF MaxInt, Mod, U32

LEMMA WalkInit == Init => Walk
BY Widths, WalkAssumption
   DEF Init, Walk, Exact, TypeOK, AcksNothingUnsent, Verdicts, InRange

(* A number read back is one of uint32_t; it is the byte's own if it did   *)
(* not wrap, and short of 2^32 it is never ahead of the byte.              *)
LEMMA SeqOfBounds ==
  ASSUME TypeOK, NEW off \in Nat, off >= 1
  PROVE  /\ SeqOf(off) \in U32
         /\ off + mRemoteSeqBase < Mod => SeqOf(off) = off
         /\ off < Mod => SeqOf(off) <= off
<1>1. mRemoteSeqBase \in U32
  BY WalkAssumption DEF TypeOK
<1>2. SeqOf(off) \in U32
  <2>1. ASSUME NEW n \in Int PROVE n % Mod \in 0 .. (Mod - 1)
    BY <2>1, Widths
  <2>2. AbsoluteSeq(off, mRemoteSeqBase) \in U32
    <3>1. off + mRemoteSeqBase \in Int
      BY <1>1, Widths
    <3> QED BY <2>1, <3>1, Widths DEF AbsoluteSeq
  <2>3. ASSUME NEW s \in U32 PROVE RelativeSeq(s, mRemoteSeqBase) \in U32
    <3>1. /\ (Mod - 1) - mRemoteSeqBase + s \in Int
          /\ s > mRemoteSeqBase => s - mRemoteSeqBase \in 0 .. (Mod - 1)
      BY <1>1, <2>3, Widths
    <3> QED BY <2>1, <3>1, Widths DEF RelativeSeq
  <2> QED BY <2>2, <2>3 DEF SeqOf
<1>3. off + mRemoteSeqBase < Mod => SeqOf(off) = off
  BY <1>1, RoundTrip DEF SeqOf
<1>4. ASSUME off < Mod PROVE SeqOf(off) <= off
  <2>1. CASE off + mRemoteSeqBase < Mod
    BY <1>3, <2>1
  <2>2. CASE off + mRemoteSeqBase >= Mod
    <3>1. SeqOf(off) = off - 1
      BY <1>1, <1>4, <2>2, RoundTripWrapped DEF SeqOf
    <3> QED BY <3>1
  <2> QED BY <1>1, <2>1, <2>2, Widths
<1> QED BY <1>2, <1>3, <1>4

(* What accept and enqueueIfNeed do with a segment: nothing, when it is    *)
(* behind or its number is queued, or it is queued and counted.            *)
LEMMA AcceptCases ==
  ASSUME TypeOK, NEW off \in Nat, off >= 1, NEW len \in Nat, NEW new \in BOOLEAN,
         Accept(off, len, new)
  PROVE  /\ mRemoteSeqBase' = mRemoteSeqBase
         /\ verdict' \in Verdicts /\ verdict'.new = new
         /\ mRemoteNext' \in U32 /\ mForwardQueue' \in Seq(U32)
         /\ \/ /\ verdict'.queued = FALSE
               /\ UNCHANGED <<mRemoteNext, mForwardQueue>>
               /\ \/ \E c \in compare_u32(SeqOf(off), mRemoteNext) : c < 0
                  \/ \E i \in 1 .. Len(mForwardQueue) : mForwardQueue[i] = SeqOf(off)
            \/ /\ verdict'.queued = TRUE
               /\ mRemoteNext' = (mRemoteNext + len) % Mod
               /\ \A i \in 1 .. Len(mForwardQueue') :
                    \/ mForwardQueue'[i] = SeqOf(off)
                    \/ \E j \in 1 .. Len(mForwardQueue) :
                         mForwardQueue'[i] = mForwardQueue[j]
               /\ \E c \in compare_u32(SeqOf(off), mRemoteNext) : c >= 0
<1> DEFINE seq == SeqOf(off)
           Judged(queued) == [new |-> new, queued |-> queued]
           Known(at) == at <= Len(mForwardQueue) /\ mForwardQueue[at] = seq
<1>1. seq \in U32 /\ mRemoteNext \in U32 /\ mForwardQueue \in Seq(U32)
      /\ Len(mForwardQueue) \in Nat
  BY SeqOfBounds DEF TypeOK
<1>2. \A b \in BOOLEAN : Judged(b) \in Verdicts /\ Judged(b).new = new /\ Judged(b).queued = b
  BY DEF Verdicts
<1>3. PICK c \in compare_u32(seq, mRemoteNext), at \in 1 .. (Len(mForwardQueue) + 1) :
        \/ /\ c < 0 \/ Known(at)
           /\ verdict' = Judged(FALSE)
           /\ UNCHANGED <<mRemoteNext, mForwardQueue>>
        \/ /\ c >= 0 /\ ~Known(at)
           /\ verdict' = Judged(TRUE)
           /\ mRemoteNext' = (mRemoteNext + len) % Mod
           /\ mForwardQueue' = insert(mForwardQueue, at, seq)
  BY DEF Accept
<1>4. mRemoteSeqBase' = mRemoteSeqBase
  BY DEF Accept
<1>5. CASE /\ c < 0 \/ Known(at)
           /\ verdict' = Judged(FALSE)
           /\ UNCHANGED <<mRemoteNext, mForwardQueue>>
  <2>1. c < 0 \/ \E i \in 1 .. Len(mForwardQueue) : mForwardQueue[i] = seq
    BY <1>1, <1>5
  <2>2. verdict' \in Verdicts /\ verdict'.new = new /\ verdict'.queued = FALSE
    BY <1>2, <1>5
  <2> HIDE DEF seq, Judged, Known
  <2> QED BY <1>1, <1>4, <1>5, <2>1, <2>2 DEF seq
<1>6. CASE /\ c >= 0
           /\ verdict' = Judged(TRUE)
           /\ mRemoteNext' = (mRemoteNext + len) % Mod
           /\ mForwardQueue' = insert(mForwardQueue, at, seq)
  <2>1. verdict' \in Verdicts /\ verdict'.new = new /\ verdict'.queued = TRUE
    BY <1>2, <1>6
  <2>2. mRemoteNext' \in U32
    BY <1>1, <1>6, Widths
  <2> HIDE DEF seq, Judged, Known
  <2>3. /\ mForwardQueue' \in Seq(U32)
        /\ Len(mForwardQueue') = Len(mForwardQueue) + 1
        /\ \A i \in 1 .. (Len(mForwardQueue) + 1) :
             mForwardQueue'[i] = IF i < at THEN mForwardQueue[i]
                                 ELSE IF i = at THEN seq ELSE mForwardQueue[i - 1]
    <3>1. \A i \in 1 .. (Len(mForwardQueue) + 1) :
            (IF i < at THEN mForwardQueue[i]
             ELSE IF i = at THEN seq ELSE mForwardQueue[i - 1]) \in U32
      BY <1>1
    <3> QED BY <1>1, <1>6, <3>1 DEF insert
  <2>4. \A i \in 1 .. Len(mForwardQueue') :
          \/ mForwardQueue'[i] = seq
          \/ \E j \in 1 .. Len(mForwardQueue) : mForwardQueue'[i] = mForwardQueue[j]
    <3> TAKE i \in 1 .. Len(mForwardQueue')
    <3>1. CASE i < at
      <4>1. i \in 1 .. Len(mForwardQueue) /\ mForwardQueue'[i] = mForwardQueue[i]
        BY <1>1, <2>3, <3>1
      <4> QED BY <4>1
    <3>2. CASE i = at
      BY <1>1, <2>3, <3>2
    <3>3. CASE i > at
      <4>1. i - 1 \in 1 .. Len(mForwardQueue) /\ mForwardQueue'[i] = mForwardQueue[i - 1]
        BY <1>1, <2>3, <3>3
      <4> QED BY <4>1
    <3> QED BY <1>1, <2>3, <3>1, <3>2, <3>3
  <2> QED BY <1>1, <1>4, <1>6, <2>1, <2>2, <2>3, <2>4 DEF seq
<1> HIDE DEF seq, Judged, Known
<1> QED BY <1>3, <1>5, <1>6

LEMMA WalkNext ==
  ASSUME Walk, NEW len \in 1 .. MaxLen, ReceiveNext(len)
  PROVE  Walk'
<1>1. /\ TypeOK /\ sent \in Nat /\ sent >= 1 /\ len \in Nat /\ len >= 1
      /\ sent' = sent + len /\ mRemoteNext \in 0 .. (Mod - 1)
      /\ Accept(sent, len, TRUE) /\ mRemoteSeqBase \in 0 .. (Mod - 1)
  <2>1. TypeOK /\ Accept(sent, len, TRUE) /\ sent' = sent + len /\ sent >= 1
    BY DEF Walk, ReceiveNext
  <2>2. len \in Nat /\ len >= 1
    BY WalkAssumption
  <2>3. mRemoteSeqBase \in U32 /\ mRemoteNext \in U32 /\ sent \in Nat
    BY <2>1, WalkAssumption DEF TypeOK
  <2> QED BY <2>1, <2>2, <2>3, Widths
<1>2. /\ mRemoteSeqBase' = mRemoteSeqBase /\ verdict' \in Verdicts /\ verdict'.new = TRUE
      /\ mRemoteNext' \in U32 /\ mForwardQueue' \in Seq(U32)
  BY <1>1, AcceptCases
<1>3. TypeOK' /\ sent' >= 1
  BY <1>1, <1>2 DEF TypeOK
<1>4. ASSUME InRange' PROVE Exact'
  <2>1. /\ InRange /\ mRemoteNext = sent /\ sent < MaxInt
        /\ sent + mRemoteSeqBase < Mod /\ sent + len <= MaxInt
        /\ \A i \in 1 .. Len(mForwardQueue) : mForwardQueue[i] < mRemoteNext
    BY <1>1, <1>2, <1>4, Widths DEF Walk, Exact, InRange
  <2>2. SeqOf(sent) = sent
    BY <1>1, <2>1, SeqOfBounds
  <2>3. \A c \in compare_u32(SeqOf(sent), mRemoteNext) : c = 0
    <3>1. sent <= MaxInt
      BY <1>1, <2>1, Widths
    <3>2. ASSUME NEW c \in compare_u32(sent, sent) PROVE c = 0
      BY <1>1, <3>1, <3>2, CompareSmall
    <3> QED BY <2>1, <2>2, <3>2
  <2>4. ~\E i \in 1 .. Len(mForwardQueue) : mForwardQueue[i] = SeqOf(sent)
    BY <1>1, <2>1, <2>2
  <2>5. /\ verdict'.queued = TRUE
        /\ mRemoteNext' = (mRemoteNext + len) % Mod
        /\ \A i \in 1 .. Len(mForwardQueue') :
             \/ mForwardQueue'[i] = SeqOf(sent)
             \/ \E j \in 1 .. Len(mForwardQueue) : mForwardQueue'[i] = mForwardQueue[j]
    <3>1. ~\E c \in compare_u32(SeqOf(sent), mRemoteNext) : c < 0
      BY <2>3
    <3> QED BY <1>1, <2>4, <3>1, AcceptCases
  <2>6. mRemoteNext' = sent + len
    <3>1. sent + len \in 0 .. (Mod - 1)
      BY <1>1, <2>1, Widths
    <3>2. (sent + len) % Mod = sent + len
      BY <3>1, Widths
    <3> QED BY <2>1, <2>5, <3>2
  <2>7. \A i \in 1 .. Len(mForwardQueue') : mForwardQueue'[i] < mRemoteNext'
    <3>1. mForwardQueue \in Seq(U32)
      BY <1>1 DEF TypeOK
    <3>2. \A j \in 1 .. Len(mForwardQueue) :
            mForwardQueue[j] \in Int /\ mForwardQueue[j] < mRemoteNext'
      BY <1>1, <2>1, <2>6, <3>1, Widths
    <3> QED BY <1>1, <2>2, <2>5, <2>6, <3>2
  <2> QED BY <1>1, <1>2, <2>5, <2>6, <2>7 DEF Exact
<1>5. AcksNothingUnsent'
  <2> SUFFICES ASSUME sent + len < MaxInt PROVE mRemoteNext' <= sent + len
    BY <1>1 DEF AcksNothingUnsent
  <2>1. mRemoteNext <= sent
    BY <1>1, Widths DEF Walk, AcksNothingUnsent
  <2>2. mRemoteNext' = mRemoteNext \/ mRemoteNext' = (mRemoteNext + len) % Mod
    BY <1>1, AcceptCases
  <2>3. (mRemoteNext + len) % Mod = mRemoteNext + len
    BY <1>1, <2>1, Widths
  <2> QED BY <1>1, <2>1, <2>2, <2>3
<1> QED BY <1>3, <1>4, <1>5 DEF Walk, Exact

LEMMA WalkAgain ==
  ASSUME Walk, NEW off \in 1 .. MaxStream, NEW len \in 1 .. MaxLen, ReceiveAgain(off, len)
  PROVE  Walk'
<1>1. /\ TypeOK /\ sent \in Nat /\ sent >= 1 /\ len \in Nat /\ len >= 1
      /\ off \in Nat /\ off >= 1 /\ off + len <= sent
      /\ sent' = sent /\ mRemoteNext \in 0 .. (Mod - 1)
      /\ Accept(off, len, FALSE) /\ mRemoteSeqBase \in 0 .. (Mod - 1)
  <2>1. /\ TypeOK /\ Accept(off, len, FALSE) /\ sent' = sent /\ sent >= 1
        /\ off + len <= sent
    BY DEF Walk, ReceiveAgain
  <2>2. len \in Nat /\ len >= 1 /\ off \in Nat /\ off >= 1
    BY WalkAssumption
  <2>3. mRemoteSeqBase \in U32 /\ mRemoteNext \in U32 /\ sent \in Nat
    BY <2>1, WalkAssumption DEF TypeOK
  <2> QED BY <2>1, <2>2, <2>3, Widths
<1>2. /\ mRemoteSeqBase' = mRemoteSeqBase /\ verdict' \in Verdicts /\ verdict'.new = FALSE
      /\ mRemoteNext' \in U32 /\ mForwardQueue' \in Seq(U32)
  BY <1>1, AcceptCases
<1>3. TypeOK' /\ sent' >= 1
  BY <1>1, <1>2 DEF TypeOK
<1>4. ASSUME InRange' PROVE Exact'
  <2>1. /\ InRange /\ mRemoteNext = sent /\ off < sent /\ sent <= MaxInt
        /\ off + mRemoteSeqBase < Mod
        /\ \A i \in 1 .. Len(mForwardQueue) : mForwardQueue[i] < mRemoteNext
    BY <1>1, <1>2, <1>4, Widths DEF Walk, Exact, InRange
  <2>2. SeqOf(off) = off
    BY <1>1, <2>1, SeqOfBounds
  <2>3. \A c \in compare_u32(SeqOf(off), mRemoteNext) : c = -1
    <3>1. off <= MaxInt
      BY <1>1, <2>1, Widths
    <3>2. ASSUME NEW c \in compare_u32(off, sent) PROVE c = -1
      BY <1>1, <2>1, <3>1, <3>2, CompareSmall
    <3> QED BY <2>1, <2>2, <3>2
  <2>4. verdict'.queued = FALSE /\ UNCHANGED <<mRemoteNext, mForwardQueue>>
    <3>1. ~\E c \in compare_u32(SeqOf(off), mRemoteNext) : c >= 0
      BY <2>3
    <3> QED BY <1>1, <3>1, AcceptCases
  <2> QED BY <1>1, <1>2, <2>1, <2>4 DEF Exact
<1>5. AcksNothingUnsent'
  <2> SUFFICES ASSUME sent < MaxInt PROVE mRemoteNext' <= sent
    BY <1>1 DEF AcksNothingUnsent
  <2>1. mRemoteNext <= sent
    BY DEF Walk, AcksNothingUnsent
  <2>2. SeqOf(off) \in Nat /\ SeqOf(off) <= off /\ SeqOf(off) < MaxInt
    BY <1>1, SeqOfBounds, Widths
  <2>3. CASE mRemoteNext' = mRemoteNext
    BY <2>1, <2>3
  <2>4. CASE /\ mRemoteNext' = (mRemoteNext + len) % Mod
             /\ \E c \in compare_u32(SeqOf(off), mRemoteNext) : c >= 0
    <3>1. mRemoteNext \in Nat /\ mRemoteNext < MaxInt
      BY <1>1, <2>1, Widths
    <3>2. SeqOf(off) >= mRemoteNext
      <4>1. PICK c \in compare_u32(SeqOf(off), mRemoteNext) : c >= 0
        BY <2>4
      <4>2. SeqOf(off) <= MaxInt /\ mRemoteNext <= MaxInt /\ SeqOf(off) \in Nat
        BY <2>2, <3>1, Widths
      <4>3. SeqOf(off) < mRemoteNext => c = -1
        BY <3>1, <4>1, <4>2, CompareSmall
      <4> QED BY <2>2, <3>1, <4>1, <4>3
    <3>3. (mRemoteNext + len) % Mod = mRemoteNext + len
      BY <1>1, <2>2, <3>1, <3>2, Widths
    <3> QED BY <1>1, <2>2, <2>4, <3>1, <3>2, <3>3
  <2> QED BY <1>1, <2>3, <2>4, AcceptCases
<1> QED BY <1>3, <1>4, <1>5 DEF Walk, Exact

LEMMA WalkForward ==
  ASSUME Walk, Forward
  PROVE  Walk'
<1>1. mForwardQueue \in Seq(U32) /\ mForwardQueue # <<>> /\ mForwardQueue' = Tail(mForwardQueue)
  BY DEF Walk, TypeOK, Forward
<1>2. /\ mForwardQueue' \in Seq(U32) /\ Len(mForwardQueue') = Len(mForwardQueue) - 1
      /\ Len(mForwardQueue) \in Nat
      /\ \A i \in 1 .. Len(mForwardQueue') : mForwardQueue'[i] = mForwardQueue[i + 1]
  BY <1>1
<1>3. UNCHANGED <<mRemoteSeqBase, mRemoteNext, sent, verdict>>
  BY DEF Forward
<1>4. TypeOK' /\ (sent >= 1)' /\ AcksNothingUnsent' /\ (InRange' <=> InRange)
  BY <1>2, <1>3 DEF Walk, TypeOK, AcksNothingUnsent, InRange
<1>5. Exact'
  <2>1. ASSUME InRange, NEW i \in 1 .. Len(mForwardQueue')
        PROVE  mForwardQueue'[i] < mRemoteNext'
    <3>1. i + 1 \in 1 .. Len(mForwardQueue)
      BY <1>2
    <3> QED BY <1>2, <1>3, <2>1, <3>1 DEF Walk, Exact
  <2> QED BY <1>3, <1>4, <2>1 DEF Walk, Exact
<1> QED BY <1>4, <1>5 DEF Walk

LEMMA WalkStep ==
  ASSUME Walk, [Next]_vars
  PROVE  Walk'
<1>1. CASE UNCHANGED vars
  BY <1>1 DEF vars, Walk, TypeOK, Exact, AcksNothingUnsent, InRange
<1> QED BY <1>1, WalkNext, WalkAgain, WalkForward DEF Next

(* enqueueIfNeed's verdict is right for every width, base, segmentation    *)
(* and repetition, as long as the numbers neither wrap nor reach 2^31.     *)
THEOREM VerdictsAreRight == Spec => []VerdictRight
<1>1. Walk => VerdictRight
  BY DEF Walk, Exact, VerdictRight
<1> QED BY <1>1, WalkInit, WalkStep, PTL DEF Spec

(* Short of 2^31 bytes the session never counts a byte that was not sent,  *)
(* from every base, across the wrap too: accept adds a segment's length    *)
(* only when the number read back, exact or one short, is not behind.      *)
THEOREM NothingUnsentAcked == Spec => []AcksNothingUnsent
<1>1. Walk => AcksNothingUnsent
  BY DEF Walk
<1> QED BY <1>1, WalkInit, WalkStep, PTL DEF Spec
=============================================================================
