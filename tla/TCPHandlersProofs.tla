------------------------- MODULE TCPHandlersProofs --------------------------
(* What the functions of TCPSession and Router preserve, for every number  *)
(* of cells and every size: the type of the memory, and the agreement on   *)
(* who owns a datagram.                                                    *)
EXTENDS TCPHandlers, TLAPS, FiniteSetTheorems, SequenceTheorems,
        WellFoundedInduction

-----------------------------------------------------------------------------
(* Queues                                                                  *)

(* LeadingRun counts indices of its range.                                 *)
LEMMA LeadingRunRange ==
  ASSUME NEW n \in Nat, NEW bad
  PROVE  LeadingRun(n, bad) \in 0 .. n
<1> DEFINE S == {i \in 1 .. n : \A j \in bad : i < j}
<1>1. IsFiniteSet(1 .. n) /\ Cardinality(1 .. n) = n
  BY FS_Interval
<1>2. S \subseteq 1 .. n
  OBVIOUS
<1>3. IsFiniteSet(S) /\ Cardinality(S) <= n
  BY <1>1, <1>2, FS_Subset
<1>4. Cardinality(S) \in Nat
  BY <1>3, FS_CardinalityType
<1> QED BY <1>3, <1>4 DEF LeadingRun

(* A set of numbers has a least one.                                       *)
LEMMA LeastOfNats ==
  ASSUME NEW S, S \subseteq Nat, S # {}
  PROVE  \E m \in S : \A x \in S : m <= x
<1> DEFINE R == OpToRel(<, Nat)
<1>1. IsWellFoundedOn(R, Nat)
  BY NatLessThanWellFounded
<1>2. \A x, y \in Nat : <<x, y>> \in R <=> x < y
  BY DEF OpToRel
<1> HIDE DEF R
<1>3. PICK m \in S : \A x \in S : ~(<<x, m>> \in R)
  BY <1>1, WFMin
<1>4. ASSUME NEW x \in S PROVE m <= x
  <2>1. m \in Nat /\ x \in Nat
    OBVIOUS
  <2>2. ~(x < m)
    BY <1>2, <1>3, <2>1
  <2> QED BY <2>1, <2>2
<1> QED BY <1>4

(* LeadingRun stops at the first index that is in bad.                     *)
LEMMA LeadingRunStops ==
  ASSUME NEW n \in Nat, NEW bad, bad \subseteq 1 .. n
  PROVE  /\ \A i \in 1 .. LeadingRun(n, bad) : i \notin bad
         /\ LeadingRun(n, bad) < n => LeadingRun(n, bad) + 1 \in bad
<1> DEFINE S == {i \in 1 .. n : \A j \in bad : i < j}
<1>1. CASE bad = {}
  <2>1. S = 1 .. n /\ Cardinality(1 .. n) = n
    BY <1>1, FS_Interval
  <2>2. LeadingRun(n, bad) = n
    BY <2>1, Zenon DEF LeadingRun
  <2> QED BY <1>1, <2>2
<1>2. CASE bad # {}
  <2>0. bad \subseteq Nat
    OBVIOUS
  <2>1. PICK m \in bad : \A x \in bad : m <= x
    BY <1>2, <2>0, LeastOfNats, Zenon
  <2>2. m \in 1 .. n /\ \A x \in bad : x \in Nat
    BY <2>1
  <2>3. S = 1 .. (m - 1)
    <3>1. ASSUME NEW i \in 1 .. n PROVE (\A j \in bad : i < j) <=> i <= m - 1
      BY <2>1, <2>2
    <3> QED BY <2>2, <3>1
  <2>4. Cardinality(1 .. (m - 1)) = m - 1
    BY <2>2, FS_Interval
  <2>5. LeadingRun(n, bad) = m - 1
    BY <2>3, <2>4 DEF LeadingRun
  <2>6. \A i \in 1 .. (m - 1) : i \notin bad
    BY <2>1, <2>2
  <2>7. m - 1 + 1 = m
    BY <2>2
  <2> QED BY <2>1, <2>5, <2>6, <2>7
<1> QED BY <1>1, <1>2

(* Append adds one cell.                                                   *)
LEMMA CellsAppend ==
  ASSUME NEW q \in Seq(Cells), NEW c \in Cells
  PROVE  /\ Append(q, c) \in Seq(Cells)
         /\ CellsOf(Append(q, c)) = CellsOf(q) \cup {c}
         /\ Injective(q) /\ c \notin CellsOf(q) => Injective(Append(q, c))
<1> DEFINE r == Append(q, c)
<1>1. /\ r \in Seq(Cells) /\ Len(r) = Len(q) + 1
      /\ \A i \in 1 .. Len(q) : r[i] = q[i]
      /\ r[Len(q) + 1] = c
  BY AppendProperties
<1>2. DOMAIN q = 1 .. Len(q) /\ DOMAIN r = 1 .. Len(q) + 1 /\ Len(q) \in Nat
  BY <1>1, LenProperties
<1> HIDE DEF r
<1>3. CellsOf(r) = CellsOf(q) \cup {c}
  BY <1>1, <1>2 DEF CellsOf
<1>4. ASSUME Injective(q), c \notin CellsOf(q)
      PROVE  Injective(r)
  BY <1>1, <1>2, <1>4 DEF CellsOf, Injective
<1> QED BY <1>1, <1>3, <1>4 DEF r

(* Tail removes the head.                                                  *)
LEMMA CellsTail ==
  ASSUME NEW q \in Seq(Cells), q # <<>>
  PROVE  /\ Tail(q) \in Seq(Cells)
         /\ Head(q) \in Cells /\ Head(q) \in CellsOf(q)
         /\ Injective(q) => /\ CellsOf(Tail(q)) = CellsOf(q) \ {Head(q)}
                            /\ Injective(Tail(q))
<1> DEFINE r == Tail(q)
<1>1. /\ r \in Seq(Cells) /\ Len(r) = Len(q) - 1
      /\ \A i \in 1 .. Len(r) : r[i] = q[i + 1]
      /\ Head(q) = q[1] /\ Head(q) \in Cells
  BY HeadTailProperties
<1>2. Len(q) \in Nat /\ Len(q) >= 1
  BY EmptySeq, LenProperties
<1>3. DOMAIN q = 1 .. Len(q) /\ DOMAIN r = 1 .. Len(q) - 1
  BY <1>1, LenProperties
<1> HIDE DEF r
<1>4. Head(q) \in CellsOf(q)
  BY <1>1, <1>2, <1>3 DEF CellsOf
<1>5. ASSUME Injective(q) PROVE Injective(r)
  BY <1>1, <1>2, <1>3, <1>5 DEF Injective
<1>6. ASSUME Injective(q) PROVE CellsOf(r) = CellsOf(q) \ {Head(q)}
  <2>1. ASSUME NEW c \in CellsOf(r) PROVE c \in CellsOf(q) \ {Head(q)}
    <3>1. PICK i \in 1 .. Len(q) - 1 : c = q[i + 1]
      BY <1>1, <1>2, <1>3, <2>1 DEF CellsOf
    <3>2. i + 1 \in DOMAIN q /\ i + 1 # 1 /\ 1 \in DOMAIN q
      BY <1>2, <1>3
    <3> QED BY <1>1, <1>6, <3>1, <3>2 DEF CellsOf, Injective
  <2>2. ASSUME NEW c \in CellsOf(q), c # Head(q) PROVE c \in CellsOf(r)
    <3>1. PICK i \in 1 .. Len(q) : c = q[i]
      BY <1>3 DEF CellsOf
    <3>2. i - 1 \in 1 .. Len(q) - 1 /\ (i - 1) + 1 = i
      BY <1>1, <1>2, <2>2, <3>1
    <3> QED BY <1>1, <1>2, <1>3, <3>1, <3>2 DEF CellsOf
  <2> QED BY <2>1, <2>2
<1> QED BY <1>1, <1>4, <1>5, <1>6 DEF r

(* Drop removes the first n cells.                                         *)
LEMMA CellsDrop ==
  ASSUME NEW q \in Seq(Cells), NEW n \in 0 .. Len(q)
  PROVE  /\ Drop(q, n) \in Seq(Cells)
         /\ CellsOf(SubSeq(q, 1, n)) \subseteq CellsOf(q)
         /\ Injective(q) => /\ CellsOf(Drop(q, n)) =
                                  CellsOf(q) \ CellsOf(SubSeq(q, 1, n))
                            /\ Injective(Drop(q, n))
<1> DEFINE r == Drop(q, n)
           s == SubSeq(q, 1, n)
<1>0. DOMAIN q = 1 .. Len(q) /\ Len(q) \in Nat
  BY LenProperties
<1>1. /\ r \in Seq(Cells) /\ Len(r) = Len(q) - n
      /\ \A i \in 1 .. Len(q) - n : r[i] = q[n + i]
  <2>1. /\ r \in Seq(Cells)
        /\ Len(r) = IF n + 1 <= Len(q) THEN Len(q) - (n + 1) + 1 ELSE 0
        /\ \A i \in 1 .. Len(q) - (n + 1) + 1 : r[i] = q[n + 1 + i - 1]
    BY <1>0, SubSeqProperties DEF Drop
  <2> HIDE DEF r
  <2>2. Len(r) = Len(q) - n
    <3>1. ASSUME NEW m \in Nat, n \in 0 .. m
          PROVE  (IF n + 1 <= m THEN m - (n + 1) + 1 ELSE 0) = m - n
      BY <3>1
    <3> QED BY <1>0, <2>1, <3>1
  <2>3. ASSUME NEW i \in 1 .. Len(q) - n PROVE r[i] = q[n + i]
    <3>1. i \in 1 .. Len(q) - (n + 1) + 1 /\ n + 1 + i - 1 = n + i
      BY <1>0
    <3> QED BY <2>1, <3>1
  <2> QED BY <2>1, <2>2, <2>3
<1>2. Len(s) = n /\ DOMAIN s = 1 .. n /\ \A i \in 1 .. n : s[i] = q[i]
  BY <1>0, SubSeqProperties, LenProperties
<1>3. DOMAIN r = 1 .. Len(q) - n
  BY <1>1, LenProperties
<1> HIDE DEF r, s
<1>4. CellsOf(s) \subseteq CellsOf(q)
  BY <1>0, <1>2 DEF CellsOf
<1>5. ASSUME Injective(q) PROVE Injective(r)
  <2>1. SUFFICES ASSUME NEW i \in 1 .. Len(q) - n, NEW j \in 1 .. Len(q) - n,
                        r[i] = r[j]
                 PROVE  i = j
    BY <1>3 DEF Injective
  <2>2. n + i \in DOMAIN q /\ n + j \in DOMAIN q
    BY <1>0
  <2>3. q[n + i] = q[n + j]
    BY <1>1, <2>1
  <2>4. n + i = n + j
    BY <1>5, <2>2, <2>3 DEF Injective
  <2> QED BY <2>4
<1>6. ASSUME Injective(q) PROVE CellsOf(r) = CellsOf(q) \ CellsOf(s)
  <2>1. ASSUME NEW c \in CellsOf(r) PROVE c \in CellsOf(q) \ CellsOf(s)
    <3>1. PICK i \in 1 .. Len(q) - n : c = q[n + i]
      BY <1>1, <1>3 DEF CellsOf
    <3>2. n + i \in DOMAIN q /\ \A j \in 1 .. n : j \in DOMAIN q /\ j # n + i
      BY <1>0
    <3> QED BY <1>2, <1>6, <3>1, <3>2 DEF CellsOf, Injective
  <2>2. ASSUME NEW c \in CellsOf(q), c \notin CellsOf(s) PROVE c \in CellsOf(r)
    <3>1. PICK i \in 1 .. Len(q) : c = q[i]
      BY <1>0 DEF CellsOf
    <3>2. i \notin 1 .. n
      BY <1>2, <2>2, <3>1 DEF CellsOf
    <3>3. i - n \in 1 .. Len(q) - n /\ n + (i - n) = i
      BY <1>0, <3>2
    <3> QED BY <1>1, <1>3, <3>1, <3>3 DEF CellsOf
  <2> QED BY <2>1, <2>2
<1> QED BY <1>1, <1>4, <1>5, <1>6 DEF r, s

-----------------------------------------------------------------------------
(* Who owns a datagram                                                     *)

(* The agreement between session and Router; hand is what the running      *)
(* function holds and has not queued yet.                                  *)
Agreed(v, hand) ==
  /\ \A c \in Held(v) \cup Queued(v) : v.heap[c].live
  /\ Injective(v.mBackQueue)
  /\ Injective(v.mData)
  /\ \A c \in Cells : v.heap[c].live => c \in Held(v) \cup Queued(v) \cup hand
  /\ \A c \in Cells : v.heap[c].live /\ c \notin Held(v) => v.heap[c].release
  /\ \A c \in Cells : v.heap[c].buffering <=> c \in Queued(v)
  /\ \A c \in Cells : v.heap[c].abort \/ v.heap[c].release => c \notin Held(v)
  /\ v.tunWrite => v.mData # <<>>

(* A memory a function may leave: well typed, and agreed on unless an      *)
(* allocation hit the bound.                                               *)
GoodWith(v, hand) == v \in MemoryType /\ (v.full \/ Agreed(v, hand))
Good(v) == GoodWith(v, {})

(* Fields other than the queues and the ownership flags do not matter.     *)
LEMMA Frame ==
  ASSUME NEW v, NEW w, NEW hand, GoodWith(v, hand),
         w \in MemoryType,
         w.mBackQueue = v.mBackQueue, w.mData = v.mData,
         w.tunWrite = v.tunWrite, w.full = v.full,
         \A c \in Cells : /\ w.heap[c].live = v.heap[c].live
                          /\ w.heap[c].buffering = v.heap[c].buffering
                          /\ w.heap[c].abort = v.heap[c].abort
                          /\ w.heap[c].release = v.heap[c].release
  PROVE  GoodWith(w, hand)
<1>1. Held(w) = Held(v) /\ Queued(w) = Queued(v)
  BY DEF Held, Queued
<1>2. Held(v) \subseteq Cells /\ Queued(v) \subseteq Cells
  <2>1. v.mBackQueue \in Seq(Cells) /\ v.mData \in Seq(Cells)
    BY DEF GoodWith, MemoryType
  <2> QED BY <2>1, ElementOfSeq, LenProperties DEF Held, Queued, CellsOf
<1>3. CASE v.full
  BY <1>3 DEF GoodWith
<1>4. CASE Agreed(v, hand)
  BY <1>1, <1>2, <1>4 DEF GoodWith, Agreed
<1> QED BY <1>3, <1>4 DEF GoodWith

(* Fields of the memory that the proofs below go through.                  *)
LEMMA Fields ==
  ASSUME NEW v \in MemoryType
  PROVE  /\ v.heap \in [Cells -> DatagramType]
         /\ v.mBackQueue \in Seq(Cells) /\ Held(v) \subseteq Cells
         /\ v.mData \in Seq(Cells) /\ Queued(v) \subseteq Cells
         /\ v.mForwardQueue \in Seq(ForwardType)
         /\ v.mLocalSeq \in Nat /\ v.mLocalNext \in Nat /\ v.mRemoteNext \in Nat
         /\ v.mState \in States
         /\ v.full \in BOOLEAN
<1>1. v.mBackQueue \in Seq(Cells) /\ v.mData \in Seq(Cells)
  BY DEF MemoryType
<1>2. Held(v) \subseteq Cells /\ Queued(v) \subseteq Cells
  BY <1>1, ElementOfSeq, LenProperties DEF Held, Queued, CellsOf
<1> QED BY <1>1, <1>2 DEF MemoryType

LEMMA FreshCellFree ==
  ASSUME NEW v
  PROVE  /\ FreshCell(v) \in Cells
         /\ HasFree(v) => ~v.heap[FreshCell(v)].live
<1>1. \E c \in Cells : HasFree(v) => ~v.heap[c].live
  BY MemoryAssumption DEF HasFree
<1> QED BY <1>1 DEF FreshCell

(* A datagram built for the session, and one with any of its flags set.    *)
LEMMA BuildPackageType ==
  ASSUME NEW v \in MemoryType, NEW flag \in Flags, NEW off \in Nat, NEW len \in Nat
  PROVE  /\ BuildPackage(v, flag, off, len) \in DatagramType
         /\ BuildPackage(v, flag, off, len).live
         /\ ~BuildPackage(v, flag, off, len).buffering
         /\ ~BuildPackage(v, flag, off, len).abort
         /\ ~BuildPackage(v, flag, off, len).release
<1>1. v.mLocalSeq \in Nat /\ v.mRemoteNext \in Nat
  BY Fields
<1> QED BY <1>1 DEF BuildPackage, DatagramType, Free

LEMMA FreeType ==
  Free \in DatagramType /\ ~Free.live /\ ~Free.buffering /\ ~Free.abort /\ ~Free.release
BY DEF DatagramType, Free, Flags

(* Allocate puts d in a cell nobody points to.                             *)
LEMMA AllocateEffect ==
  ASSUME NEW v \in MemoryType, NEW d \in DatagramType
  PROVE  LET w == Allocate(v, d)
             c == FreshCell(v)
         IN  /\ w \in MemoryType
             /\ c \in Cells
             /\ w.heap = [v.heap EXCEPT ![c] = d]
             /\ w.full = (v.full \/ ~HasFree(v))
             /\ w.mBackQueue = v.mBackQueue /\ w.mData = v.mData
             /\ w.tunWrite = v.tunWrite
             /\ w.mLocalSeq = v.mLocalSeq
<1> DEFINE c == FreshCell(v)
           h == [v.heap EXCEPT ![c] = d]
           f == v.full \/ ~HasFree(v)
<1>1. c \in Cells
  BY FreshCellFree
<1>2. h \in [Cells -> DatagramType] /\ f \in BOOLEAN
  BY <1>1, Fields
<1>3. Allocate(v, d) = [v EXCEPT !.heap = h, !.full = f]
  BY DEF Allocate
<1> HIDE DEF h, f, c
<1>4. [v EXCEPT !.heap = h, !.full = f] \in MemoryType
  BY <1>2 DEF MemoryType
<1>5. LET w == [v EXCEPT !.heap = h, !.full = f]
      IN  /\ w.heap = h /\ w.full = f
          /\ w.mBackQueue = v.mBackQueue /\ w.mData = v.mData
          /\ w.tunWrite = v.tunWrite /\ w.mLocalSeq = v.mLocalSeq
  BY DEF MemoryType
<1> QED BY <1>1, <1>3, <1>4, <1>5 DEF h, f, c

(* onSyncEvent queues a datagram the session points to, or one that is     *)
(* given to the Router for good.                                           *)
LEMMA RouterQueueGood ==
  ASSUME NEW v, NEW c \in Cells, GoodWith(v, {c}),
         v.full \/ /\ v.heap[c].live
                   /\ \/ c \in Held(v)
                      \/ c \notin Queued(v) /\ ~v.heap[c].abort
  PROVE  Good(RouterQueue(v, c)) /\ RouterQueue(v, c).mBackQueue = v.mBackQueue
<1>0. v \in MemoryType
  BY DEF GoodWith
<1>1. v.heap \in [Cells -> DatagramType] /\ v.heap[c] \in DatagramType
  BY <1>0, Fields
<1>2. CASE v.heap[c].buffering \/ v.heap[c].abort
  <2>1. RouterQueue(v, c) = v
    BY <1>2 DEF RouterQueue
  <2>2. CASE v.full
    BY <1>0, <2>1, <2>2 DEF Good, GoodWith
  <2>3. CASE ~v.full
    <3>1. Agreed(v, {c}) /\ c \in Held(v) \cup Queued(v)
      BY <1>2, <2>3 DEF GoodWith, Agreed
    <3>2. Agreed(v, {})
      BY <3>1 DEF Agreed
    <3> QED BY <1>0, <2>1, <3>2 DEF Good, GoodWith
  <2> QED BY <2>2, <2>3
<1>3. CASE ~(v.heap[c].buffering \/ v.heap[c].abort)
  <2> DEFINE h == [v.heap EXCEPT ![c].buffering = TRUE]
             q == Append(v.mData, c)
             w == [v EXCEPT !.heap = h, !.mData = q, !.tunWrite = TRUE]
  <2>1. RouterQueue(v, c) = w
    BY <1>3 DEF RouterQueue
  <2>2. h \in [Cells -> DatagramType]
    <3>1. [v.heap[c] EXCEPT !.buffering = TRUE] \in DatagramType
      BY <1>1 DEF DatagramType
    <3> QED BY <1>1, <3>1
  <2>3. /\ q \in Seq(Cells) /\ q # <<>>
        /\ CellsOf(q) = Queued(v) \cup {c}
        /\ Injective(v.mData) /\ c \notin Queued(v) => Injective(q)
    <3>1. v.mData \in Seq(Cells)
      BY <1>0, Fields
    <3>2. q # <<>>
      BY <3>1, AppendProperties
    <3> QED BY <3>1, <3>2, CellsAppend DEF Queued
  <2>4. /\ h[c].buffering
        /\ h[c].live = v.heap[c].live
        /\ h[c].abort = v.heap[c].abort
        /\ h[c].release = v.heap[c].release
        /\ \A b \in Cells : b # c => h[b] = v.heap[b]
    BY <1>1 DEF DatagramType
  <2> HIDE DEF h, q
  <2>5. /\ w \in MemoryType /\ w.heap = h /\ w.mData = q /\ w.tunWrite = TRUE
        /\ w.mBackQueue = v.mBackQueue /\ w.full = v.full
    BY <1>0, <2>2, <2>3 DEF MemoryType
  <2> HIDE DEF w
  <2>6. ASSUME ~v.full PROVE Agreed(w, {})
    <3>1. Agreed(v, {c}) /\ v.heap[c].live
      BY <2>6 DEF GoodWith
    <3>2. c \notin Queued(v) /\ (c \notin Held(v) => v.heap[c].release)
      BY <1>3, <3>1 DEF Agreed
    <3>3. Held(w) = Held(v) /\ Queued(w) = Queued(v) \cup {c}
      BY <2>3, <2>5 DEF Held, Queued
    <3>4. Held(v) \subseteq Cells /\ Queued(v) \subseteq Cells
      BY <1>0, Fields
    <3> QED BY <2>3, <2>4, <2>5, <3>1, <3>2, <3>3, <3>4 DEF Agreed
  <2> QED BY <2>1, <2>5, <2>6 DEF Good, GoodWith
<1> QED BY <1>2, <1>3

(* onWritable takes the front datagram off the Router's queue.             *)
LEMMA RouterUnqueueGood ==
  ASSUME NEW v \in MemoryType, ~v.full, Agreed(v, {}), v.mData # <<>>,
         NEW w, w = [RouterUnqueue(v) EXCEPT
                       !.tunWrite = RouterUnqueue(v).mData # <<>>]
  PROVE  w \in MemoryType /\ w.full = v.full /\ Agreed(w, {})
<1> DEFINE c == Head(v.mData)
           d == IF v.heap[c].release THEN Free
                ELSE [v.heap[c] EXCEPT !.buffering = FALSE]
           h == [v.heap EXCEPT ![c] = d]
           q == Tail(v.mData)
           u == [v EXCEPT !.mData = q, !.heap = h]
<1>1. /\ c \in Cells /\ c \in Queued(v) /\ q \in Seq(Cells)
      /\ CellsOf(q) = Queued(v) \ {c} /\ Injective(q)
  <2>1. v.mData \in Seq(Cells) /\ Injective(v.mData)
    BY Fields DEF Agreed
  <2> QED BY <2>1, CellsTail DEF Queued
<1>2. v.heap \in [Cells -> DatagramType] /\ v.heap[c] \in DatagramType
  BY <1>1, Fields
<1>3. /\ d \in DatagramType
      /\ v.heap[c].release => d = Free
      /\ ~v.heap[c].release => /\ ~d.buffering /\ ~d.release
                               /\ d.live = v.heap[c].live
                               /\ d.abort = v.heap[c].abort
  BY <1>2, FreeType DEF DatagramType
<1>4. RouterUnqueue(v) = u
  BY DEF RouterUnqueue
<1> HIDE DEF d, c, q
<1>5. h \in [Cells -> DatagramType] /\ h[c] = d /\ \A b \in Cells : b # c => h[b] = v.heap[b]
  BY <1>1, <1>2, <1>3
<1> HIDE DEF h
<1>6. /\ u \in MemoryType /\ u.mData = q /\ u.heap = h
      /\ u.mBackQueue = v.mBackQueue /\ u.full = v.full
  BY <1>1, <1>5 DEF MemoryType
<1> HIDE DEF u
<1>7. /\ w \in MemoryType /\ w.mData = q /\ w.heap = h
      /\ w.mBackQueue = v.mBackQueue /\ w.full = v.full
      /\ w.tunWrite => q # <<>>
  BY <1>4, <1>6 DEF MemoryType
<1>8. Held(w) = Held(v) /\ Queued(w) = Queued(v) \ {c}
  BY <1>1, <1>7 DEF Held, Queued
<1>9. Held(v) \subseteq Cells /\ Queued(v) \subseteq Cells
  BY Fields
<1>10. v.heap[c].release => c \notin Held(v)
  BY <1>1 DEF Agreed
<1> QED BY <1>1, <1>3, <1>5, <1>7, <1>8, <1>9, <1>10, FreeType DEF Agreed

-----------------------------------------------------------------------------
(* The functions                                                           *)

(* A datagram the session gives up is deleted or left to the Router.       *)
LEMMA SafeReleaseGood ==
  ASSUME NEW v, Good(v), NEW gone, NEW w, w \in MemoryType,
         gone \subseteq Held(v),
         w.heap = SafeRelease(v.heap, gone),
         w.mData = v.mData, w.tunWrite = v.tunWrite, w.full = v.full,
         Injective(v.mBackQueue) => /\ Held(w) = Held(v) \ gone
                                    /\ Injective(w.mBackQueue)
  PROVE  Good(w)
<1>0. v \in MemoryType
  BY DEF Good, GoodWith
<1>1. /\ v.heap \in [Cells -> DatagramType]
      /\ Held(v) \subseteq Cells /\ Queued(v) \subseteq Cells
  BY <1>0, Fields
<1>2. CASE v.full
  BY <1>2 DEF Good, GoodWith
<1>3. CASE Agreed(v, {})
  <2>1. Queued(w) = Queued(v)
    BY DEF Queued
  <2>2. \A c \in Cells :
          /\ c \notin gone => w.heap[c] = v.heap[c]
          /\ c \in gone /\ ~v.heap[c].buffering => w.heap[c] = Free
          /\ c \in gone /\ v.heap[c].buffering =>
               /\ w.heap[c].live = v.heap[c].live
               /\ w.heap[c].buffering /\ w.heap[c].abort /\ w.heap[c].release
    <3>1. SUFFICES ASSUME NEW c \in Cells PROVE
            /\ c \notin gone => w.heap[c] = v.heap[c]
            /\ c \in gone /\ ~v.heap[c].buffering => w.heap[c] = Free
            /\ c \in gone /\ v.heap[c].buffering =>
                 /\ w.heap[c].live = v.heap[c].live
                 /\ w.heap[c].buffering /\ w.heap[c].abort /\ w.heap[c].release
      OBVIOUS
    <3>2. w.heap[c] = IF c \notin gone THEN v.heap[c]
                      ELSE IF v.heap[c].buffering
                           THEN [v.heap[c] EXCEPT !.abort = TRUE, !.release = TRUE]
                           ELSE Free
      BY DEF SafeRelease
    <3>3. v.heap[c] \in DatagramType
      BY <1>1
    <3>4. ASSUME NEW d \in DatagramType, NEW e,
                 e = [d EXCEPT !.abort = TRUE, !.release = TRUE]
          PROVE  e.live = d.live /\ e.buffering = d.buffering /\ e.abort /\ e.release
      BY <3>4 DEF DatagramType
    <3> QED BY <3>2, <3>3, <3>4
  <2> QED BY <1>1, <1>3, <2>1, <2>2, FreeType DEF Good, GoodWith, Agreed
<1> QED BY <1>2, <1>3 DEF Good, GoodWith

LEMMA SafeReleaseType ==
  ASSUME NEW heap \in [Cells -> DatagramType], NEW gone
  PROVE  SafeRelease(heap, gone) \in [Cells -> DatagramType]
<1>1. ASSUME NEW d \in DatagramType
      PROVE  [d EXCEPT !.abort = TRUE, !.release = TRUE] \in DatagramType
  BY DEF DatagramType
<1> QED BY <1>1, FreeType DEF SafeRelease

LEMMA popAckedGood ==
  ASSUME NEW v, Good(v)
  PROVE  Good(popAcked(v)) /\ popAcked(v).mState = v.mState
<1> DEFINE q == v.mBackQueue
           kept == {i \in DOMAIN q : ~Finished(v, v.heap[q[i]])}
           n == LeadingRun(Len(q), kept)
           gone == CellsOf(SubSeq(q, 1, n))
           r == Drop(q, n)
           h == SafeRelease(v.heap, gone)
           w == [v EXCEPT !.mBackQueue = r, !.heap = h]
<1>0. v \in MemoryType
  BY DEF Good, GoodWith
<1>1. q \in Seq(Cells) /\ v.heap \in [Cells -> DatagramType] /\ Len(q) \in Nat
  BY <1>0, Fields, LenProperties
<1>2. n \in 0 .. Len(q)
  BY <1>1, LeadingRunRange
<1>3. popAcked(v) = w
  BY DEF popAcked
<1>4. h \in [Cells -> DatagramType]
  BY <1>1, SafeReleaseType
<1> HIDE DEF n
<1>5. /\ r \in Seq(Cells) /\ gone \subseteq Held(v)
      /\ Injective(q) => CellsOf(r) = Held(v) \ gone /\ Injective(r)
  BY <1>1, <1>2, CellsDrop DEF Held
<1> HIDE DEF gone, r, h
<1>6. /\ w \in MemoryType /\ w.mBackQueue = r /\ w.heap = h /\ w.mData = v.mData
      /\ w.tunWrite = v.tunWrite /\ w.full = v.full /\ w.mState = v.mState
  BY <1>0, <1>4, <1>5 DEF MemoryType
<1> HIDE DEF w
<1>7. Injective(v.mBackQueue) => Held(w) = Held(v) \ gone /\ Injective(w.mBackQueue)
  BY <1>5, <1>6 DEF Held
<1>8. w.heap = SafeRelease(v.heap, gone)
  BY <1>6 DEF h
<1> QED BY <1>3, <1>5, <1>6, <1>7, <1>8, SafeReleaseGood

(* pushInBackQueue's new datagram is held by the session.                  *)
LEMMA enqueueBackGood ==
  ASSUME NEW v, Good(v), NEW flag \in Flags, NEW off \in Nat, NEW len \in Nat
  PROVE  Good(enqueueBack(v, flag, off, len))
<1> DEFINE d == BuildPackage(v, flag, off, len)
           u == Allocate(v, d)
           c == FreshCell(v)
           q == Append(v.mBackQueue, c)
           m == v.mLocalSeq + (IF flag \in {"SYN", "FIN"} THEN 1 ELSE len)
           w == [u EXCEPT !.mBackQueue = q, !.mLocalSeq = m]
<1>0. v \in MemoryType
  BY DEF Good, GoodWith
<1>1. d \in DatagramType /\ d.live /\ ~d.buffering /\ ~d.abort /\ ~d.release
  BY <1>0, BuildPackageType
<1>2. /\ v.mBackQueue \in Seq(Cells) /\ v.mLocalSeq \in Nat
      /\ v.heap \in [Cells -> DatagramType]
      /\ Held(v) \subseteq Cells /\ Queued(v) \subseteq Cells
  BY <1>0, Fields
<1> HIDE DEF d
<1>3. /\ u \in MemoryType /\ c \in Cells
      /\ u.heap = [v.heap EXCEPT ![c] = d]
      /\ u.full = (v.full \/ ~HasFree(v))
      /\ u.mBackQueue = v.mBackQueue /\ u.mData = v.mData
      /\ u.tunWrite = v.tunWrite /\ u.mLocalSeq = v.mLocalSeq
  BY <1>0, <1>1, AllocateEffect
<1>4. enqueueBack(v, flag, off, len) = w
  BY <1>3 DEF enqueueBack, d
<1>5. HasFree(v) => ~v.heap[c].live
  BY FreshCellFree
<1> HIDE DEF u, c
<1>6. /\ q \in Seq(Cells) /\ CellsOf(q) = Held(v) \cup {c}
      /\ Injective(v.mBackQueue) /\ c \notin Held(v) => Injective(q)
  BY <1>2, <1>3, CellsAppend DEF Held
<1>7. m \in Nat
  BY <1>2
<1> HIDE DEF q, m
<1>8. /\ w \in MemoryType /\ w.mBackQueue = q /\ w.heap = u.heap
      /\ w.mData = u.mData /\ w.tunWrite = u.tunWrite /\ w.full = u.full
  BY <1>3, <1>6, <1>7 DEF MemoryType
<1> HIDE DEF w
<1>9. CASE v.full \/ ~HasFree(v)
  BY <1>3, <1>4, <1>8, <1>9 DEF Good, GoodWith
<1>10. CASE ~v.full /\ HasFree(v)
  <2>1. Agreed(v, {})
    BY <1>10 DEF Good, GoodWith
  <2>2. c \notin Held(v) /\ c \notin Queued(v)
    BY <1>5, <1>10, <2>1 DEF Agreed
  <2>3. Held(w) = Held(v) \cup {c} /\ Queued(w) = Queued(v)
    BY <1>3, <1>6, <1>8 DEF Held, Queued
  <2>4. w.heap[c] = d /\ \A b \in Cells : b # c => w.heap[b] = v.heap[b]
    BY <1>2, <1>3, <1>8
  <2>5. Injective(w.mBackQueue) /\ w.mData = v.mData /\ w.tunWrite = v.tunWrite
    BY <1>3, <1>6, <1>8, <2>1, <2>2 DEF Agreed
  <2>6. Agreed(w, {})
    BY <1>1, <1>2, <1>3, <2>1, <2>2, <2>3, <2>4, <2>5 DEF Agreed
  <2> QED BY <1>4, <1>8, <2>6 DEF Good, GoodWith
<1> QED BY <1>9, <1>10

(* The fields the agreement is about are the same.                         *)
SameQueues(v, w) ==
  /\ w.mBackQueue = v.mBackQueue /\ w.mData = v.mData /\ w.heap = v.heap
  /\ w.tunWrite = v.tunWrite /\ w.full = v.full

LEMMA SameQueuesGood ==
  ASSUME NEW v, Good(v), NEW w \in MemoryType, SameQueues(v, w)
  PROVE  Good(w)
BY Frame DEF Good, SameQueues

LEMMA destroyTunnelGood ==
  ASSUME NEW v, Good(v)
  PROVE  Good(destroyTunnel(v)) /\ destroyTunnel(v).mState = v.mState
<1> DEFINE w == destroyTunnel(v)
<1>1. w \in MemoryType /\ SameQueues(v, w) /\ w.mState = v.mState
  BY DEF Good, GoodWith, MemoryType, destroyTunnel, SameQueues
<1> HIDE DEF w
<1>2. Good(w)
  BY <1>1, SameQueuesGood
<1> QED BY <1>1, <1>2 DEF w

LEMMA switchStateGood ==
  ASSUME NEW v, Good(v), NEW s \in States
  PROVE  Good(switchState(v, s))
<1> DEFINE w == [v EXCEPT !.mState = s]
           x == [w EXCEPT !.mAlive = FALSE]
<1>1. w \in MemoryType /\ SameQueues(v, w)
  BY DEF Good, GoodWith, MemoryType, SameQueues
<1>2. switchState(v, s) = IF v.mState = s THEN v
                          ELSE IF s = "CLOSED" THEN destroyTunnel(x) ELSE w
  BY DEF switchState, close
<1> HIDE DEF w
<1>3. x \in MemoryType /\ SameQueues(w, x)
  BY <1>1 DEF MemoryType, SameQueues
<1> HIDE DEF x
<1>4. Good(w)
  BY <1>1, SameQueuesGood
<1>5. Good(x)
  BY <1>3, <1>4, SameQueuesGood
<1> QED BY <1>2, <1>4, <1>5, destroyTunnelGood

(* Setting mRetry leaves the owners alone.                                 *)
LEMMA sendBackSegmentGood ==
  ASSUME NEW v, NEW c \in Cells, GoodWith(v, {c}),
         v.full \/ /\ v.heap[c].live
                   /\ \/ c \in Held(v)
                      \/ c \notin Queued(v) /\ ~v.heap[c].abort
  PROVE  Good(sendBackSegment(v, c))
<1> DEFINE h == [v.heap EXCEPT ![c].sent = TRUE]
           w == [v EXCEPT !.heap = h]
<1>0. v \in MemoryType
  BY DEF GoodWith
<1>1. v.heap \in [Cells -> DatagramType] /\ v.heap[c] \in DatagramType
  BY <1>0, Fields
<1>2. h \in [Cells -> DatagramType]
  <2>1. [v.heap[c] EXCEPT !.sent = TRUE] \in DatagramType
    BY <1>1 DEF DatagramType
  <2> QED BY <1>1, <2>1
<1>3. \A b \in Cells : /\ h[b].live = v.heap[b].live
                       /\ h[b].buffering = v.heap[b].buffering
                       /\ h[b].abort = v.heap[b].abort
                       /\ h[b].release = v.heap[b].release
  BY <1>1 DEF DatagramType
<1>4. sendBackSegment(v, c) = RouterQueue(w, c)
  BY DEF sendBackSegment
<1> HIDE DEF h
<1>5. /\ w \in MemoryType /\ w.mBackQueue = v.mBackQueue /\ w.mData = v.mData
      /\ w.tunWrite = v.tunWrite /\ w.full = v.full /\ w.heap = h
  BY <1>0, <1>2 DEF MemoryType
<1> HIDE DEF w
<1>6. GoodWith(w, {c})
  BY <1>3, <1>5, Frame
<1>7. Held(w) = Held(v) /\ Queued(w) = Queued(v)
  BY <1>5 DEF Held, Queued
<1> QED BY <1>3, <1>4, <1>5, <1>6, <1>7, RouterQueueGood

LEMMA resetConnectionGood ==
  ASSUME NEW v, Good(v)
  PROVE  Good(resetConnection(v))
<1> DEFINE w == [v EXCEPT !.mLocalSeq = v.mLocalNext]
           c == FreshCell(w)
           b == BuildPackage(w, "RST", 0, 0)
           r == [b EXCEPT !.release = TRUE]
           x == Allocate(w, r)
           y == sendBackSegment(x, c)
<1>0. v \in MemoryType /\ v.mLocalNext \in Nat
  BY Fields DEF Good, GoodWith
<1>1. /\ w \in MemoryType /\ w.mBackQueue = v.mBackQueue /\ w.mData = v.mData
      /\ w.tunWrite = v.tunWrite /\ w.full = v.full /\ w.heap = v.heap
  BY <1>0 DEF MemoryType
<1>2. resetConnection(v) = switchState(y, "CLOSED")
  BY DEF resetConnection
<1> HIDE DEF w
<1>3. Good(w)
  BY <1>1, Frame DEF Good
<1>4. b \in DatagramType /\ b.live /\ ~b.buffering /\ ~b.abort
  <2>1. "RST" \in Flags
    BY DEF Flags
  <2> QED BY <1>1, <2>1, BuildPackageType
<1> HIDE DEF b
<1>5. r \in DatagramType /\ r.live /\ ~r.buffering /\ ~r.abort /\ r.release
  BY <1>4 DEF DatagramType
<1> HIDE DEF r
<1>6. /\ x \in MemoryType /\ c \in Cells
      /\ x.heap = [w.heap EXCEPT ![c] = r]
      /\ x.full = (w.full \/ ~HasFree(w))
      /\ x.mBackQueue = w.mBackQueue /\ x.mData = w.mData
      /\ x.tunWrite = w.tunWrite
  BY <1>1, <1>5, AllocateEffect
<1>7. HasFree(w) => ~w.heap[c].live
  BY FreshCellFree
<1> HIDE DEF x, c
<1>8. Held(x) = Held(w) /\ Queued(x) = Queued(w)
  BY <1>6 DEF Held, Queued
<1>9. /\ w.heap \in [Cells -> DatagramType]
      /\ Held(w) \subseteq Cells /\ Queued(w) \subseteq Cells
  BY <1>1, Fields
<1>10. ASSUME ~x.full
       PROVE  /\ Agreed(x, {c})
              /\ x.heap[c].live /\ c \notin Queued(x) /\ ~x.heap[c].abort
  <2>1. Agreed(w, {}) /\ ~w.heap[c].live
    BY <1>3, <1>6, <1>7, <1>10 DEF Good, GoodWith
  <2>2. c \notin Held(w) /\ c \notin Queued(w)
    BY <2>1 DEF Agreed
  <2>3. x.heap[c] = r /\ \A e \in Cells : e # c => x.heap[e] = w.heap[e]
    BY <1>6, <1>9
  <2>4. Agreed(x, {c})
    BY <1>5, <1>6, <1>8, <1>9, <2>1, <2>2, <2>3 DEF Agreed
  <2> QED BY <1>5, <1>8, <2>2, <2>3, <2>4
<1>11. GoodWith(x, {c})
  BY <1>6, <1>10 DEF GoodWith
<1>12. Good(y)
  BY <1>6, <1>10, <1>11, sendBackSegmentGood
<1> HIDE DEF y
<1>13. "CLOSED" \in States
  BY DEF States
<1> QED BY <1>2, <1>12, <1>13, switchStateGood

(* Events of the tunnel's socket.                                          *)
LEMMA TunnelEventsGood ==
  ASSUME NEW v, Good(v)
  PROVE  /\ Good(requestSendData(v)) /\ Good(pauseSendData(v))
         /\ Good(pauseReceiveData(v)) /\ Good(resumeReceiveData(v))
<1>0. v \in MemoryType
  BY DEF Good, GoodWith
<1>1. requestSendData(v) \in MemoryType /\ SameQueues(v, requestSendData(v))
  BY <1>0 DEF requestSendData, MemoryType, SameQueues
<1>2. pauseSendData(v) \in MemoryType /\ SameQueues(v, pauseSendData(v))
  BY <1>0 DEF pauseSendData, MemoryType, SameQueues
<1>3. pauseReceiveData(v) \in MemoryType /\ SameQueues(v, pauseReceiveData(v))
  BY <1>0 DEF pauseReceiveData, MemoryType, SameQueues
<1>4. resumeReceiveData(v) \in MemoryType /\ SameQueues(v, resumeReceiveData(v))
  BY <1>0 DEF resumeReceiveData, MemoryType, SameQueues
<1> QED BY <1>1, <1>2, <1>3, <1>4, SameQueuesGood

LEMMA resumeIfRoomGood ==
  ASSUME NEW v, Good(v)
  PROVE  Good(resumeIfRoom(v))
BY TunnelEventsGood DEF resumeIfRoom

LEMMA sendBackGood ==
  ASSUME NEW v, Good(v)
  PROVE  Good(sendBack(v))
<1> DEFINE c == Head(v.mBackQueue)
<1>0. v \in MemoryType
  BY DEF Good, GoodWith
<1>1. CASE v.mBackQueue = <<>>
  BY <1>1, resumeIfRoomGood DEF sendBack
<1>2. CASE v.mBackQueue # <<>>
  <2>1. c \in Cells /\ c \in Held(v)
    <3>1. v.mBackQueue \in Seq(Cells)
      BY <1>0, Fields
    <3> QED BY <1>2, <3>1, CellsTail DEF Held
  <2>2. sendBack(v) \in {resetConnection(v), resumeIfRoom(v),
                         resumeIfRoom(sendBackSegment(v, c))}
    BY <1>2 DEF sendBack
  <2> HIDE DEF c
  <2>3. GoodWith(v, {c}) /\ (v.full \/ v.heap[c].live)
    BY <2>1 DEF Good, GoodWith, Agreed
  <2>4. Good(sendBackSegment(v, c))
    BY <2>1, <2>3, sendBackSegmentGood
  <2> QED BY <2>2, <2>4, resumeIfRoomGood, resetConnectionGood
<1> QED BY <1>1, <1>2

LEMMA pushFinGood ==
  ASSUME NEW v, Good(v)
  PROVE  Good(pushFin(v))
<1> DEFINE w == sendBack(popAcked(enqueueBack(v, "FIN", 0, 0)))
           s == IF w.mState = "ESTABLISHED" THEN "FIN_WAIT1" ELSE "LAST_ACK"
<1>1. Good(enqueueBack(v, "FIN", 0, 0))
  <2>1. "FIN" \in Flags
    BY DEF Flags
  <2> QED BY <2>1, enqueueBackGood
<1>2. Good(w)
  BY <1>1, popAckedGood, sendBackGood
<1>3. pushFin(v) = switchState(w, s)
  BY DEF pushFin
<1>4. s \in States
  BY DEF States
<1> HIDE DEF w, s
<1> QED BY <1>2, <1>3, <1>4, switchStateGood

LEMMA flushBackQueueGood ==
  ASSUME NEW v, Good(v)
  PROVE  Good(flushBackQueue(v))
<1>1. Good(popAcked(v))
  BY popAckedGood
<1>2. flushBackQueue(v) \in {sendBack(popAcked(v)), pushFin(popAcked(v)), popAcked(v)}
  BY DEF flushBackQueue
<1> QED BY <1>1, <1>2, sendBackGood, pushFinGood

LEMMA pushInBackQueueGood ==
  ASSUME NEW v, Good(v), NEW flag \in Flags, NEW off \in Nat, NEW len \in Nat
  PROVE  Good(pushInBackQueue(v, flag, off, len))
<1>1. Good(flushBackQueue(enqueueBack(v, flag, off, len)))
  BY enqueueBackGood, flushBackQueueGood
<1> QED BY <1>1 DEF pushInBackQueue

-----------------------------------------------------------------------------
(* The handlers                                                            *)

LEMMA onReceiveSYNGood ==
  ASSUME NEW v, Good(v), NEW p \in PacketType
  PROVE  Good(onReceiveSYN(v, p))
<1> DEFINE w == [v EXCEPT !.mSack = v.mSack \/ p.sackf, !.mSendWindow = p.win,
                          !.mLocalSeq = 0, !.mLocalNext = 0, !.mRemoteNext = 1]
           x == pushInBackQueue(w, "SYN", 0, 0)
<1>1. p.sackf \in BOOLEAN /\ p.win \in Nat
  BY DEF PacketType
<1>2. w \in MemoryType /\ SameQueues(v, w)
  BY <1>1 DEF Good, GoodWith, MemoryType, SameQueues
<1>3. onReceiveSYN(v, p) = IF v.mState # "LISTEN" THEN flushBackQueue(v)
                           ELSE switchState(x, "SYN_RCVED")
  BY DEF onReceiveSYN
<1> HIDE DEF w
<1>4. Good(w)
  BY <1>2, SameQueuesGood
<1>5. Good(x)
  <2>1. "SYN" \in Flags
    BY DEF Flags
  <2> QED BY <1>4, <2>1, pushInBackQueueGood
<1> HIDE DEF x
<1>6. Good(switchState(x, "SYN_RCVED"))
  <2>1. "SYN_RCVED" \in States
    BY DEF States
  <2> QED BY <1>5, <2>1, switchStateGood
<1> QED BY <1>3, <1>6, flushBackQueueGood

LEMMA onReceiveFINGood ==
  ASSUME NEW v, Good(v), NEW p \in PacketType
  PROVE  Good(onReceiveFIN(v, p))
<1> DEFINE n == IF v.mLocalNext <= p.ack THEN p.ack ELSE v.mLocalNext
           w == [v EXCEPT !.mLocalNext = n, !.mRemoteNext = p.seq + 1]
           x == pushInBackQueue(w, "ACK", 0, 0)
<1>1. p.ack \in Nat /\ p.seq + 1 \in Nat /\ v \in MemoryType /\ v.mLocalNext \in Nat
  BY Fields DEF PacketType, Good, GoodWith
<1>2. n \in Nat
  BY <1>1
<1>3. onReceiveFIN(v, p) = IF canPush(w) /\ afterFIN(w, p) # w.mState
                           THEN switchState(x, afterFIN(w, p)) ELSE x
  BY DEF onReceiveFIN
<1> HIDE DEF n
<1>4. w \in MemoryType /\ SameQueues(v, w) /\ w.mState = v.mState
  BY <1>1, <1>2 DEF MemoryType, SameQueues
<1> HIDE DEF w
<1>5. Good(w)
  BY <1>4, SameQueuesGood
<1>6. Good(x)
  <2>1. "ACK" \in Flags
    BY DEF Flags
  <2> QED BY <1>5, <2>1, pushInBackQueueGood
<1> HIDE DEF x
<1>7. afterFIN(w, p) \in States
  <2>1. w.mState \in States
    BY <1>4, Fields
  <2> QED BY <2>1 DEF afterFIN, States
<1> QED BY <1>3, <1>6, <1>7, switchStateGood

(* onSack returns before it has changed anything.                          *)
LEMMA onSackReturns ==
  ASSUME NEW v, NEW sack
  PROVE  onSack(v, sack) = v
BY DEF onSack, SackKind

LEMMA onSackGood ==
  ASSUME NEW v, Good(v), NEW sack
  PROVE  Good(onSack(v, sack))
BY onSackReturns

(* The forward queue keeps its type when a datagram is inserted.           *)
LEMMA InsertAfterType ==
  ASSUME NEW S, NEW q \in Seq(S), NEW n \in 0 .. Len(q), NEW x \in S
  PROVE  InsertAfter(q, n, x) \in Seq(S)
<1>0. Len(q) \in Nat /\ \A i \in 1 .. Len(q) : q[i] \in S
  BY LenProperties, ElementOfSeq
<1>1. SubSeq(q, 1, n) \in Seq(S)
  BY <1>0, SubSeqProperties
<1>2. Drop(q, n) \in Seq(S)
  BY <1>0, SubSeqProperties DEF Drop
<1>3. <<x>> \in Seq(S)
  OBVIOUS
<1> HIDE DEF Drop
<1> QED BY <1>1, <1>2, <1>3, ConcatProperties DEF InsertAfter

LEMMA enqueueIfNeedGood ==
  ASSUME NEW v, Good(v), NEW p \in PacketType
  PROVE  Good(enqueueIfNeed(v, p))
<1> DEFINE f == [seq |-> p.seq, off |-> p.off, len |-> p.len]
           q == InsertAfter(v.mForwardQueue, smaller(v, p), f)
           w == [v EXCEPT !.mForwardQueue = q, !.mRemoteNext = v.mRemoteNext + p.len]
<1>0. /\ v \in MemoryType /\ v.mForwardQueue \in Seq(ForwardType)
      /\ v.mRemoteNext + p.len \in Nat
  BY Fields DEF Good, GoodWith, PacketType
<1>1. f \in ForwardType
  BY DEF ForwardType, PacketType
<1>2. smaller(v, p) \in 0 .. Len(v.mForwardQueue)
  BY <1>0, LenProperties, LeadingRunRange DEF smaller
<1>3. q \in Seq(ForwardType)
  BY <1>0, <1>1, <1>2, InsertAfterType
<1>4. enqueueIfNeed(v, p) \in
         {requestSendData(w), pushInBackQueue(v, "ACK", 0, 0), v}
  BY DEF enqueueIfNeed
<1> HIDE DEF q
<1>5. w \in MemoryType /\ SameQueues(v, w)
  BY <1>0, <1>3 DEF MemoryType, SameQueues
<1> HIDE DEF w
<1>6. Good(requestSendData(w))
  BY <1>5, SameQueuesGood, TunnelEventsGood
<1>7. Good(pushInBackQueue(v, "ACK", 0, 0))
  <2>1. "ACK" \in Flags
    BY DEF Flags
  <2> QED BY <2>1, pushInBackQueueGood
<1> QED BY <1>4, <1>6, <1>7

LEMMA onEstablishedGood ==
  ASSUME NEW v, Good(v), NEW p \in PacketType
  PROVE  Good(onEstablished(v, p))
<1> DEFINE w == IF v.mSack /\ p.sack.from < p.sack.to THEN onSack(v, p.sack) ELSE v
           x == enqueueIfNeed(w, p)
<1>1. Good(w)
  BY onSackGood
<1>2. onEstablished(v, p) \in {pushInBackQueue(x, "ACK", 0, 0), flushBackQueue(x)}
  BY DEF onEstablished
<1> HIDE DEF w
<1>3. Good(x)
  BY <1>1, enqueueIfNeedGood
<1> HIDE DEF x
<1>4. "ACK" \in Flags
  BY DEF Flags
<1> QED BY <1>2, <1>3, <1>4, pushInBackQueueGood, flushBackQueueGood

LEMMA onNewAckGood ==
  ASSUME NEW v, Good(v), NEW p \in PacketType
  PROVE  Good(onNewAck(v, p))
<1> DEFINE e == switchState(v, "ESTABLISHED")
<1>1. {"ESTABLISHED", "FIN_WAIT2", "CLOSED", "TIME_WAIT"} \subseteq States
  BY DEF States
<1>2. Good(e)
  BY <1>1, switchStateGood
<1>3. Good(flushBackQueue(enqueueIfNeed(e, p)))
  BY <1>2, enqueueIfNeedGood, flushBackQueueGood
<1>4. \A s \in {"FIN_WAIT2", "CLOSED", "TIME_WAIT"} :
         Good(flushBackQueue(switchState(v, s)))
  BY <1>1, switchStateGood, flushBackQueueGood
<1>5. Good(flushBackQueue(v)) /\ Good(onEstablished(v, p))
  BY flushBackQueueGood, onEstablishedGood
<1> QED BY <1>3, <1>4, <1>5 DEF onNewAck

LEMMA onReceiveACKGood ==
  ASSUME NEW v, Good(v), NEW p \in PacketType
  PROVE  Good(onReceiveACK(v, p))
<1> DEFINE n == IF v.mLocalNext <= p.ack THEN p.ack ELSE v.mLocalNext
           w == [v EXCEPT !.mSendWindow = p.win, !.mLocalNext = n]
<1>1. p.win \in Nat /\ p.ack \in Nat /\ v \in MemoryType /\ v.mLocalNext \in Nat
  BY Fields DEF PacketType, Good, GoodWith
<1>2. n \in Nat
  BY <1>1
<1>3. onReceiveACK(v, p) \in {w, onNewAck(w, p)}
  BY DEF onReceiveACK
<1> HIDE DEF n
<1>4. w \in MemoryType /\ SameQueues(v, w)
  BY <1>1, <1>2 DEF MemoryType, SameQueues
<1> HIDE DEF w
<1>5. Good(w)
  BY <1>4, SameQueuesGood
<1> QED BY <1>3, <1>5, onNewAckGood

(* mLastTime is set.                                                       *)
LEMMA IdleGood ==
  ASSUME NEW v, Good(v), NEW n \in 0 .. 2, NEW w, w = [v EXCEPT !.idle = n]
  PROVE  Good(w)
<1>1. w \in MemoryType /\ SameQueues(v, w)
  BY DEF Good, GoodWith, MemoryType, SameQueues
<1> QED BY <1>1, SameQueuesGood

(* accept, whatever the packet.                                            *)
LEMMA acceptGood ==
  ASSUME NEW v, Good(v), NEW p \in PacketType
  PROVE  Good(accept(v, p))
<1> DEFINE w == CASE p.flag = "SYN" -> onReceiveSYN(v, p)
                  [] p.flag = "FIN" -> onReceiveFIN(v, p)
                  [] p.flag = "RST" -> onReceiveRST(v)
                  [] OTHER          -> onReceiveACK(v, p)
<1>1. Good(onReceiveRST(v))
  <2>1. "CLOSED" \in States
    BY DEF States
  <2> QED BY <2>1, switchStateGood DEF onReceiveRST
<1>2. /\ Good(onReceiveSYN(v, p)) /\ Good(onReceiveFIN(v, p))
      /\ Good(onReceiveACK(v, p))
  BY onReceiveSYNGood, onReceiveFINGood, onReceiveACKGood
<1>3. Good(w)
  BY <1>1, <1>2
<1>4. accept(v, p) = [w EXCEPT !.idle = 0]
  BY DEF accept
<1> HIDE DEF w
<1>5. 0 \in 0 .. 2
  OBVIOUS
<1> QED BY <1>3, <1>4, <1>5, IdleGood, Zenon

LEMMA onTunnelDataBackGood ==
  ASSUME NEW v, Good(v), NEW off \in Nat, NEW len \in Nat
  PROVE  Good(onTunnelDataBack(v, off, len))
<1> DEFINE w == pushInBackQueue(v, "ACK", off, len)
           x == IF BackQueueDataSize(w) >= SessionBuffer THEN pauseReceiveData(w) ELSE w
<1>1. Good(w)
  <2>1. "ACK" \in Flags
    BY DEF Flags
  <2> QED BY <2>1, pushInBackQueueGood
<1>2. onTunnelDataBack(v, off, len) = [x EXCEPT !.idle = 0]
  BY DEF onTunnelDataBack
<1> HIDE DEF w
<1>3. Good(x)
  BY <1>1, TunnelEventsGood
<1> HIDE DEF x
<1>4. 0 \in 0 .. 2
  OBVIOUS
<1> QED BY <1>2, <1>3, <1>4, IdleGood, Zenon

LEMMA onTunnelDisconnectedGood ==
  ASSUME NEW v, Good(v)
  PROVE  Good(onTunnelDisconnected(v))
<1> DEFINE w == [v EXCEPT !.mRemoteFinished = TRUE]
<1>1. w \in MemoryType /\ SameQueues(v, w)
  BY DEF Good, GoodWith, MemoryType, SameQueues
<1>2. onRemoteFinished(v) = flushBackQueue(w)
  BY DEF onRemoteFinished
<1> HIDE DEF w
<1>3. Good(onRemoteFinished(v))
  BY <1>1, <1>2, SameQueuesGood, flushBackQueueGood
<1>4. Good(switchState(v, "CLOSED"))
  <2>1. "CLOSED" \in States
    BY DEF States
  <2> QED BY <2>1, switchStateGood
<1>5. Good(resetConnection(v))
  BY resetConnectionGood
<1> QED BY <1>3, <1>4, <1>5 DEF onTunnelDisconnected

LEMMA buildSessionGood ==
  ASSUME NEW v, Good(v)
  PROVE  Good(buildSession(v))
<1> DEFINE w == [v EXCEPT !.exists = "yes", !.mAlive = TRUE, !.mState = "LISTEN",
                          !.idle = 0]
           x == establish(w)
<1>1. "LISTEN" \in States
  BY DEF States
<1>2. w \in MemoryType /\ SameQueues(v, w)
  <2>1. ASSUME NEW e \in {"never", "yes", "deleted"}, NEW s \in States,
               NEW n \in 0 .. 2, NEW y,
               y = [v EXCEPT !.exists = e, !.mAlive = TRUE, !.mState = s, !.idle = n]
        PROVE  y \in MemoryType /\ SameQueues(v, y)
    BY <2>1 DEF Good, GoodWith, MemoryType, SameQueues
  <2>2. "yes" \in {"never", "yes", "deleted"} /\ 0 \in 0 .. 2
    OBVIOUS
  <2> QED BY <1>1, <2>1, <2>2, Zenon
<1>3. buildSession(v) = x
  BY DEF buildSession
<1> HIDE DEF w
<1>4. x \in MemoryType /\ SameQueues(w, x)
  BY <1>2 DEF MemoryType, SameQueues, establish
<1> QED BY <1>2, <1>3, <1>4, SameQueuesGood

LEMMA releaseSessionGood ==
  ASSUME NEW v, Good(v)
  PROVE  Good(releaseSession(v)) /\ releaseSession(v).full = v.full
<1> DEFINE u == destroyTunnel(v)
           h == SafeRelease(u.heap, Held(v))
           w == [u EXCEPT !.exists = "deleted", !.mAlive = FALSE,
                          !.mForwardQueue = <<>>, !.heap = h, !.mBackQueue = <<>>]
<1>0. v \in MemoryType
  BY DEF Good, GoodWith
<1>1. u \in MemoryType /\ SameQueues(v, u)
  BY <1>0 DEF MemoryType, SameQueues, destroyTunnel
<1>2. releaseSession(v) = w
  BY DEF releaseSession
<1> HIDE DEF u
<1>3. u.heap = v.heap /\ v.heap \in [Cells -> DatagramType]
  BY <1>0, <1>1, Fields DEF SameQueues
<1>4. h \in [Cells -> DatagramType] /\ h = SafeRelease(v.heap, Held(v))
  BY <1>3, SafeReleaseType
<1> HIDE DEF h
<1>5. /\ w \in MemoryType /\ w.heap = h /\ w.mBackQueue = <<>>
      /\ w.mData = u.mData /\ w.tunWrite = u.tunWrite /\ w.full = u.full
  <2>1. <<>> \in Seq(ForwardType) /\ <<>> \in Seq(Cells)
    OBVIOUS
  <2>2. w \in MemoryType
    BY <1>1, <1>4, <2>1 DEF MemoryType
  <2>3. /\ w.heap = h /\ w.mBackQueue = <<>>
        /\ w.mData = u.mData /\ w.tunWrite = u.tunWrite /\ w.full = u.full
    BY <1>1 DEF MemoryType
  <2> QED BY <2>2, <2>3
<1> HIDE DEF w
<1>6. Held(w) = {} /\ Injective(w.mBackQueue)
  BY <1>5 DEF Held, CellsOf, Injective
<1>7. Good(w)
  BY <1>1, <1>4, <1>5, <1>6, SafeReleaseGood DEF SameQueues
<1> QED BY <1>1, <1>2, <1>5, <1>7 DEF SameQueues
-----------------------------------------------------------------------------
(* The end of a session                                                    *)

(* What CLOSED means for the session and its tunnel.                       *)
Ended(v) == v.mState = "CLOSED" => ~v.mAlive /\ ~v.socket /\ ~v.rd /\ ~v.wr

(* A function of the session neither builds nor deletes it, leaves no      *)
(* tunnel to a closed one, and does not take it back to LISTEN.            *)
Lives(v, w) ==
  /\ w.exists = v.exists /\ (Ended(v) => Ended(w))
  /\ v.mState # "LISTEN" => w.mState # "LISTEN"
  /\ v.full => w.full

LEMMA LivesOn ==
  ASSUME NEW u, NEW v, NEW w, Lives(u, v), Lives(v, w)
  PROVE  Lives(u, w)
BY DEF Lives

(* The fields that Lives is about are the same.                            *)
SameLife(v, w) ==
  /\ w.exists = v.exists /\ w.mState = v.mState /\ w.mAlive = v.mAlive
  /\ w.socket = v.socket /\ w.rd = v.rd /\ w.wr = v.wr
  /\ v.full => w.full

LEMMA SameLives ==
  ASSUME NEW v, NEW w, SameLife(v, w) PROVE Lives(v, w)
BY DEF SameLife, Lives, Ended

LEMMA TunnelEventsLives ==
  ASSUME NEW v \in MemoryType
  PROVE  /\ Lives(v, requestSendData(v)) /\ Lives(v, pauseSendData(v))
         /\ Lives(v, pauseReceiveData(v)) /\ Lives(v, resumeReceiveData(v))
         /\ Lives(v, destroyTunnel(v))
<1>1. Lives(v, requestSendData(v))
  BY DEF requestSendData, MemoryType, Lives, Ended
<1>2. Lives(v, pauseSendData(v))
  BY DEF pauseSendData, MemoryType, Lives, Ended
<1>3. Lives(v, pauseReceiveData(v))
  BY DEF pauseReceiveData, MemoryType, Lives, Ended
<1>4. Lives(v, resumeReceiveData(v))
  BY DEF resumeReceiveData, MemoryType, Lives, Ended
<1>5. Lives(v, destroyTunnel(v))
  BY DEF destroyTunnel, MemoryType, Lives, Ended
<1> QED BY <1>1, <1>2, <1>3, <1>4, <1>5

(* Entering CLOSED destroys the tunnel.                                    *)
LEMMA switchStateLives ==
  ASSUME NEW v \in MemoryType, NEW s \in States, s # "LISTEN"
  PROVE  Lives(v, switchState(v, s))
<1> DEFINE w == [v EXCEPT !.mState = s]
           x == [w EXCEPT !.mAlive = FALSE]
<1>1. w \in MemoryType /\ w.mState = s /\ w.exists = v.exists /\ w.full = v.full
  BY DEF MemoryType
<1>2. switchState(v, s) = IF v.mState = s THEN v
                          ELSE IF s = "CLOSED" THEN destroyTunnel(x) ELSE w
  BY DEF switchState, close
<1> HIDE DEF w
<1>3. x \in MemoryType /\ x.exists = w.exists /\ ~x.mAlive /\ x.mState = w.mState
      /\ x.full = w.full
  BY <1>1 DEF MemoryType
<1> HIDE DEF x
<1>4. /\ destroyTunnel(x).exists = x.exists /\ ~destroyTunnel(x).mAlive
      /\ ~destroyTunnel(x).socket /\ ~destroyTunnel(x).rd /\ ~destroyTunnel(x).wr
      /\ destroyTunnel(x).full = x.full /\ destroyTunnel(x).mState = x.mState
  BY <1>3 DEF destroyTunnel, MemoryType
<1> QED BY <1>1, <1>2, <1>3, <1>4 DEF Lives, Ended

(* The queues, the numbers and the datagrams do not matter.                *)
LEMMA sendBackSegmentLives ==
  ASSUME NEW v \in MemoryType, NEW c \in Cells
  PROVE  Lives(v, sendBackSegment(v, c))
<1> DEFINE w == [v EXCEPT !.heap = [v.heap EXCEPT ![c].sent = TRUE]]
<1>1. sendBackSegment(v, c) = RouterQueue(w, c)
  BY DEF sendBackSegment
<1>2. SameLife(v, w) /\ DOMAIN w = DOMAIN v
  BY DEF MemoryType, SameLife
<1> HIDE DEF w
<1>3. SameLife(w, RouterQueue(w, c))
  BY <1>2 DEF RouterQueue, MemoryType, SameLife
<1> QED BY <1>1, <1>2, <1>3, SameLives, LivesOn

LEMMA sendBackSegmentType ==
  ASSUME NEW v \in MemoryType, NEW c \in Cells
  PROVE  sendBackSegment(v, c) \in MemoryType
<1> DEFINE h == [v.heap EXCEPT ![c].sent = TRUE]
           w == [v EXCEPT !.heap = h]
           g == [w.heap EXCEPT ![c].buffering = TRUE]
           q == Append(w.mData, c)
<1>1. v.heap \in [Cells -> DatagramType] /\ v.heap[c] \in DatagramType
  BY Fields
<1>2. h \in [Cells -> DatagramType]
  <2>1. [v.heap[c] EXCEPT !.sent = TRUE] \in DatagramType
    BY <1>1 DEF DatagramType
  <2> QED BY <1>1, <2>1
<1>3. sendBackSegment(v, c) \in {w, [w EXCEPT !.heap = g, !.mData = q, !.tunWrite = TRUE]}
  BY DEF sendBackSegment, RouterQueue
<1> HIDE DEF h
<1>4. w \in MemoryType
  BY <1>2 DEF MemoryType
<1> HIDE DEF w
<1>5. w.heap \in [Cells -> DatagramType] /\ w.heap[c] \in DatagramType
      /\ w.mData \in Seq(Cells)
  BY <1>4, Fields
<1>6. g \in [Cells -> DatagramType]
  <2>1. [w.heap[c] EXCEPT !.buffering = TRUE] \in DatagramType
    BY <1>5 DEF DatagramType
  <2> QED BY <1>5, <2>1
<1>7. q \in Seq(Cells)
  BY <1>5, AppendProperties
<1> HIDE DEF g, q
<1>8. [w EXCEPT !.heap = g, !.mData = q, !.tunWrite = TRUE] \in MemoryType
  BY <1>4, <1>6, <1>7 DEF MemoryType
<1> HIDE DEF MemoryType
<1> QED BY <1>3, <1>4, <1>8

LEMMA popAckedLives ==
  ASSUME NEW v \in MemoryType PROVE SameLife(v, popAcked(v))
BY DEF popAcked, MemoryType, SameLife

LEMMA enqueueBackLives ==
  ASSUME NEW v \in MemoryType, NEW flag, NEW off, NEW len
  PROVE  Lives(v, enqueueBack(v, flag, off, len))
<1> DEFINE w == Allocate(v, BuildPackage(v, flag, off, len))
           q == Append(w.mBackQueue, FreshCell(v))
           n == w.mLocalSeq + (IF flag \in {"SYN", "FIN"} THEN 1 ELSE len)
<1>1. SameLife(v, w) /\ DOMAIN w = DOMAIN v
  BY DEF Allocate, MemoryType, SameLife
<1>2. enqueueBack(v, flag, off, len) = [w EXCEPT !.mBackQueue = q, !.mLocalSeq = n]
  BY DEF enqueueBack
<1> HIDE DEF w, q, n
<1>3. SameLife(w, enqueueBack(v, flag, off, len))
  BY <1>1, <1>2 DEF MemoryType, SameLife
<1> QED BY <1>1, <1>3, SameLives, LivesOn

(* An RST, then CLOSED.                                                    *)
LEMMA resetConnectionLives ==
  ASSUME NEW v, Good(v) PROVE Lives(v, resetConnection(v))
<1> DEFINE w == [v EXCEPT !.mLocalSeq = v.mLocalNext]
           c == FreshCell(w)
           b == BuildPackage(w, "RST", 0, 0)
           r == [b EXCEPT !.release = TRUE]
           x == Allocate(w, r)
           y == sendBackSegment(x, c)
<1>1. v \in MemoryType /\ v.mLocalNext \in Nat
  BY Fields DEF Good, GoodWith
<1>2. w \in MemoryType /\ SameLife(v, w)
  BY <1>1 DEF MemoryType, SameLife
<1>3. resetConnection(v) = switchState(y, "CLOSED")
  BY DEF resetConnection
<1> HIDE DEF w
<1>4. b \in DatagramType
  <2>1. "RST" \in Flags
    BY DEF Flags
  <2> QED BY <1>2, <2>1, BuildPackageType
<1> HIDE DEF b
<1>5. r \in DatagramType
  BY <1>4 DEF DatagramType
<1> HIDE DEF r
<1>6. x \in MemoryType /\ c \in Cells /\ SameLife(w, x)
  <2>1. SameLife(w, x)
    BY <1>2 DEF Allocate, MemoryType, SameLife
  <2> QED BY <1>2, <1>5, <2>1, AllocateEffect
<1> HIDE DEF x, c
<1>7. Lives(v, y) /\ y.exists = v.exists
  BY <1>2, <1>6, SameLives, LivesOn, sendBackSegmentLives DEF Lives
<1>8. y \in MemoryType
  BY <1>6, sendBackSegmentType
<1> HIDE DEF y
<1>9. "CLOSED" \in States
  BY DEF States
<1> QED BY <1>3, <1>7, <1>8, <1>9, switchStateLives, LivesOn

LEMMA resumeIfRoomLives ==
  ASSUME NEW v \in MemoryType PROVE Lives(v, resumeIfRoom(v))
BY TunnelEventsLives DEF resumeIfRoom, Lives

LEMMA sendBackLives ==
  ASSUME NEW v, Good(v) PROVE Lives(v, sendBack(v))
<1> DEFINE c == Head(v.mBackQueue)
<1>0. v \in MemoryType /\ Lives(v, resumeIfRoom(v)) /\ Lives(v, resetConnection(v))
  BY resumeIfRoomLives, resetConnectionLives DEF Good, GoodWith
<1>1. CASE v.mBackQueue = <<>>
  BY <1>0, <1>1 DEF sendBack
<1>2. CASE v.mBackQueue # <<>>
  <2>1. c \in Cells
    BY <1>0, <1>2, Fields, CellsTail
  <2>2. sendBack(v) \in {resetConnection(v), resumeIfRoom(v),
                         resumeIfRoom(sendBackSegment(v, c))}
    BY <1>2 DEF sendBack
  <2> HIDE DEF c
  <2>3. /\ sendBackSegment(v, c) \in MemoryType
        /\ Lives(v, sendBackSegment(v, c))
    BY <1>0, <2>1, sendBackSegmentType, sendBackSegmentLives
  <2> QED BY <1>0, <2>2, <2>3, resumeIfRoomLives, LivesOn
<1> QED BY <1>1, <1>2

LEMMA pushFinLives ==
  ASSUME NEW v, Good(v) PROVE Lives(v, pushFin(v))
<1> DEFINE t == enqueueBack(v, "FIN", 0, 0)
           u == popAcked(t)
           w == sendBack(u)
           s == IF w.mState = "ESTABLISHED" THEN "FIN_WAIT1" ELSE "LAST_ACK"
<1>1. v \in MemoryType /\ Good(t) /\ t \in MemoryType
  <2>1. "FIN" \in Flags
    BY DEF Flags
  <2> QED BY <2>1, enqueueBackGood DEF Good, GoodWith
<1>2. pushFin(v) = switchState(w, s) /\ s \in States /\ s # "LISTEN"
  BY DEF pushFin, States
<1>3. Lives(v, t)
  BY <1>1, enqueueBackLives
<1> HIDE DEF t, s
<1>4. Good(u) /\ Lives(t, u)
  BY <1>1, popAckedGood, popAckedLives, SameLives
<1> HIDE DEF u
<1>5. Good(w) /\ w \in MemoryType /\ Lives(u, w)
  BY <1>4, sendBackGood, sendBackLives DEF Good, GoodWith
<1> HIDE DEF w
<1>6. Lives(w, switchState(w, s))
  BY <1>2, <1>5, switchStateLives
<1> QED BY <1>2, <1>3, <1>4, <1>5, <1>6, LivesOn

LEMMA flushBackQueueLives ==
  ASSUME NEW v, Good(v) PROVE Lives(v, flushBackQueue(v))
<1>1. Good(popAcked(v)) /\ Lives(v, popAcked(v))
  BY popAckedGood, popAckedLives, SameLives DEF Good, GoodWith
<1>2. flushBackQueue(v) \in {sendBack(popAcked(v)), pushFin(popAcked(v)), popAcked(v)}
  BY DEF flushBackQueue
<1> QED BY <1>1, <1>2, sendBackLives, pushFinLives, LivesOn

LEMMA pushInBackQueueLives ==
  ASSUME NEW v, Good(v), NEW flag \in Flags, NEW off \in Nat, NEW len \in Nat
  PROVE  Lives(v, pushInBackQueue(v, flag, off, len))
<1> DEFINE w == enqueueBack(v, flag, off, len)
<1>1. v \in MemoryType /\ Good(w) /\ Lives(v, w)
  BY enqueueBackGood, enqueueBackLives DEF Good, GoodWith
<1>2. pushInBackQueue(v, flag, off, len) \in {flushBackQueue(w), v}
  BY DEF pushInBackQueue
<1> HIDE DEF w
<1>3. Lives(v, v)
  BY DEF Lives
<1> QED BY <1>1, <1>2, <1>3, flushBackQueueLives, LivesOn
-----------------------------------------------------------------------------
(* The end of a session: the handlers                                      *)

LEMMA onReceiveSYNLives ==
  ASSUME NEW v, Good(v), NEW p \in PacketType
  PROVE  Lives(v, onReceiveSYN(v, p))
<1> DEFINE w == [v EXCEPT !.mSack = v.mSack \/ p.sackf, !.mSendWindow = p.win,
                          !.mLocalSeq = 0, !.mLocalNext = 0, !.mRemoteNext = 1]
           x == pushInBackQueue(w, "SYN", 0, 0)
<1>1. p.sackf \in BOOLEAN /\ p.win \in Nat
  BY DEF PacketType
<1>2. w \in MemoryType /\ SameQueues(v, w) /\ SameLife(v, w)
  BY <1>1 DEF Good, GoodWith, MemoryType, SameQueues, SameLife
<1>3. onReceiveSYN(v, p) = IF v.mState # "LISTEN" THEN flushBackQueue(v)
                           ELSE switchState(x, "SYN_RCVED")
  BY DEF onReceiveSYN
<1> HIDE DEF w
<1>4. Good(w) /\ Lives(v, w)
  BY <1>2, SameQueuesGood, SameLives
<1>5. Good(x) /\ x \in MemoryType /\ Lives(w, x)
  <2>1. "SYN" \in Flags
    BY DEF Flags
  <2> QED BY <1>4, <2>1, pushInBackQueueGood, pushInBackQueueLives DEF Good, GoodWith
<1> HIDE DEF x
<1>6. Lives(x, switchState(x, "SYN_RCVED"))
  <2>1. "SYN_RCVED" \in States
    BY DEF States
  <2> QED BY <1>5, <2>1, switchStateLives
<1>7. Lives(v, x)
  BY <1>4, <1>5, LivesOn
<1> QED BY <1>3, <1>6, <1>7, LivesOn, flushBackQueueLives

LEMMA onReceiveFINLives ==
  ASSUME NEW v, Good(v), NEW p \in PacketType
  PROVE  Lives(v, onReceiveFIN(v, p))
<1> DEFINE n == IF v.mLocalNext <= p.ack THEN p.ack ELSE v.mLocalNext
           w == [v EXCEPT !.mLocalNext = n, !.mRemoteNext = p.seq + 1]
           x == pushInBackQueue(w, "ACK", 0, 0)
<1>1. p.ack \in Nat /\ p.seq + 1 \in Nat /\ v \in MemoryType /\ v.mLocalNext \in Nat
  BY Fields DEF PacketType, Good, GoodWith
<1>2. n \in Nat
  BY <1>1
<1>3. onReceiveFIN(v, p) = IF canPush(w) /\ afterFIN(w, p) # w.mState
                           THEN switchState(x, afterFIN(w, p)) ELSE x
  BY DEF onReceiveFIN
<1> HIDE DEF n
<1>4. w \in MemoryType /\ SameQueues(v, w) /\ SameLife(v, w)
  BY <1>1, <1>2 DEF MemoryType, SameQueues, SameLife
<1> HIDE DEF w
<1>5. Good(w) /\ Lives(v, w)
  BY <1>4, SameQueuesGood, SameLives
<1>6. Good(x) /\ x \in MemoryType /\ Lives(w, x)
  <2>1. "ACK" \in Flags
    BY DEF Flags
  <2> QED BY <1>5, <2>1, pushInBackQueueGood, pushInBackQueueLives DEF Good, GoodWith
<1> HIDE DEF x
<1>7. afterFIN(w, p) # w.mState => afterFIN(w, p) \in States \ {"LISTEN"}
  <2>1. w.mState \in States
    BY <1>4, Fields
  <2> QED BY <2>1 DEF afterFIN, States
<1>8. Lives(v, x) /\ (afterFIN(w, p) # w.mState =>
                        Lives(x, switchState(x, afterFIN(w, p))))
  BY <1>5, <1>6, <1>7, LivesOn, switchStateLives
<1> QED BY <1>3, <1>8, LivesOn

LEMMA enqueueIfNeedLives ==
  ASSUME NEW v, Good(v), NEW p \in PacketType
  PROVE  Lives(v, enqueueIfNeed(v, p))
<1> DEFINE f == [seq |-> p.seq, off |-> p.off, len |-> p.len]
           q == InsertAfter(v.mForwardQueue, smaller(v, p), f)
           w == [v EXCEPT !.mForwardQueue = q, !.mRemoteNext = v.mRemoteNext + p.len]
<1>0. /\ v \in MemoryType /\ v.mForwardQueue \in Seq(ForwardType)
      /\ v.mRemoteNext + p.len \in Nat
  BY Fields DEF Good, GoodWith, PacketType
<1>1. f \in ForwardType
  BY DEF ForwardType, PacketType
<1>2. smaller(v, p) \in 0 .. Len(v.mForwardQueue)
  BY <1>0, LenProperties, LeadingRunRange DEF smaller
<1>3. q \in Seq(ForwardType)
  BY <1>0, <1>1, <1>2, InsertAfterType
<1>4. enqueueIfNeed(v, p) \in
         {requestSendData(w), pushInBackQueue(v, "ACK", 0, 0), v}
  BY DEF enqueueIfNeed
<1> HIDE DEF q
<1>5. w \in MemoryType /\ SameLife(v, w)
  BY <1>0, <1>3 DEF MemoryType, SameLife
<1> HIDE DEF w
<1>6. Lives(v, requestSendData(w))
  BY <1>5, SameLives, TunnelEventsLives, LivesOn
<1>7. Lives(v, pushInBackQueue(v, "ACK", 0, 0)) /\ Lives(v, v)
  <2>1. "ACK" \in Flags
    BY DEF Flags
  <2> QED BY <2>1, pushInBackQueueLives DEF Lives
<1> QED BY <1>4, <1>6, <1>7

LEMMA onEstablishedLives ==
  ASSUME NEW v, Good(v), NEW p \in PacketType
  PROVE  Lives(v, onEstablished(v, p))
<1> DEFINE w == IF v.mSack /\ p.sack.from < p.sack.to THEN onSack(v, p.sack) ELSE v
           x == enqueueIfNeed(w, p)
<1>1. Good(w) /\ Lives(v, w)
  <2>1. SameLife(v, onSack(v, p.sack))
    BY onSackReturns DEF SameLife
  <2>2. Lives(v, v)
    BY DEF Lives
  <2> QED BY <2>1, <2>2, onSackGood, SameLives
<1>2. onEstablished(v, p) \in {pushInBackQueue(x, "ACK", 0, 0), flushBackQueue(x)}
  BY DEF onEstablished
<1> HIDE DEF w
<1>3. Good(x) /\ Lives(v, x)
  BY <1>1, enqueueIfNeedGood, enqueueIfNeedLives, LivesOn
<1> HIDE DEF x
<1>4. "ACK" \in Flags
  BY DEF Flags
<1>5. /\ Lives(x, pushInBackQueue(x, "ACK", 0, 0))
      /\ Lives(x, flushBackQueue(x))
  BY <1>3, <1>4, pushInBackQueueLives, flushBackQueueLives
<1> QED BY <1>2, <1>3, <1>5, LivesOn

LEMMA onNewAckLives ==
  ASSUME NEW v, Good(v), NEW p \in PacketType
  PROVE  Lives(v, onNewAck(v, p))
<1>0. v \in MemoryType
  BY DEF Good, GoodWith
<1>1. {"ESTABLISHED", "FIN_WAIT2", "CLOSED", "TIME_WAIT"} \subseteq States
  BY DEF States
<1>2. ASSUME NEW s \in {"ESTABLISHED", "FIN_WAIT2", "CLOSED", "TIME_WAIT"}
      PROVE  Good(switchState(v, s)) /\ Lives(v, switchState(v, s))
  BY <1>0, <1>1, switchStateGood, switchStateLives
<1>3. ASSUME NEW s \in {"FIN_WAIT2", "CLOSED", "TIME_WAIT"}
      PROVE  Lives(v, flushBackQueue(switchState(v, s)))
  BY <1>2, flushBackQueueLives, LivesOn
<1>4. Lives(v, flushBackQueue(enqueueIfNeed(switchState(v, "ESTABLISHED"), p)))
  <2> DEFINE e == switchState(v, "ESTABLISHED")
             x == enqueueIfNeed(e, p)
  <2>1. Good(e) /\ Lives(v, e)
    BY <1>2
  <2> HIDE DEF e
  <2>2. Good(x) /\ Lives(v, x)
    BY <2>1, enqueueIfNeedGood, enqueueIfNeedLives, LivesOn
  <2> HIDE DEF x
  <2>3. Lives(v, flushBackQueue(x))
    BY <2>2, flushBackQueueLives, LivesOn
  <2> QED BY <2>3 DEF x, e
<1>5. Lives(v, flushBackQueue(v)) /\ Lives(v, onEstablished(v, p))
  BY flushBackQueueLives, onEstablishedLives
<1> QED BY <1>3, <1>4, <1>5 DEF onNewAck

LEMMA onReceiveACKLives ==
  ASSUME NEW v, Good(v), NEW p \in PacketType
  PROVE  Lives(v, onReceiveACK(v, p))
<1> DEFINE n == IF v.mLocalNext <= p.ack THEN p.ack ELSE v.mLocalNext
           w == [v EXCEPT !.mSendWindow = p.win, !.mLocalNext = n]
<1>1. p.win \in Nat /\ p.ack \in Nat /\ v \in MemoryType /\ v.mLocalNext \in Nat
  BY Fields DEF PacketType, Good, GoodWith
<1>2. n \in Nat
  BY <1>1
<1>3. onReceiveACK(v, p) \in {w, onNewAck(w, p)}
  BY DEF onReceiveACK
<1> HIDE DEF n
<1>4. w \in MemoryType /\ SameQueues(v, w) /\ SameLife(v, w)
  BY <1>1, <1>2 DEF MemoryType, SameQueues, SameLife
<1> HIDE DEF w
<1>5. Good(w) /\ Lives(v, w)
  BY <1>4, SameQueuesGood, SameLives
<1>6. Lives(v, onNewAck(w, p))
  BY <1>5, onNewAckLives, LivesOn
<1> QED BY <1>3, <1>5, <1>6

LEMMA acceptLives ==
  ASSUME NEW v, Good(v), NEW p \in PacketType
  PROVE  Lives(v, accept(v, p))
<1> DEFINE w == CASE p.flag = "SYN" -> onReceiveSYN(v, p)
                  [] p.flag = "FIN" -> onReceiveFIN(v, p)
                  [] p.flag = "RST" -> onReceiveRST(v)
                  [] OTHER          -> onReceiveACK(v, p)
<1>1. Good(onReceiveRST(v)) /\ Lives(v, onReceiveRST(v))
  <2>1. "CLOSED" \in States /\ v \in MemoryType
    BY DEF States, Good, GoodWith
  <2> QED BY <2>1, switchStateGood, switchStateLives DEF onReceiveRST
<1>2. Good(w) /\ Lives(v, w)
  BY <1>1, onReceiveSYNGood, onReceiveFINGood, onReceiveACKGood,
     onReceiveSYNLives, onReceiveFINLives, onReceiveACKLives
<1>3. accept(v, p) = [w EXCEPT !.idle = 0]
  BY DEF accept
<1> HIDE DEF w
<1>4. SameLife(w, accept(v, p))
  BY <1>2, <1>3 DEF Good, GoodWith, MemoryType, SameLife
<1> QED BY <1>2, <1>4, SameLives, LivesOn

LEMMA onTunnelDataBackLives ==
  ASSUME NEW v, Good(v), NEW off \in Nat, NEW len \in Nat
  PROVE  Lives(v, onTunnelDataBack(v, off, len))
<1> DEFINE w == pushInBackQueue(v, "ACK", off, len)
           x == IF BackQueueDataSize(w) >= SessionBuffer THEN pauseReceiveData(w) ELSE w
<1>1. Good(w) /\ w \in MemoryType /\ Lives(v, w)
  <2>1. "ACK" \in Flags
    BY DEF Flags
  <2> QED BY <2>1, pushInBackQueueGood, pushInBackQueueLives DEF Good, GoodWith
<1>2. onTunnelDataBack(v, off, len) = [x EXCEPT !.idle = 0]
  BY DEF onTunnelDataBack
<1> HIDE DEF w
<1>3. Good(x) /\ Lives(v, x)
  BY <1>1, TunnelEventsGood, TunnelEventsLives, LivesOn
<1> HIDE DEF x
<1>4. SameLife(x, onTunnelDataBack(v, off, len))
  BY <1>2, <1>3 DEF Good, GoodWith, MemoryType, SameLife
<1> QED BY <1>3, <1>4, SameLives, LivesOn

LEMMA onTunnelDisconnectedLives ==
  ASSUME NEW v, Good(v)
  PROVE  Lives(v, onTunnelDisconnected(v))
<1> DEFINE w == [v EXCEPT !.mRemoteFinished = TRUE]
<1>1. w \in MemoryType /\ SameQueues(v, w) /\ SameLife(v, w) /\ v \in MemoryType
  BY DEF Good, GoodWith, MemoryType, SameQueues, SameLife
<1>2. onRemoteFinished(v) = flushBackQueue(w)
  BY DEF onRemoteFinished
<1> HIDE DEF w
<1>3. Lives(v, onRemoteFinished(v))
  BY <1>1, <1>2, SameQueuesGood, SameLives, flushBackQueueLives, LivesOn
<1>4. Lives(v, switchState(v, "CLOSED"))
  <2>1. "CLOSED" \in States
    BY DEF States
  <2> QED BY <1>1, <2>1, switchStateLives
<1>5. Lives(v, resetConnection(v))
  BY resetConnectionLives
<1> QED BY <1>3, <1>4, <1>5 DEF onTunnelDisconnected

(* What is built is not closed, and what is deleted has no tunnel.         *)
LEMMA buildSessionLives ==
  ASSUME NEW v \in MemoryType
  PROVE  buildSession(v).exists = "yes" /\ Ended(buildSession(v))
<1> DEFINE w == [v EXCEPT !.exists = "yes", !.mAlive = TRUE, !.mState = "LISTEN",
                          !.idle = 0]
<1>1. w.exists = "yes" /\ w.mState = "LISTEN" /\ DOMAIN w = DOMAIN v
  BY DEF MemoryType
<1>2. buildSession(v) = establish(w)
  BY DEF buildSession
<1> HIDE DEF w
<1>3. establish(w).exists = w.exists /\ establish(w).mState = w.mState
  BY <1>1 DEF establish, MemoryType
<1> QED BY <1>1, <1>2, <1>3 DEF Ended

LEMMA releaseSessionLives ==
  ASSUME NEW v \in MemoryType
  PROVE  /\ releaseSession(v).exists = "deleted"
         /\ releaseSession(v).mState = v.mState
         /\ ~releaseSession(v).mAlive /\ ~releaseSession(v).socket
         /\ ~releaseSession(v).rd /\ ~releaseSession(v).wr
<1> DEFINE u == destroyTunnel(v)
<1>1. /\ u.mState = v.mState /\ ~u.socket /\ ~u.rd /\ ~u.wr
      /\ DOMAIN u = DOMAIN v
  BY DEF destroyTunnel, MemoryType
<1> HIDE DEF u
<1> DEFINE h == SafeRelease(u.heap, Held(v))
           w == [u EXCEPT !.exists = "deleted", !.mAlive = FALSE,
                          !.mForwardQueue = <<>>, !.heap = h, !.mBackQueue = <<>>]
<1>2. releaseSession(v) = w
  BY DEF releaseSession, u
<1> HIDE DEF h
<1>3. /\ w.exists = "deleted" /\ w.mState = u.mState /\ ~w.mAlive
      /\ w.socket = u.socket /\ w.rd = u.rd /\ w.wr = u.wr
  BY <1>1 DEF MemoryType
<1> HIDE DEF w
<1> QED BY <1>1, <1>2, <1>3
=============================================================================
