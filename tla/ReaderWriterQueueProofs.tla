------------------------ MODULE ReaderWriterQueueProofs ------------------------
(***************************************************************************)
(* Proofs about ReaderWriterQueue, with relaxed atomics or with one memory,  *)
(* for every size of the queue and of its blocks, every number of blocks and *)
(* of elements.                                                             *)
(***************************************************************************)
EXTENDS ReaderWriterQueue, SequenceTheorems, FiniteSetTheorems,
        WellFoundedInduction, TLAPS

-------------------------------------------------------------------------------
(***************************************************************************)
(* The inductive invariant.                                                 *)
(***************************************************************************)
Threads == {P, C}
Reader(loc) == IF Owner(loc) = P THEN C ELSE P
Stores == [val : Nat, at : Nat]

\* Every location has a store to read; its stores are of epochs that its owner
\* has begun, and all but the oldest are of epochs that its reader has not seen.
MemInv ==
    /\ mem \in [Locations -> Seq(Stores)]
    /\ epoch \in [Threads -> Nat] /\ acq \in [Threads -> Nat] /\ seen \in [Threads -> Nat]
    /\ acq[P] <= epoch[C] /\ seen[P] <= epoch[C]
    /\ acq[C] <= epoch[P] /\ seen[C] <= epoch[P]
    /\ \A loc \in Locations :
        /\ mem[loc] # <<>>
        /\ ~ Relaxed => Len(mem[loc]) = 1
        /\ \A i \in 1 .. Len(mem[loc]) : mem[loc][i].at <= epoch[Owner(loc)]
        /\ \A i \in 2 .. Len(mem[loc]) : mem[loc][i].at >= seen[Reader(loc)]

\* A reader that has seen epoch e can only read the last store of history h.
Settled(h, e) == Len(h) = 1 \/ h[Len(h)].at < e

FB == Newest(FrontBlock)
TB == Newest(TailBlock)
FrontIx(b) == Newest(FrontOf(b))
TailIx(b) == Newest(TailOf(b))
NextB(b) == Newest(NextOf(b))

\* The blocks that are linked into the ring.
RingSize == IF pc[P] = "link" THEN allocated - 1 ELSE allocated
Ring == 1 .. RingSize

\* The producer has found the block after tailBlock free and is about to use it.
Advancing == pc[P] \in {"advance", "writeNext", "publishNext", "publishBlock"}
Filling == pc[P] \in {"writeNext", "publishNext", "publishBlock"}
Leaving == pc[C] \in {"recheck", "readNext", "checkNext", "moveFront"}

\* The steps from one index of a buffer of n slots to another.
Dist(x, y, n) == IF x <= y THEN y - x ELSE y - x + n

Labels == {"idle", "write", "publish", "full", "alloc", "link", "advance", "writeNext",
           "publishNext", "publishBlock", "take", "release", "checkTail", "recheck",
           "readNext", "checkNext", "moveFront", "count", "follow"}

CallsTyped ==
    /\ pc \in [Threads -> Labels]
    /\ DOMAIN call = Threads
    /\ \A t \in Threads : DOMAIN call[t] = DOMAIN NoCall

TypeInv ==
    /\ CallsTyped
    /\ allocated \in Blocks
    /\ largestBlockSize \in Nat /\ largestBlockSize >= 2
    /\ size \in [Blocks -> Nat]
    /\ localFront \in [Blocks -> Nat] /\ localTail \in [Blocks -> Nat]
    /\ DOMAIN slot = Blocks
    /\ sent \in Nat
    /\ \A b \in Blocks :
        /\ b <= allocated => size[b] >= 2
        /\ b > allocated =>
            /\ mem[FrontOf(b)] = <<[val |-> 0, at |-> 0]>>
            /\ mem[TailOf(b)] = <<[val |-> 0, at |-> 0]>>
            /\ localFront[b] = 0

\* pos: the place of a block in the ring, counted from frontBlock.
RingInv(pos) ==
    /\ pos \in [Ring -> 0 .. RingSize - 1]
    /\ \A b, c \in Ring : pos[b] = pos[c] => b = c
    /\ FB \in Ring /\ TB \in Ring
    /\ pos[FB] = 0
    /\ \A b \in Ring : /\ NextB(b) \in Ring
                       /\ pos[NextB(b)] = IF pos[b] = RingSize - 1 THEN 0 ELSE pos[b] + 1

\* The place of the last block that is not free.
LastUsed(pos) == IF Advancing THEN pos[TB] + 1 ELSE pos[TB]

\* What the producer may read of frontBlock are free blocks, the last ones before
\* frontBlock; and once it has read a store, it knows the free blocks before it.
FrontBlockInv(pos) ==
    \A j \in 1 .. Len(mem[FrontBlock]) :
        LET d == Len(mem[FrontBlock]) - j
            s == mem[FrontBlock][j]
        IN  /\ d > 0 => s.val \in Ring /\ pos[s.val] = RingSize - d
            /\ RingSize - d > LastUsed(pos)
            /\ \A b \in Ring : pos[TB] < pos[b] /\ pos[b] < RingSize - d =>
                  Settled(mem[FrontOf(b)], s.at)

\* The consumer, once it knows everything before epoch e, reads from history h of
\* tail that a block with front f has an element.
Visible(h, f, e) ==
    \E k \in 1 .. Len(h) : /\ k = 1 \/ h[k].at < e
                           /\ \A i \in k .. Len(h) : h[i].val # f

\* What the consumer may read of tailBlock are the last blocks up to it; and once
\* it has read a store, it knows the blocks before it and sees an element in each
\* up to it.
TailBlockInv(pos) ==
    \A j \in 1 .. Len(mem[TailBlock]) :
        LET s == mem[TailBlock][j]
        IN  /\ s.val \in Ring /\ pos[s.val] = pos[TB] - (Len(mem[TailBlock]) - j)
            /\ \A b \in Ring : pos[b] < pos[s.val] =>
                  Settled(mem[TailOf(b)], s.at) /\ Settled(mem[NextOf(b)], s.at)
            /\ \A b \in Ring : 0 < pos[b] /\ pos[b] <= pos[s.val] =>
                  Visible(mem[TailOf(b)], FrontIx(b), s.at)

\* Behind tailBlock the blocks are empty, and between it and frontBlock none is.
EmptyInv(pos) ==
    \A b \in Ring :
        /\ pos[b] > pos[TB] /\ ~ (pc[P] = "publishBlock" /\ b = call[P].block) =>
              FrontIx(b) = TailIx(b)
        /\ 0 < pos[b] /\ pos[b] <= pos[TB] => FrontIx(b) # TailIx(b)

\* Where the threads are in their calls.
ProducerInv(pos) ==
    /\ Advancing => pos[TB] + 1 < RingSize
    /\ Filling => call[P].block = NextB(TB)
    /\ pc[P] = "link" => call[P].block = allocated /\ NextB(allocated) = NextB(TB)
                         /\ allocated > 1
    /\ pc[P] \in {"write", "publish"} =>
          (TailIx(TB) + 1) % size[TB] # localFront[TB]
    /\ pc[P] = "advance" => mem[FrontBlock][1].at <= seen[P]
    /\ pc[P] \in {"writeNext", "publishNext"} =>
          localFront[call[P].block] = FrontIx(call[P].block)
    /\ pc[P] \in {"link", "publishBlock"} =>
          FrontIx(call[P].block) # TailIx(call[P].block)
    /\ pc[P] = "link" => Len(mem[FrontOf(call[P].block)]) = 1
    /\ pc[P] \in {"count", "follow"} => call[P].block \in Ring

\* The consumer's copy of tail is between front and what it may read of tail.
TailCopied(b) ==
    \A i \in 1 .. Len(mem[TailOf(b)]) :
        Dist(FrontIx(b), localTail[b], size[b])
            <= Dist(FrontIx(b), mem[TailOf(b)][i].val, size[b])

ConsumerInv(pos) ==
    /\ pc[C] \in {"take", "release"} =>
        \/ call[C].block = FB /\ FrontIx(FB) # localTail[FB]
        \/ /\ pc[C] = "take" /\ call[C].op = "peek"
           /\ call[C].block \in Ring /\ pos[call[C].block] = 1 /\ pos[TB] > 0
    /\ Leaving => /\ mem[TailBlock][1].val # FB
                  /\ mem[TailBlock][1].at <= seen[C]
    /\ pc[C] \in {"checkTail", "recheck"} => call[C].block = FB
    /\ pc[C] \in {"readNext", "checkNext", "moveFront"} => FrontIx(FB) = TailIx(FB)
    /\ pc[C] \in {"checkNext", "moveFront"} => call[C].block = NextB(FB)
    /\ pc[C] = "moveFront" => /\ call[C].op # "peek"
                              /\ TailCopied(call[C].block)
                              /\ FrontIx(call[C].block) # localTail[call[C].block]
    /\ pc[C] \in {"count", "follow"} => call[C].block \in Ring

\* The indices of a block, in the order of the buffer: the producer's copy of
\* front, what it may read of front, front, what the consumer may read of tail,
\* and tail.
BlockInv(b) ==
    LET n == size[b]
        h == mem[FrontOf(b)]
        l == mem[TailOf(b)]
    IN  /\ localFront[b] \in 0 .. n - 1 /\ localTail[b] \in 0 .. n - 1
        /\ \A i \in 1 .. Len(h) : h[i].val \in 0 .. n - 1
        /\ \A i \in 1 .. Len(l) : l[i].val \in 0 .. n - 1
        /\ \A i, j \in 1 .. Len(h) : i <= j =>
              Dist(localFront[b], h[i].val, n) <= Dist(localFront[b], h[j].val, n)
        /\ Dist(localFront[b], FrontIx(b), n) + Dist(FrontIx(b), TailIx(b), n) < n
        /\ \A i, j \in 1 .. Len(l) : i <= j =>
              Dist(FrontIx(b), l[i].val, n) <= Dist(FrontIx(b), l[j].val, n)

IndexInv == TailCopied(FB) /\ \A b \in 1 .. allocated : BlockInv(b)

\* A slot holds an element if it is between front and tail, but for the slot that
\* a thread has just filled or emptied.
Occupied(b, i) ==
    \/ /\ Dist(FrontIx(b), i, size[b]) < Dist(FrontIx(b), TailIx(b), size[b])
       /\ ~ (pc[C] = "release" /\ b = FB /\ i = FrontIx(b))
    \/ pc[P] = "publish" /\ b = TB /\ i = TailIx(b)
    \/ pc[P] = "publishNext" /\ b = call[P].block /\ i = TailIx(b)

SlotInv ==
    \A b \in 1 .. allocated :
        /\ DOMAIN slot[b] = 0 .. size[b] - 1
        /\ \A i \in 0 .. size[b] - 1 : /\ DOMAIN slot[b][i] = {"val", "by", "at"}
                                       /\ slot[b][i].val # Empty <=> Occupied(b, i)

PosInv(pos) ==
    /\ RingInv(pos) /\ FrontBlockInv(pos) /\ TailBlockInv(pos) /\ EmptyInv(pos)
    /\ ProducerInv(pos) /\ ConsumerInv(pos)

Inv ==
    /\ MemInv /\ TypeInv /\ IndexInv /\ SlotInv
    /\ \E pos \in [Ring -> 0 .. RingSize - 1] : PosInv(pos)

-------------------------------------------------------------------------------
(***************************************************************************)
(* Powers of two, and the sizes that the constructor computes.               *)
(***************************************************************************)

LEMMA LeastNat ==
  ASSUME NEW T, T \subseteq Nat, T # {}
  PROVE  \E x \in T : \A y \in T : x <= y
  <1>1. \E x \in T : \A y \in T : ~ (<<y, x>> \in OpToRel(<, Nat))
    BY NatLessThanWellFounded, WFMin, Zenon
  <1>2. PICK x \in T : \A y \in T : ~ (<<y, x>> \in OpToRel(<, Nat))
    BY <1>1, Zenon
  <1>3. ASSUME NEW y \in T
        PROVE  x <= y
    <2>1. ~ (<<y, x>> \in OpToRel(<, Nat))
      BY <1>2, Zenon
    <2>2. ~ (y < x)
      BY <2>1 DEF OpToRel
    <2> QED
      BY <2>2
  <1> QED
    BY <1>3

\* 2^k is the number of the subsets of 1 .. k, of which there are k singletons.
LEMMA PowerOfTwo ==
  ASSUME NEW k \in Nat
  PROVE  2 ^ k \in Nat /\ 2 ^ k >= k
  <1>1. IsFiniteSet(1 .. k) /\ Cardinality(1 .. k) = k
    BY FS_Interval
  <1>2. IsFiniteSet(SUBSET (1 .. k)) /\ Cardinality(SUBSET (1 .. k)) = 2 ^ k
    BY <1>1, FS_SUBSET
  <1>3. 2 ^ k \in Nat
    BY <1>2, FS_CardinalityType
  <1> DEFINE f == [i \in 1 .. k |-> {i}]
  <1>4. f \in Injection(1 .. k, SUBSET (1 .. k))
    BY DEF Injection, IsInjective
  <1>5. Cardinality(1 .. k) <= Cardinality(SUBSET (1 .. k))
    BY <1>1, <1>2, <1>4, FS_Injection DEF ExistsInjection
  <1> QED
    BY <1>1, <1>2, <1>3, <1>5

LEMMA Ceil ==
  ASSUME NEW x \in Nat
  PROVE  CeilToPow2(x) \in Nat /\ CeilToPow2(x) >= x
  <1> DEFINE T == {k \in Nat : 2 ^ k >= x}
  <1>1. x \in T
    BY PowerOfTwo
  <1>2. PICK k \in T : \A y \in T : k <= y
    <2>1. T \subseteq Nat /\ T # {}
      BY <1>1
    <2> HIDE DEF T
    <2> QED
      BY <2>1, LeastNat
  <1>3. k \in 0 .. x
    BY <1>1, <1>2
  <1>4. ASSUME NEW j \in 0 .. k - 1
        PROVE  2 ^ j < x
    <2>1. j \in Nat /\ j < k
      BY <1>3
    <2>2. j \notin T
      BY <1>2, <2>1
    <2>3. 2 ^ j \in Nat
      BY <2>1, PowerOfTwo
    <2> QED
      BY <2>1, <2>2, <2>3
  <1> DEFINE Q(i) == 2 ^ i >= x /\ \A j \in 0 .. i - 1 : 2 ^ j < x
  <1>5. \E i \in 0 .. x : Q(i)
    BY <1>2, <1>3, <1>4
  <1>6. PICK i \in 0 .. x : Q(i) /\ CeilToPow2(x) = 2 ^ i
    BY <1>5 DEF CeilToPow2
  <1> QED
    BY <1>6, PowerOfTwo

LEMMA Sizes ==
  /\ MaxBlockSize \in Nat /\ MaxBlockSize >= 2
  /\ InitialSize \in Nat /\ InitialSize >= 2
  /\ InitialBlocks \in Nat /\ InitialBlocks >= 1 /\ InitialBlocks <= MaxBlocks
  /\ MaxBlocks \in Nat
  <1>1. MaxBlockSize \in Nat /\ MaxBlockSize >= 2
    <2>1. PICK k \in 1 .. MaxBlockSize : MaxBlockSize = 2 ^ k
      BY MaxBlockSizeAssumption
    <2>2. CASE k = 1
      BY <2>1, <2>2, MaxBlockSizeAssumption
    <2>3. CASE k # 1
      BY <2>1, <2>3, PowerOfTwo, MaxBlockSizeAssumption
    <2> QED
      BY <2>2, <2>3
  <1>2. InitialSize \in Nat /\ InitialSize >= 2
    <2>1. MaxSize + 1 \in Nat /\ MaxSize + 1 >= 2
      BY MaxSizeAssumption
    <2>2. CeilToPow2(MaxSize + 1) \in Nat /\ CeilToPow2(MaxSize + 1) >= 2
      BY <2>1, Ceil
    <2> QED
      BY <1>1, <2>2 DEF InitialSize
  <1>3. InitialBlocks \in Nat /\ InitialBlocks >= 1
    <2>1. InitialBlockCount \in Nat /\ InitialBlockCount >= 1
      BY <1>1, MaxSizeAssumption DEF InitialBlockCount
    <2> QED
      BY <2>1 DEF InitialBlocks
  <1> QED
    BY <1>1, <1>2, <1>3, MaxBlocksAssumption

-------------------------------------------------------------------------------
(***************************************************************************)
(* Locations, and the steps of the memory.                                  *)
(***************************************************************************)

LEMMA Locs ==
  /\ P # C /\ Threads = {P, C}
  /\ FrontBlock \in Locations /\ TailBlock \in Locations /\ FrontBlock # TailBlock
  /\ \A b \in Blocks :
        FrontOf(b) \in Locations /\ TailOf(b) \in Locations /\ NextOf(b) \in Locations
  /\ \A b :
        /\ FrontOf(b) # FrontBlock /\ FrontOf(b) # TailBlock
        /\ TailOf(b) # FrontBlock /\ TailOf(b) # TailBlock
        /\ NextOf(b) # FrontBlock /\ NextOf(b) # TailBlock
  /\ \A b, c :
        /\ FrontOf(b) # TailOf(c) /\ FrontOf(b) # NextOf(c) /\ TailOf(b) # NextOf(c)
        /\ TailOf(b) # FrontOf(c) /\ NextOf(b) # FrontOf(c) /\ NextOf(b) # TailOf(c)
        /\ (FrontOf(b) = FrontOf(c) => b = c)
        /\ (TailOf(b) = TailOf(c) => b = c)
        /\ (NextOf(b) = NextOf(c) => b = c)
  BY DEF P, C, Threads, FrontBlock, TailBlock, FrontOf, TailOf, NextOf, Locations

LEMMA Owners ==
  /\ Owner(FrontBlock) = C /\ Reader(FrontBlock) = P
  /\ Owner(TailBlock) = P /\ Reader(TailBlock) = C
  /\ \A b : /\ Owner(FrontOf(b)) = C /\ Reader(FrontOf(b)) = P
            /\ Owner(TailOf(b)) = P /\ Reader(TailOf(b)) = C
            /\ Owner(NextOf(b)) = P /\ Reader(NextOf(b)) = C
  /\ \A loc : Owner(loc) \in Threads /\ Reader(loc) \in Threads
              /\ Owner(loc) # Reader(loc)
  BY DEF Owner, Reader, P, C, Threads, FrontBlock, TailBlock, FrontOf, TailOf, NextOf

\* A step that stores nothing: of every location the newest stores remain.
Trim ==
  /\ mem' \in [Locations -> Seq(Stores)]
  /\ \A loc \in Locations :
        /\ Len(mem'[loc]) \in 1 .. Len(mem[loc])
        /\ \A j \in 1 .. Len(mem'[loc]) :
              mem'[loc][j] = mem[loc][j + (Len(mem[loc]) - Len(mem'[loc]))]

LEMMA History ==
  ASSUME MemInv, NEW loc \in Locations
  PROVE  /\ mem[loc] \in Seq(Stores) /\ mem[loc] # <<>>
         /\ Len(mem[loc]) \in Nat /\ Len(mem[loc]) >= 1
         /\ \A i \in 1 .. Len(mem[loc]) : /\ mem[loc][i] \in Stores
                                          /\ mem[loc][i].val \in Nat
                                          /\ mem[loc][i].at \in Nat
         /\ Newest(loc) = mem[loc][Len(mem[loc])].val
         /\ Newest(loc) \in Nat
         /\ DOMAIN mem[loc] = 1 .. Len(mem[loc])
  <1>1. mem[loc] \in Seq(Stores) /\ mem[loc] # <<>>
    BY DEF MemInv
  <1>2. Len(mem[loc]) \in Nat /\ Len(mem[loc]) >= 1 /\ DOMAIN mem[loc] = 1 .. Len(mem[loc])
    BY <1>1, EmptySeq, LenProperties
  <1>3. \A i \in 1 .. Len(mem[loc]) : mem[loc][i] \in Stores
    BY <1>1, ElementOfSeq
  <1>4. \A i \in 1 .. Len(mem[loc]) : mem[loc][i].val \in Nat /\ mem[loc][i].at \in Nat
    BY <1>3 DEF Stores
  <1> QED
    BY <1>1, <1>2, <1>3, <1>4 DEF Newest

LEMMA CutSeq ==
  ASSUME NEW S, NEW s \in Seq(S), NEW k \in 1 .. Len(s)
  PROVE  LET t == SubSeq(s, k, Len(s)) IN
         /\ t \in Seq(S) /\ Len(t) = Len(s) - k + 1 /\ Len(t) \in 1 .. Len(s)
         /\ \A j \in 1 .. Len(t) : t[j] = s[j + (Len(s) - Len(t))]
         /\ \A j \in 1 .. Len(t) : t[j] = s[j + k - 1]
  <1> DEFINE t == SubSeq(s, k, Len(s))
  <1>1. Len(s) \in Nat /\ k \in Nat /\ k >= 1 /\ k <= Len(s)
    BY LenProperties
  <1>2. \A i \in k .. Len(s) : s[i] \in S
    BY <1>1, ElementOfSeq
  <1>3. /\ t \in Seq(S)
        /\ Len(t) = IF k <= Len(s) THEN Len(s) - k + 1 ELSE 0
        /\ \A i \in 1 .. Len(s) - k + 1 : t[i] = s[k + i - 1]
    BY <1>1, <1>2, SubSeqProperties
  <1> HIDE DEF t
  <1>4. Len(t) = Len(s) - k + 1 /\ Len(t) \in 1 .. Len(s)
    BY <1>1, <1>3
  <1>5. ASSUME NEW j \in 1 .. Len(t)
        PROVE  t[j] = s[j + (Len(s) - Len(t))] /\ t[j] = s[j + k - 1]
    <2>1. j + (Len(s) - Len(t)) = k + j - 1 /\ j + k - 1 = k + j - 1
      BY <1>1, <1>4
    <2> QED
      BY <2>1, <1>1, <1>3, <1>4
  <1> QED
    BY <1>3, <1>4, <1>5 DEF t

\* Since keeps the newest store of an epoch before e, and those after it.
LEMMA SinceCuts ==
  ASSUME NEW h \in Seq(Stores), h # <<>>, NEW e \in Nat
  PROVE  LET t == Since(h, e) IN
         /\ t \in Seq(Stores) /\ Len(t) \in 1 .. Len(h)
         /\ \A j \in 1 .. Len(t) : t[j] = h[j + (Len(h) - Len(t))]
         /\ Len(t) = Len(h) \/ t[1].at < e
         /\ \A i \in 1 .. Len(h) : h[i].at < e => i <= Len(h) - Len(t) + 1
  <1> DEFINE old == {i \in DOMAIN h : h[i].at < e}
             t == Since(h, e)
  <1>1. Len(h) \in Nat /\ Len(h) >= 1 /\ DOMAIN h = 1 .. Len(h)
    BY EmptySeq, LenProperties
  <1>2. CASE old = {}
    <2>1. t = h
      BY <1>2 DEF Since
    <2> HIDE DEF t
    <2> QED
      BY <2>1, <1>1, <1>2 DEF t
  <1>3. CASE old # {}
    <2>1. IsFiniteSet(old)
      <3>1. IsFiniteSet(1 .. Len(h))
        BY <1>1, FS_Interval
      <3> QED
        BY <3>1, <1>1, FS_Subset
    <2>2. \E k \in old : \A j \in old : j <= k
      <3> DEFINE T == {Len(h) - i : i \in old}
      <3>1. T \subseteq Nat /\ T # {}
        BY <1>1, <1>3
      <3> HIDE DEF T
      <3>2. PICK x \in T : \A y \in T : x <= y
        BY <3>1, LeastNat
      <3>3. PICK k \in old : x = Len(h) - k
        BY <3>2 DEF T
      <3>4. ASSUME NEW j \in old
            PROVE  j <= k
        <4>1. Len(h) - j \in T
          BY DEF T
        <4>2. x <= Len(h) - j
          BY <4>1, <3>2
        <4> QED
          BY <4>2, <3>3, <1>1
      <3> QED
        BY <3>4
    <2> DEFINE k == CHOOSE i \in old : \A j \in old : j <= i
    <2>3. k \in old /\ \A j \in old : j <= k
      BY <2>2
    <2>4. t = SubSeq(h, k, Len(h))
      BY <1>3 DEF Since
    <2> HIDE DEF k, t
    <2>5. k \in 1 .. Len(h) /\ h[k].at < e
      BY <2>3, <1>1
    <2>6. /\ t \in Seq(Stores) /\ Len(t) = Len(h) - k + 1 /\ Len(t) \in 1 .. Len(h)
          /\ \A j \in 1 .. Len(t) : t[j] = h[j + (Len(h) - Len(t))]
      BY <2>4, <2>5, CutSeq
    <2>7. 1 + (Len(h) - Len(t)) = k /\ Len(h) - Len(t) + 1 = k
      BY <2>5, <2>6, <1>1
    <2>8. t[1].at < e
      BY <2>5, <2>6, <2>7, <1>1
    <2>9. \A i \in 1 .. Len(h) : h[i].at < e => i <= Len(h) - Len(t) + 1
      BY <2>3, <2>7, <1>1
    <2> QED
      BY <2>6, <2>8, <2>9 DEF t
  <1> QED
    BY <1>2, <1>3

\* A step of thread t that stores nothing.
Looks(t) ==
  /\ MemInv' /\ Trim /\ epoch' = epoch
  /\ seen'[t] >= seen[t] /\ \A u \in Threads : u # t => seen'[u] = seen[u]
  /\ \A loc \in Locations : Owner(loc) = t => mem'[loc] = mem[loc]

\* Of the other thread's stores to loc, t can now read those it could before, or
\* none that it does not know.
Refreshed(t, loc) == mem'[loc] = mem[loc] \/ mem'[loc][1].at < seen'[t]

\* m is a memory that a thread t leaves itself to read.
LeftToRead(t, m) ==
  /\ m \in [Locations -> Seq(Stores)]
  /\ \A loc \in Locations :
        /\ Owner(loc) = t => m[loc] = mem[loc]
        /\ Len(m[loc]) \in 1 .. Len(mem[loc])
        /\ \A j \in 1 .. Len(m[loc]) : m[loc][j] = mem[loc][j + (Len(mem[loc]) - Len(m[loc]))]

\* Thread t, which has left itself m to read, now knows everything before epoch e.
Knows(t, e, m) ==
  \A loc \in Locations : Owner(loc) # t =>
      /\ Len(mem'[loc]) <= Len(m[loc])
      /\ mem'[loc] = m[loc] \/ mem'[loc][1].at < e

LEMMA Shift ==
  ASSUME NEW n \in Nat, NEW m, m \in 1 .. n, NEW j \in 1 .. m
  PROVE  j + (n - m) \in 1 .. n /\ j + (n - m) >= j
  OBVIOUS

LEMMA ShiftTwice ==
  ASSUME NEW n \in Nat, NEW m \in 1 .. n, NEW k \in 1 .. m, NEW j \in 1 .. k
  PROVE  (j + (m - k)) + (n - m) = j + (n - k)
  OBVIOUS

LEMMA ObserveLooks ==
  ASSUME MemInv, NEW t \in Threads, NEW u \in Threads, u # t,
         NEW a \in Nat, a <= epoch[u],
         NEW e \in Nat, e <= epoch[u], e >= seen[t],
         NEW m, LeftToRead(t, m), Observe(t, a, e, m)
  PROVE  Looks(t) /\ seen'[t] = e /\ Knows(t, e, m)
  <1>0. /\ m \in [Locations -> Seq(Stores)]
        /\ \A loc \in Locations :
            /\ Owner(loc) = t => m[loc] = mem[loc]
            /\ Len(m[loc]) \in 1 .. Len(mem[loc])
            /\ \A j \in 1 .. Len(m[loc]) : m[loc][j] = mem[loc][j + (Len(mem[loc]) - Len(m[loc]))]
    BY DEF LeftToRead
  <1>1. /\ acq' = [acq EXCEPT ![t] = a] /\ seen' = [seen EXCEPT ![t] = e] /\ epoch' = epoch
        /\ mem' = [loc \in Locations |-> IF Owner(loc) = t THEN m[loc] ELSE Since(m[loc], e)]
    BY DEF Observe
  <1>2. epoch \in [Threads -> Nat] /\ acq \in [Threads -> Nat] /\ seen \in [Threads -> Nat]
    BY DEF MemInv
  <1>3. ASSUME NEW loc \in Locations, Owner(loc) # t
        PROVE  /\ mem'[loc] \in Seq(Stores) /\ Len(mem'[loc]) \in 1 .. Len(m[loc])
               /\ \A j \in 1 .. Len(mem'[loc]) : mem'[loc][j] = m[loc][j + (Len(m[loc]) - Len(mem'[loc]))]
               /\ mem'[loc] = m[loc] \/ mem'[loc][1].at < e
               /\ \A i \in 2 .. Len(mem'[loc]) : mem'[loc][i].at >= e
    <2>1. mem'[loc] = Since(m[loc], e)
      BY <1>1, <1>3
    <2>2. m[loc] \in Seq(Stores) /\ m[loc] # <<>> /\ Len(m[loc]) \in Nat
      BY <1>0, EmptySeq, LenProperties
    <2> DEFINE h == m[loc]
               s == mem'[loc]
    <2>a. h \in Seq(Stores) /\ h # <<>> /\ s = Since(h, e)
      BY <2>1, <2>2
    <2>4. h \in Seq(Stores) /\ Len(h) \in Nat
      BY <2>2
    <2> HIDE DEF h, s
    <2>3. /\ s \in Seq(Stores) /\ Len(s) \in 1 .. Len(h)
          /\ \A j \in 1 .. Len(s) : s[j] = h[j + (Len(h) - Len(s))]
          /\ Len(s) = Len(h) \/ s[1].at < e
          /\ \A i \in 1 .. Len(h) : h[i].at < e => i <= Len(h) - Len(s) + 1
      BY <2>a, SinceCuts
    <2>5. Len(s) = Len(h) => s = h
      <3> SUFFICES ASSUME Len(s) = Len(h) PROVE s = h
        OBVIOUS
      <3>1. \A j \in 1 .. Len(s) : s[j] = h[j]
        BY <2>3, <2>4
      <3> QED
        BY <3>1, <2>3, <2>4, SeqEqual
    <2>6. ASSUME NEW i \in 2 .. Len(s)
          PROVE  s[i].at >= e
      <3>1. i + (Len(h) - Len(s)) \in 1 .. Len(h) /\ i + (Len(h) - Len(s)) > Len(h) - Len(s) + 1
        BY <2>3, <2>4
      <3>2. s[i] = h[i + (Len(h) - Len(s))]
        BY <2>3
      <3> DEFINE k == i + (Len(h) - Len(s))
      <3>3. k \in 1 .. Len(h) /\ ~ (k <= Len(h) - Len(s) + 1)
        BY <3>1, <2>3, <2>4
      <3> HIDE DEF k
      <3>4. h[k] \in Stores
        BY <3>3, <2>4, ElementOfSeq
      <3>5. h[k].at \in Nat
        BY <3>4 DEF Stores
      <3>6. ~ (h[k].at < e)
        BY <3>3, <2>3
      <3> QED
        BY <3>2, <3>5, <3>6 DEF k
    <2> QED
      BY <2>3, <2>5, <2>6 DEF h, s
  <1>4. ASSUME NEW loc \in Locations
        PROVE  /\ mem'[loc] \in Seq(Stores) /\ Len(mem'[loc]) \in 1 .. Len(mem[loc])
               /\ \A j \in 1 .. Len(mem'[loc]) :
                     mem'[loc][j] = mem[loc][j + (Len(mem[loc]) - Len(mem'[loc]))]
               /\ (Owner(loc) = t => mem'[loc] = mem[loc])
    <2>0. Len(mem[loc]) \in Nat /\ Len(m[loc]) \in 1 .. Len(mem[loc])
      BY <1>0, History
    <2>1. CASE Owner(loc) = t
      BY <2>1, <1>0, <1>1, History
    <2>2. CASE Owner(loc) # t
      <3>0. Len(mem'[loc]) \in 1 .. Len(m[loc])
        BY <1>3, <2>2
      <3>1. ASSUME NEW j \in 1 .. Len(mem'[loc])
            PROVE  mem'[loc][j] = mem[loc][j + (Len(mem[loc]) - Len(mem'[loc]))]
        <4>0. Len(m[loc]) \in Nat
          BY <2>0
        <4>1. j + (Len(m[loc]) - Len(mem'[loc])) \in 1 .. Len(m[loc])
          BY <3>0, <4>0, Shift
        <4>2. (j + (Len(m[loc]) - Len(mem'[loc]))) + (Len(mem[loc]) - Len(m[loc]))
                = j + (Len(mem[loc]) - Len(mem'[loc]))
          BY <3>0, <2>0, ShiftTwice
        <4>3. mem'[loc][j] = m[loc][j + (Len(m[loc]) - Len(mem'[loc]))]
          BY <1>3, <2>2
        <4> QED
          BY <1>0, <4>1, <4>2, <4>3
      <3>2. Len(mem'[loc]) \in 1 .. Len(mem[loc])
        BY <3>0, <2>0
      <3>3. mem'[loc] \in Seq(Stores)
        BY <1>3, <2>2
      <3> QED
        BY <3>1, <3>2, <3>3, <2>2
    <2> QED
      BY <2>1, <2>2
  <1>5. Trim
    <2>1. mem' \in [Locations -> Seq(Stores)]
      BY <1>1, <1>4
    <2> QED
      BY <2>1, <1>4 DEF Trim
  <1>6. seen'[t] = e /\ acq'[t] = a /\ seen'[u] = seen[u] /\ acq'[u] = acq[u]
    BY <1>1, <1>2
  <1>7. MemInv'
    <2>1. epoch' \in [Threads -> Nat] /\ acq' \in [Threads -> Nat] /\ seen' \in [Threads -> Nat]
      BY <1>1, <1>2
    <2>2. /\ acq'[P] <= epoch'[C] /\ seen'[P] <= epoch'[C]
          /\ acq'[C] <= epoch'[P] /\ seen'[C] <= epoch'[P]
      BY <1>1, <1>6, Locs DEF MemInv
    <2>3. ASSUME NEW loc \in Locations
          PROVE  /\ mem'[loc] # <<>>
                 /\ (~ Relaxed => Len(mem'[loc]) = 1)
                 /\ \A i \in 1 .. Len(mem'[loc]) : mem'[loc][i].at <= epoch'[Owner(loc)]
                 /\ \A i \in 2 .. Len(mem'[loc]) : mem'[loc][i].at >= seen'[Reader(loc)]
      <3>0. Len(mem'[loc]) \in 1 .. Len(mem[loc]) /\ Len(mem[loc]) \in Nat
        BY <1>4, History
      <3>1. mem'[loc] # <<>>
        BY <3>0, EmptySeq
      <3>2. ~ Relaxed => Len(mem'[loc]) = 1
        <4> SUFFICES ASSUME ~ Relaxed PROVE Len(mem'[loc]) = 1
          OBVIOUS
        <4>1. Len(mem[loc]) = 1
          BY DEF MemInv
        <4>2. Len(mem'[loc]) \in 1 .. 1
          BY <4>1, <3>0
        <4> QED
          BY <4>2
      <3>3. ASSUME NEW i \in 1 .. Len(mem'[loc])
            PROVE  mem'[loc][i].at <= epoch'[Owner(loc)]
        <4>1. i + (Len(mem[loc]) - Len(mem'[loc])) \in 1 .. Len(mem[loc])
          BY <3>0, Shift
        <4> QED
          BY <4>1, <1>1, <1>4 DEF MemInv
      <3>4. ASSUME NEW i \in 2 .. Len(mem'[loc])
            PROVE  mem'[loc][i].at >= seen'[Reader(loc)]
        <4>1. CASE Owner(loc) = t
          <5>1. Reader(loc) = u
            BY <4>1, Owners, Locs
          <5> QED
            BY <5>1, <4>1, <1>4, <1>6 DEF MemInv
        <4>2. CASE Owner(loc) # t
          <5>1. Reader(loc) = t
            BY <4>2, Owners, Locs
          <5> QED
            BY <5>1, <4>2, <1>3, <1>6
        <4> QED
          BY <4>1, <4>2
      <3> QED
        BY <3>1, <3>2, <3>3, <3>4
    <2> QED
      BY <2>1, <2>2, <2>3, <1>1, <1>4 DEF MemInv
  <1>8. Looks(t)
    BY <1>1, <1>2, <1>4, <1>5, <1>6, <1>7 DEF Looks
  <1>9. Knows(t, e, m)
    <2> SUFFICES ASSUME NEW loc \in Locations, Owner(loc) # t
                 PROVE  /\ Len(mem'[loc]) <= Len(m[loc])
                        /\ mem'[loc] = m[loc] \/ mem'[loc][1].at < e
      BY DEF Knows
    <2>1. Len(mem'[loc]) \in 1 .. Len(m[loc]) /\ (mem'[loc] = m[loc] \/ mem'[loc][1].at < e)
      BY <1>3
    <2>2. Len(m[loc]) \in Nat
      BY <1>0, LenProperties
    <2> QED
      BY <2>1, <2>2
  <1> QED
    BY <1>6, <1>8, <1>9

LEMMA FenceLooks ==
  ASSUME MemInv, NEW t \in Threads, Fence(t)
  PROVE  Looks(t) /\ \A l \in Locations : Refreshed(t, l)
  <1> DEFINE a == acq[t]
             e == AcquireFence(t, a)
  <1>1. PICK u \in Threads : u # t
    BY Locs
  <1>2. /\ a \in Nat /\ a <= epoch[u] /\ e \in Nat /\ e <= epoch[u] /\ e >= seen[t]
    BY <1>1, Locs DEF MemInv, AcquireFence, Larger
  <1>3. Observe(t, a, e, mem)
    BY DEF Fence
  <1> HIDE DEF a, e
  <1>4. LeftToRead(t, mem)
    BY History DEF MemInv, LeftToRead
  <1>5. Looks(t) /\ seen'[t] = e /\ Knows(t, e, mem)
    BY <1>1, <1>2, <1>3, <1>4, ObserveLooks
  <1> QED
    BY <1>5 DEF Refreshed, Looks, Knows

LEMMA LoadLooks ==
  ASSUME MemInv, NEW t \in Threads, NEW loc \in Locations, Owner(loc) # t,
         NEW i \in DOMAIN mem[loc], NEW fenced \in BOOLEAN, Load(t, loc, i, fenced)
  PROVE  /\ Looks(t) /\ i \in 1 .. Len(mem[loc])
         /\ Len(mem'[loc]) <= Len(mem[loc]) - i + 1
         /\ \A l \in Locations : l = loc \/ Refreshed(t, l)
         /\ fenced => mem[loc][i].at <= seen'[t] /\ mem'[loc][1].at <= seen'[t]
  <1> DEFINE a == Larger(acq[t], mem[loc][i].at)
             e == IF fenced THEN AcquireFence(t, a) ELSE seen[t]
             m == [mem EXCEPT ![loc] = SubSeq(@, i, Len(@))]
  <1>1. PICK u \in Threads : u # t
    BY Locs
  <1>2. Owner(loc) = u
    BY <1>1, Owners, Locs
  <1>3. i \in 1 .. Len(mem[loc]) /\ mem[loc][i].at \in Nat /\ mem[loc][i].at <= epoch[u]
    BY <1>2, History DEF MemInv
  <1>4. a \in Nat /\ a <= epoch[u] /\ a >= mem[loc][i].at
    BY <1>1, <1>3, Locs DEF MemInv, Larger
  <1>5. /\ e \in Nat /\ e <= epoch[u] /\ e >= seen[t] /\ (fenced => e >= mem[loc][i].at)
    BY <1>1, <1>3, <1>4, Locs DEF MemInv, AcquireFence, Larger
  <1>6. Observe(t, a, e, m)
    BY DEF Load
  <1>7. \A l \in Locations : l # loc => m[l] = mem[l]
    BY DEF MemInv
  <1>8. m[loc] = SubSeq(mem[loc], i, Len(mem[loc])) /\ DOMAIN m = Locations
        /\ m = [l \in Locations |-> m[l]]
    BY DEF MemInv
  <1> HIDE DEF a, e, m
  <1>9. /\ m[loc] \in Seq(Stores) /\ Len(m[loc]) = Len(mem[loc]) - i + 1
        /\ Len(m[loc]) \in 1 .. Len(mem[loc])
        /\ \A j \in 1 .. Len(m[loc]) : m[loc][j] = mem[loc][j + (Len(mem[loc]) - Len(m[loc]))]
        /\ m[loc][1] = mem[loc][i]
    <2>1. mem[loc] \in Seq(Stores)
      BY History
    <2> DEFINE s == mem[loc]
               r == SubSeq(s, i, Len(s))
    <2>2. /\ r \in Seq(Stores) /\ Len(r) = Len(s) - i + 1 /\ Len(r) \in 1 .. Len(s)
          /\ \A j \in 1 .. Len(r) : r[j] = s[j + (Len(s) - Len(r))]
          /\ \A j \in 1 .. Len(r) : r[j] = s[j + i - 1]
      BY <2>1, <1>3, CutSeq
    <2>3. r[1] = s[1 + i - 1] /\ 1 + i - 1 = i
      BY <2>2, <1>3
    <2>4. m[loc] = r
      BY <1>8
    <2> HIDE DEF r
    <2> QED
      BY <2>2, <2>3, <2>4
  <1>10. LeftToRead(t, m)
    <2>1. ASSUME NEW l \in Locations
          PROVE  /\ m[l] \in Seq(Stores)
                 /\ (Owner(l) = t => m[l] = mem[l])
                 /\ Len(m[l]) \in 1 .. Len(mem[l])
                 /\ \A j \in 1 .. Len(m[l]) : m[l][j] = mem[l][j + (Len(mem[l]) - Len(m[l]))]
      <3>1. CASE l = loc
        BY <3>1, <1>9
      <3>2. CASE l # loc
        <4>1. m[l] = mem[l]
          BY <3>2, <1>7
        <4>2. mem[l] \in Seq(Stores) /\ Len(mem[l]) \in Nat /\ Len(mem[l]) >= 1
          BY History
        <4> HIDE <1>7, <1>9
        <4> QED
          BY <4>1, <4>2
      <3> QED
        BY <3>1, <3>2
    <2> QED
      BY <2>1, <1>8 DEF LeftToRead
  <1>11. Looks(t) /\ seen'[t] = e /\ Knows(t, e, m)
    BY <1>1, <1>4, <1>5, <1>6, <1>10, ObserveLooks
  <1>12. \A l \in Locations : l = loc \/ Refreshed(t, l)
    BY <1>7, <1>11 DEF Refreshed, Looks, Knows
  <1>13. Len(mem'[loc]) <= Len(mem[loc]) - i + 1
    BY <1>9, <1>11 DEF Knows
  <1>14. ASSUME fenced
         PROVE  mem[loc][i].at <= seen'[t] /\ mem'[loc][1].at <= seen'[t]
    <2>1. mem[loc][i].at <= seen'[t]
      BY <1>5, <1>11, <1>14
    <2>2. mem'[loc] = m[loc] \/ mem'[loc][1].at < e
      BY <1>11 DEF Knows
    <2>3. Len(mem'[loc]) \in 1 .. Len(mem[loc]) /\ mem'[loc] \in Seq(Stores)
      BY <1>11 DEF Looks, Trim
    <2>4. mem'[loc][1] \in Stores
      BY <2>3, ElementOfSeq, History
    <2>5. mem'[loc][1].at \in Nat
      BY <2>4 DEF Stores
    <2> QED
      <3>1. CASE mem'[loc] = m[loc]
        BY <2>1, <3>1, <1>9
      <3>2. CASE mem'[loc][1].at < e
        BY <1>5, <1>11, <2>1, <2>5, <3>2
      <3> QED
        BY <2>2, <3>1, <3>2
  <1> QED
    BY <1>3, <1>11, <1>12, <1>13, <1>14

\* The history of loc has a new store, of value v, in a memory that keeps the
\* others or has only one.
Grown(loc, v) ==
  /\ Newest(loc)' = v
  /\ \/ /\ Len(mem'[loc]) = Len(mem[loc]) + 1
        /\ \A j \in 1 .. Len(mem[loc]) : mem'[loc][j] = mem[loc][j]
     \/ Len(mem'[loc]) = 1 /\ mem'[loc][1].at = 0

Stored(loc, v) ==
  /\ MemInv' /\ seen' = seen
  /\ \A l \in Locations : l # loc => mem'[l] = mem[l]
  /\ Grown(loc, v)

\* Who reads the store finds nothing older in what the thread stored before.
Released(t, loc) ==
  \A l \in Locations :
      l # loc /\ Owner(l) = t => Settled(mem[l], mem'[loc][Len(mem'[loc])].at)

\* The history h with a store of v in epoch e.
IsPut(g, h, v, e) ==
  /\ g \in Seq(Stores) /\ g # <<>> /\ Len(g) \in Nat /\ Len(g) >= 1
  /\ g[Len(g)].val = v
  /\ Relaxed => /\ Len(g) = Len(h) + 1 /\ g[Len(g)].at = e
                /\ \A j \in 1 .. Len(h) : g[j] = h[j]
  /\ ~ Relaxed => Len(g) = 1 /\ g[1].at = 0

LEMMA PutGrows ==
  ASSUME NEW h \in Seq(Stores), h # <<>>, NEW v \in Nat, NEW e \in Nat
  PROVE  IsPut(Put(h, v, e), h, v, e)
  <1> DEFINE x == [val |-> v, at |-> e]
             y == [val |-> v, at |-> 0]
             g == Put(h, v, e)
  <1>1. x \in Stores /\ y \in Stores /\ x.val = v /\ x.at = e /\ y.val = v /\ y.at = 0
    BY DEF Stores
  <1>2. CASE Relaxed
    <2>1. g = Append(h, x)
      BY <1>2 DEF Put
    <2> HIDE DEF x, y, g
    <2>2. Len(h) \in Nat
      BY LenProperties
    <2>3. /\ g \in Seq(Stores) /\ g # <<>> /\ Len(g) = Len(h) + 1
          /\ \A i \in 1 .. Len(h) : g[i] = h[i]
          /\ g[Len(h) + 1] = x
      BY <1>1, <2>1, AppendProperties, EmptySeq
    <2>4. Len(g) \in Nat /\ Len(g) >= 1 /\ g[Len(g)] = x
      BY <2>2, <2>3
    <2> QED
      BY <1>1, <1>2, <2>3, <2>4 DEF g, IsPut
  <1>3. CASE ~ Relaxed
    <2>1. g = <<y>>
      BY <1>3 DEF Put
    <2> HIDE DEF x, y, g
    <2>2. g \in Seq(Stores) /\ g # <<>> /\ Len(g) = 1 /\ g[1] = y
      BY <1>1, <2>1, EmptySeq
    <2> QED
      BY <1>1, <1>3, <2>2 DEF g, IsPut
  <1> QED
    BY <1>2, <1>3

\* Some locations of one thread are stored to, in epoch e.
PutAll(t, S, v, e) ==
  /\ S \subseteq Locations /\ \A l \in S : Owner(l) = t /\ v[l] \in Nat
  /\ e \in Nat /\ e >= epoch[t]
  /\ epoch' \in [Threads -> Nat] /\ epoch'[t] >= e
  /\ \A u \in Threads : epoch'[u] >= epoch[u]
  /\ mem' = [l \in Locations |-> IF l \in S THEN Put(mem[l], v[l], e) ELSE mem[l]]
  /\ UNCHANGED <<acq, seen>>

LEMMA PutAllStores ==
  ASSUME MemInv, NEW t \in Threads, NEW S, NEW v, NEW e, PutAll(t, S, v, e)
  PROVE  /\ MemInv' /\ seen' = seen
         /\ \A l \in Locations : l \notin S => mem'[l] = mem[l]
         /\ \A l \in S : /\ Grown(l, v[l])
                         /\ Relaxed => mem'[l][Len(mem'[l])].at = e
  <1>1. ASSUME NEW l \in S
        PROVE  IsPut(mem'[l], mem[l], v[l], e)
    <2>1. l \in Locations /\ v[l] \in Nat /\ e \in Nat /\ mem'[l] = Put(mem[l], v[l], e)
      BY DEF PutAll
    <2>2. mem[l] \in Seq(Stores) /\ mem[l] # <<>>
      BY <2>1, History
    <2> QED
      BY <2>1, <2>2, PutGrows
  <1>2. \A l \in Locations : l \notin S => mem'[l] = mem[l]
    BY DEF PutAll
  <1>3. ASSUME NEW l \in S
        PROVE  Grown(l, v[l]) /\ (Relaxed => mem'[l][Len(mem'[l])].at = e)
    BY <1>1 DEF IsPut, Grown, Newest
  <1>4. MemInv'
    <2>1. mem' \in [Locations -> Seq(Stores)]
      BY <1>1 DEF IsPut, PutAll, MemInv
    <2>2. /\ epoch' \in [Threads -> Nat] /\ acq' = acq /\ seen' = seen
          /\ \A u \in Threads : epoch'[u] >= epoch[u]
          /\ e \in Nat /\ e >= epoch[t] /\ epoch'[t] >= e
      BY DEF PutAll
    <2>3. /\ acq \in [Threads -> Nat] /\ seen \in [Threads -> Nat] /\ epoch \in [Threads -> Nat]
          /\ acq[P] <= epoch[C] /\ seen[P] <= epoch[C]
          /\ acq[C] <= epoch[P] /\ seen[C] <= epoch[P]
      BY DEF MemInv
    <2>4. /\ acq'[P] <= epoch'[C] /\ seen'[P] <= epoch'[C]
          /\ acq'[C] <= epoch'[P] /\ seen'[C] <= epoch'[P]
      BY <2>2, <2>3, Locs
    <2>5. ASSUME NEW l \in Locations
          PROVE  /\ mem'[l] # <<>>
                 /\ (~ Relaxed => Len(mem'[l]) = 1)
                 /\ \A i \in 1 .. Len(mem'[l]) : mem'[l][i].at <= epoch'[Owner(l)]
                 /\ \A i \in 2 .. Len(mem'[l]) : mem'[l][i].at >= seen'[Reader(l)]
      <3>0. Owner(l) \in Threads /\ Reader(l) \in Threads /\ Owner(l) # Reader(l)
        BY Owners
      <3>1. CASE l \notin S
        <4>1. mem'[l] = mem[l]
          BY <1>2, <3>1
        <4>2. \A i \in 1 .. Len(mem[l]) : mem[l][i].at <= epoch'[Owner(l)]
          <5> SUFFICES ASSUME NEW i \in 1 .. Len(mem[l])
                       PROVE  mem[l][i].at <= epoch'[Owner(l)]
            OBVIOUS
          <5>1. mem[l][i].at <= epoch[Owner(l)]
            BY DEF MemInv
          <5>2. mem[l][i].at \in Nat
            BY History
          <5>3. epoch[Owner(l)] \in Nat /\ epoch'[Owner(l)] \in Nat
                /\ epoch'[Owner(l)] >= epoch[Owner(l)]
            BY <3>0, <2>2, <2>3
          <5> QED
            BY <5>1, <5>2, <5>3
        <4> QED
          BY <4>1, <4>2, <2>2 DEF MemInv
      <3>2. CASE l \in S
        <4>1. Owner(l) = t /\ seen[Reader(l)] <= epoch[t] /\ seen[Reader(l)] \in Nat
              /\ epoch[t] \in Nat /\ epoch'[t] \in Nat
          BY <3>0, <3>2, <2>2, <2>3, Locs DEF PutAll
        <4>2. CASE Relaxed
          <5> DEFINE g == mem'[l]
                     h == mem[l]
          <5>1. /\ g # <<>> /\ Len(g) = Len(h) + 1 /\ g[Len(g)].at = e
                /\ \A j \in 1 .. Len(h) : g[j] = h[j]
            BY <1>1, <3>2, <4>2 DEF IsPut
          <5>2. Len(h) \in Nat /\ \A i \in 1 .. Len(h) : h[i].at \in Nat
            BY History
          <5>3. /\ \A i \in 1 .. Len(h) : h[i].at <= epoch[t]
                /\ \A i \in 2 .. Len(h) : h[i].at >= seen[Reader(l)]
            BY <4>1 DEF MemInv
          <5> HIDE DEF g, h
          <5>4. ASSUME NEW i \in 1 .. Len(g)
                PROVE  g[i].at <= epoch'[t] /\ (i >= 2 => g[i].at >= seen[Reader(l)])
            <6>1. CASE i = Len(g)
              BY <6>1, <5>1, <4>1, <2>2
            <6>2. CASE i # Len(g)
              <7>1. i \in 1 .. Len(h) /\ g[i] = h[i]
                BY <6>2, <5>1, <5>2
              <7> QED
                BY <7>1, <5>2, <5>3, <4>1, <2>2
            <6> QED
              BY <6>1, <6>2
          <5>5. \A i \in 2 .. Len(g) : i \in 1 .. Len(g) /\ i >= 2
            BY <5>1, <5>2
          <5> QED
            BY <4>1, <4>2, <5>1, <5>4, <5>5, <2>2 DEF g
        <4>3. CASE ~ Relaxed
          <5>1. mem'[l] # <<>> /\ Len(mem'[l]) = 1 /\ mem'[l][1].at = 0
            BY <1>1, <3>2, <4>3 DEF IsPut
          <5> QED
            BY <4>1, <5>1
        <4> QED
          BY <4>2, <4>3
      <3> QED
        BY <3>1, <3>2
    <2> QED
      BY <2>1, <2>2, <2>3, <2>4, <2>5 DEF MemInv
  <1> QED
    BY <1>2, <1>3, <1>4 DEF PutAll

LEMMA StoreStores ==
  ASSUME MemInv, NEW t \in Threads, NEW loc \in Locations, Owner(loc) = t,
         NEW v \in Nat, Store(t, loc, v)
  PROVE  Stored(loc, v)
  <1> DEFINE S == {loc}
             w == [l \in S |-> v]
  <1>1. mem' = [l \in Locations |-> IF l \in S THEN Put(mem[l], w[l], epoch[t]) ELSE mem[l]]
    BY DEF Store, MemInv
  <1>2. PutAll(t, S, w, epoch[t])
    <2>1. S \subseteq Locations /\ \A l \in S : Owner(l) = t /\ w[l] \in Nat
      OBVIOUS
    <2>2. epoch \in [Threads -> Nat] /\ epoch' = epoch /\ UNCHANGED <<acq, seen>>
      BY DEF Store, MemInv
    <2> HIDE DEF S, w
    <2> QED
      BY <1>1, <2>1, <2>2 DEF PutAll
  <1>3. w[loc] = v /\ loc \in S /\ \A l : l # loc => l \notin S
    OBVIOUS
  <1> HIDE DEF S, w
  <1> QED
    BY <1>2, <1>3, PutAllStores DEF Stored

LEMMA ReleasedStores ==
  ASSUME MemInv, NEW t \in Threads, NEW loc \in Locations, Owner(loc) = t,
         NEW v \in Nat, StoreReleased(t, loc, v)
  PROVE  Stored(loc, v) /\ Released(t, loc)
  <1> DEFINE S == {loc}
             w == [l \in S |-> v]
             e == epoch'[t]
  <1>1. mem' = [l \in Locations |-> IF l \in S THEN Put(mem[l], w[l], e) ELSE mem[l]]
    BY DEF StoreReleased, MemInv
  <1>2. /\ epoch \in [Threads -> Nat] /\ epoch' \in [Threads -> Nat]
        /\ \A u \in Threads : epoch'[u] >= epoch[u]
        /\ (Relaxed => epoch'[t] = epoch[t] + 1)
    <2>1. epoch \in [Threads -> Nat]
      BY DEF MemInv
    <2>2. CASE Relaxed
      <3>1. epoch' = [epoch EXCEPT ![t] = @ + 1]
        BY <2>2 DEF StoreReleased, ReleaseFence
      <3> QED
        BY <3>1, <2>1
    <2>3. CASE ~ Relaxed
      <3>1. epoch' = epoch
        BY <2>3 DEF StoreReleased, ReleaseFence
      <3> QED
        BY <3>1, <2>1, <2>3
    <2> QED
      BY <2>2, <2>3
  <1>3. PutAll(t, S, w, e)
    <2>1. S \subseteq Locations /\ \A l \in S : Owner(l) = t /\ w[l] \in Nat
      OBVIOUS
    <2>2. UNCHANGED <<acq, seen>>
      BY DEF StoreReleased
    <2> HIDE DEF S, w
    <2> QED
      BY <1>1, <1>2, <2>1, <2>2 DEF PutAll
  <1>4. w[loc] = v /\ loc \in S /\ \A l : l # loc => l \notin S
    OBVIOUS
  <1> HIDE DEF S, w, e
  <1>5. Stored(loc, v) /\ (Relaxed => mem'[loc][Len(mem'[loc])].at = e)
    BY <1>3, <1>4, PutAllStores DEF Stored
  <1>6. ASSUME NEW l \in Locations, l # loc, Owner(l) = t
        PROVE  Settled(mem[l], mem'[loc][Len(mem'[loc])].at)
    <2>1. CASE ~ Relaxed
      BY <2>1 DEF Settled, MemInv
    <2>2. CASE Relaxed
      <3>1. mem'[loc][Len(mem'[loc])].at = epoch[t] + 1
        BY <1>2, <1>5, <2>2 DEF e
      <3>2. Len(mem[l]) \in Nat /\ Len(mem[l]) >= 1
        BY History
      <3> DEFINE n == Len(mem[l])
      <3>3. n \in 1 .. Len(mem[l])
        BY <3>2
      <3> HIDE DEF n
      <3>5. mem[l][n].at <= epoch[t]
        BY <1>6, <3>3 DEF MemInv
      <3>6. mem[l][n].at \in Nat
        BY <3>3, History
      <3>4. mem[l][Len(mem[l])].at < epoch[t] + 1
        BY <3>5, <3>6, <1>2 DEF n
      <3> QED
        BY <3>1, <3>4 DEF Settled
    <2> QED
      BY <2>1, <2>2
  <1> QED
    BY <1>5, <1>6 DEF Released

-------------------------------------------------------------------------------
(***************************************************************************)
(* Steps that store nothing leave all values, and what the other parts of the *)
(* invariant say of them.                                                   *)
(***************************************************************************)

LEMMA RingBlocks ==
  ASSUME TypeInv
  PROVE  /\ allocated \in Nat /\ RingSize \in Nat /\ RingSize <= allocated
         /\ \A b \in 1 .. allocated : b \in Blocks /\ size[b] \in Nat /\ size[b] >= 2
         /\ \A b \in Ring : b \in 1 .. allocated
  <1>1. allocated \in Nat /\ allocated >= 1 /\ allocated <= MaxBlocks /\ MaxBlocks \in Nat
    BY Sizes DEF TypeInv, Blocks
  <1>2. RingSize \in Nat /\ RingSize <= allocated
    BY <1>1 DEF RingSize
  <1>3. \A b \in Ring : b \in 1 .. allocated
    BY <1>1, <1>2 DEF Ring
  <1>4. \A b \in 1 .. allocated : b \in Blocks /\ b <= allocated
    BY <1>1 DEF Blocks
  <1>5. \A b \in 1 .. allocated : size[b] \in Nat /\ size[b] >= 2
    BY <1>4 DEF TypeInv
  <1> QED
    BY <1>1, <1>2, <1>3, <1>4, <1>5

\* The last values stored are what they were.
Same ==
  /\ FB' = FB /\ TB' = TB
  /\ \A b \in Blocks :
        FrontIx(b)' = FrontIx(b) /\ TailIx(b)' = TailIx(b) /\ NextB(b)' = NextB(b)

LEMMA TrimLast ==
  ASSUME MemInv, Trim, NEW loc \in Locations
  PROVE  /\ mem'[loc][Len(mem'[loc])] = mem[loc][Len(mem[loc])]
         /\ Newest(loc)' = Newest(loc)
  <1>1. Len(mem[loc]) \in Nat /\ Len(mem'[loc]) \in 1 .. Len(mem[loc])
    BY History DEF Trim
  <1>2. Len(mem'[loc]) \in 1 .. Len(mem'[loc])
        /\ Len(mem'[loc]) + (Len(mem[loc]) - Len(mem'[loc])) = Len(mem[loc])
    BY <1>1
  <1>3. mem'[loc][Len(mem'[loc])] = mem[loc][Len(mem'[loc]) + (Len(mem[loc]) - Len(mem'[loc]))]
    BY <1>2 DEF Trim
  <1> QED
    BY <1>2, <1>3 DEF Newest

LEMMA TrimSame ==
  ASSUME MemInv, Trim
  PROVE  Same
  BY TrimLast, Locs DEF Same, FB, TB, FrontIx, TailIx, NextB

LEMMA TrimSettled ==
  ASSUME MemInv, Trim, NEW loc \in Locations, NEW e, Settled(mem[loc], e)
  PROVE  Settled(mem'[loc], e)
  <1>1. Len(mem[loc]) \in Nat /\ Len(mem'[loc]) \in 1 .. Len(mem[loc])
    BY History DEF Trim
  <1>2. CASE Len(mem[loc]) = 1
    <2>1. Len(mem'[loc]) = 1
      BY <1>1, <1>2
    <2> QED
      BY <2>1 DEF Settled
  <1>3. CASE mem[loc][Len(mem[loc])].at < e
    BY <1>3, TrimLast DEF Settled
  <1> QED
    BY <1>2, <1>3 DEF Settled

LEMMA TrimVisible ==
  ASSUME MemInv, Trim, NEW loc \in Locations, NEW f, NEW e, Visible(mem[loc], f, e)
  PROVE  Visible(mem'[loc], f, e)
  <1> DEFINE h == mem[loc]
             g == mem'[loc]
             d == Len(h) - Len(g)
  <1>1. PICK k \in 1 .. Len(h) :
            /\ k = 1 \/ h[k].at < e
            /\ \A i \in k .. Len(h) : h[i].val # f
    BY DEF Visible
  <1>2. Len(h) \in Nat /\ Len(g) \in 1 .. Len(h) /\ \A j \in 1 .. Len(g) : g[j] = h[j + d]
    BY Locs, History DEF Trim
  <1> HIDE DEF h, g
  <1> DEFINE n == IF k - d >= 1 THEN k - d ELSE 1
  <1>4. n \in 1 .. Len(g) /\ (n = 1 \/ n + d = k)
    BY <1>2
  <1>5. n = 1 \/ g[n].at < e
    <2>1. CASE n = 1
      BY <2>1
    <2>2. CASE n # 1
      <3>1. n + d = k /\ d \in Nat
        BY <2>2, <1>2, <1>4
      <3>2. k # 1
        BY <2>2, <1>2
      <3>3. g[n] = h[k]
        BY <3>1, <1>2, <1>4
      <3> QED
        BY <1>1, <3>2, <3>3
    <2> QED
      BY <2>1, <2>2
  <1>6. ASSUME NEW i \in n .. Len(g)
        PROVE  g[i].val # f
    <2>1. i \in 1 .. Len(g) /\ i + d \in k .. Len(h)
      BY <1>2
    <2>2. g[i] = h[i + d]
      BY <2>1, <1>2
    <2> QED
      BY <2>1, <2>2, <1>1
  <1> HIDE DEF n
  <1> QED
    BY <1>4, <1>5, <1>6 DEF Visible, g

LEMMA KeepsRing ==
  ASSUME TypeInv, Same, NEW pos, RingInv(pos), RingSize' = RingSize
  PROVE  RingInv(pos)' /\ Ring' = Ring
  <1>1. Ring' = Ring
    BY DEF Ring
  <1>2. \A b \in Ring : b \in Blocks
    BY RingBlocks
  <1>3. \A b \in Ring : NextB(b)' = NextB(b)
    BY <1>2 DEF Same
  <1>4. FB' = FB /\ TB' = TB
    BY DEF Same
  <1> QED
    BY <1>1, <1>3, <1>4 DEF RingInv

LEMMA KeepsEmpty ==
  ASSUME TypeInv, Same, NEW pos, RingInv(pos), EmptyInv(pos), RingSize' = RingSize,
         (pc'[P] = pc[P] /\ call'[P] = call[P]) \/ pc[P] # "publishBlock"
  PROVE  EmptyInv(pos)'
  <1>1. Ring' = Ring /\ FB' = FB /\ TB' = TB
    BY DEF Ring, Same
  <1>2. \A b \in Ring : FrontIx(b)' = FrontIx(b) /\ TailIx(b)' = TailIx(b)
    BY RingBlocks DEF Same
  <1> QED
    BY <1>1, <1>2 DEF EmptyInv

LEMMA TrimFrontBlock ==
  ASSUME MemInv, TypeInv, Trim, NEW pos, RingInv(pos), FrontBlockInv(pos),
         RingSize' = RingSize,
         RingSize - (Len(mem'[FrontBlock]) - 1) > LastUsed(pos)'
  PROVE  FrontBlockInv(pos)'
  <1> DEFINE h == mem[FrontBlock]
             g == mem'[FrontBlock]
             x == LastUsed(pos)'
             n == RingSize
  <1>1. Ring' = Ring /\ TB' = TB
    BY TrimSame DEF Ring, Same
  <1>2. Len(h) \in Nat /\ Len(g) \in 1 .. Len(h)
        /\ \A j \in 1 .. Len(g) : g[j] = h[j + (Len(h) - Len(g))]
    BY Locs, History DEF Trim
  <1>3. n - (Len(g) - 1) > x
    OBVIOUS
  <1>4. x \in Int /\ n \in Nat
    <2>1. TB' \in Ring /\ pos[TB'] \in 0 .. RingSize - 1 /\ RingSize \in Nat
      BY <1>1, RingBlocks DEF RingInv
    <2> QED
      BY <2>1 DEF LastUsed
  <1>5. ASSUME NEW j \in 1 .. Len(g)
        PROVE  LET d == Len(g) - j
                   s == g[j]
               IN  /\ (d > 0 => s.val \in Ring /\ pos[s.val] = n - d)
                   /\ n - d > x
                   /\ \A b \in Ring : pos[TB] < pos[b] /\ pos[b] < n - d =>
                         Settled(mem'[FrontOf(b)], s.at)
    <2> DEFINE k == j + (Len(h) - Len(g))
    <2>1. k \in 1 .. Len(h) /\ Len(h) - k = Len(g) - j
      <3> HIDE DEF g, h
      <3> QED
        BY <1>2
    <2>2. g[j] = h[k]
      BY <1>2
    <2>3. LET d == Len(h) - k
              s == h[k]
          IN  /\ (d > 0 => s.val \in Ring /\ pos[s.val] = RingSize - d)
              /\ \A b \in Ring : pos[TB] < pos[b] /\ pos[b] < RingSize - d =>
                    Settled(mem[FrontOf(b)], s.at)
      <3>1. k \in 1 .. Len(mem[FrontBlock])
        BY <2>1
      <3> HIDE DEF k
      <3> QED
        BY <3>1 DEF FrontBlockInv
    <2>4. n - (Len(g) - j) > x
      <3> HIDE DEF g, h, n, x
      <3> QED
        BY <1>2, <1>3, <1>4
    <2>5. ASSUME NEW b \in Ring, NEW e, Settled(mem[FrontOf(b)], e)
          PROVE  Settled(mem'[FrontOf(b)], e)
      <3>1. FrontOf(b) \in Locations
        BY RingBlocks, Locs
      <3> QED
        BY <2>5, <3>1, TrimSettled
    <2> HIDE DEF k, g, h, n, x
    <2> QED
      BY <2>1, <2>2, <2>3, <2>4, <2>5 DEF n
  <1> QED
    BY <1>1, <1>5 DEF FrontBlockInv

LEMMA TrimTailBlock ==
  ASSUME MemInv, TypeInv, Trim, NEW pos, RingInv(pos), TailBlockInv(pos),
         RingSize' = RingSize
  PROVE  TailBlockInv(pos)'
  <1> DEFINE h == mem[TailBlock]
             g == mem'[TailBlock]
  <1>1. Ring' = Ring /\ TB' = TB
    BY TrimSame DEF Ring, Same
  <1>2. Len(h) \in Nat /\ Len(g) \in 1 .. Len(h)
        /\ \A j \in 1 .. Len(g) : g[j] = h[j + (Len(h) - Len(g))]
    BY Locs, History DEF Trim
  <1>3. ASSUME NEW b \in Ring
        PROVE  /\ FrontIx(b)' = FrontIx(b)
               /\ TailOf(b) \in Locations /\ NextOf(b) \in Locations
    BY RingBlocks, Locs, TrimSame DEF Same
  <1>4. ASSUME NEW j \in 1 .. Len(g)
        PROVE  LET s == g[j] IN
               /\ s.val \in Ring /\ pos[s.val] = pos[TB] - (Len(g) - j)
               /\ \A b \in Ring : pos[b] < pos[s.val] =>
                     Settled(mem'[TailOf(b)], s.at) /\ Settled(mem'[NextOf(b)], s.at)
               /\ \A b \in Ring : 0 < pos[b] /\ pos[b] <= pos[s.val] =>
                     Visible(mem'[TailOf(b)], FrontIx(b), s.at)
    <2> DEFINE k == j + (Len(h) - Len(g))
    <2>1. k \in 1 .. Len(h) /\ Len(h) - k = Len(g) - j
      <3> HIDE DEF g, h
      <3> QED
        BY <1>2
    <2>2. g[j] = h[k]
      BY <1>2
    <2>3. LET s == h[k] IN
          /\ s.val \in Ring /\ pos[s.val] = pos[TB] - (Len(h) - k)
          /\ \A b \in Ring : pos[b] < pos[s.val] =>
                Settled(mem[TailOf(b)], s.at) /\ Settled(mem[NextOf(b)], s.at)
          /\ \A b \in Ring : 0 < pos[b] /\ pos[b] <= pos[s.val] =>
                Visible(mem[TailOf(b)], FrontIx(b), s.at)
      <3>1. k \in 1 .. Len(mem[TailBlock])
        BY <2>1
      <3> HIDE DEF k
      <3> QED
        BY <3>1 DEF TailBlockInv
    <2>4. ASSUME NEW b \in Ring, NEW e
          PROVE  /\ (Settled(mem[TailOf(b)], e) => Settled(mem'[TailOf(b)], e))
                 /\ (Settled(mem[NextOf(b)], e) => Settled(mem'[NextOf(b)], e))
                 /\ (Visible(mem[TailOf(b)], FrontIx(b), e) => Visible(mem'[TailOf(b)], FrontIx(b), e))
      BY <1>3, TrimSettled, TrimVisible
    <2> HIDE DEF k, g, h
    <2> QED
      BY <2>1, <2>2, <2>3, <2>4
  <1>5. Len(mem'[TailBlock]) = Len(g) /\ \A j : g[j] = mem'[TailBlock][j]
    OBVIOUS
  <1> HIDE DEF g, h
  <1> QED
    BY <1>1, <1>3, <1>4, <1>5 DEF TailBlockInv

\* Thread t, having read entry i of a history, can only read what is newer.
ReadAt(loc, i) == i \in 1 .. Len(mem[loc]) /\ Len(mem'[loc]) <= Len(mem[loc]) - i + 1

LEMMA DistNat ==
  ASSUME NEW n \in Nat, NEW x \in 0 .. n - 1, NEW y \in 0 .. n - 1
  PROVE  /\ Dist(x, y, n) \in Nat /\ Dist(x, y, n) <= n - 1
         /\ (Dist(x, y, n) = 0 <=> x = y)
  BY DEF Dist

LEMMA DistSub ==
  ASSUME NEW n \in Nat, NEW x \in 0 .. n - 1, NEW y \in 0 .. n - 1, NEW z \in 0 .. n - 1,
         Dist(x, y, n) <= Dist(x, z, n)
  PROVE  Dist(y, z, n) = Dist(x, z, n) - Dist(x, y, n)
  BY DEF Dist

LEMMA DistAdd ==
  ASSUME NEW n \in Nat, NEW x \in 0 .. n - 1, NEW y \in 0 .. n - 1, NEW z \in 0 .. n - 1,
         Dist(x, y, n) + Dist(y, z, n) < n
  PROVE  Dist(x, z, n) = Dist(x, y, n) + Dist(y, z, n)
  BY DEF Dist

LEMMA DistEqual ==
  ASSUME NEW n \in Nat, NEW x \in 0 .. n - 1, NEW y \in 0 .. n - 1, NEW z \in 0 .. n - 1,
         Dist(x, y, n) = Dist(x, z, n)
  PROVE  y = z
  BY DEF Dist

LEMMA TrimBlockInv ==
  ASSUME MemInv, Trim, NEW b \in Blocks, BlockInv(b), size[b] \in Nat, size[b] >= 2,
         size'[b] = size[b], localTail'[b] \in 0 .. size[b] - 1,
         \/ localFront'[b] = localFront[b]
         \/ \E i : ReadAt(FrontOf(b), i) /\ localFront'[b] = mem[FrontOf(b)][i].val
  PROVE  BlockInv(b)'
  <1> DEFINE n == size[b]
             h == mem[FrontOf(b)]
             l == mem[TailOf(b)]
             g == mem'[FrontOf(b)]
             k == mem'[TailOf(b)]
             x == localFront[b]
             y == localFront'[b]
             f == FrontIx(b)
             t == TailIx(b)
  <1>1. /\ x \in 0 .. n - 1
        /\ \A i \in 1 .. Len(h) : h[i].val \in 0 .. n - 1
        /\ \A i \in 1 .. Len(l) : l[i].val \in 0 .. n - 1
        /\ \A i, j \in 1 .. Len(h) : i <= j => Dist(x, h[i].val, n) <= Dist(x, h[j].val, n)
        /\ Dist(x, f, n) + Dist(f, t, n) < n
        /\ \A i, j \in 1 .. Len(l) : i <= j => Dist(f, l[i].val, n) <= Dist(f, l[j].val, n)
    BY DEF BlockInv
  <1>2. /\ Len(h) \in Nat /\ Len(h) >= 1 /\ Len(g) \in 1 .. Len(h)
        /\ \A j \in 1 .. Len(g) : g[j] = h[j + (Len(h) - Len(g))]
        /\ f = h[Len(h)].val
    BY Locs, History DEF Trim, FrontIx
  <1>3. /\ Len(l) \in Nat /\ Len(l) >= 1 /\ Len(k) \in 1 .. Len(l)
        /\ \A j \in 1 .. Len(k) : k[j] = l[j + (Len(l) - Len(k))]
        /\ t = l[Len(l)].val
    BY Locs, History DEF Trim, TailIx
  <1>4. FrontIx(b)' = f /\ TailIx(b)' = t
    BY TrimSame DEF Same
  <1>5. /\ n \in Nat /\ n >= 2 /\ size'[b] = n
        /\ y = x \/ \E i \in 1 .. Len(h) : Len(g) <= Len(h) - i + 1 /\ y = h[i].val
    BY DEF ReadAt
  <1>6. localTail'[b] \in 0 .. n - 1
    OBVIOUS
  <1> HIDE DEF n, h, l, g, k, x, y, f, t
  <1>7. f \in 0 .. n - 1 /\ t \in 0 .. n - 1
    BY <1>1, <1>2, <1>3
  <1>8. \A j \in 1 .. Len(g) : j + (Len(h) - Len(g)) \in 1 .. Len(h)
    BY <1>2
  <1>9. \A j \in 1 .. Len(k) : j + (Len(l) - Len(k)) \in 1 .. Len(l)
    BY <1>3
  <1>10. /\ \A i \in 1 .. Len(g) : g[i].val \in 0 .. n - 1
         /\ \A i \in 1 .. Len(k) : k[i].val \in 0 .. n - 1
    BY <1>1, <1>2, <1>3, <1>8, <1>9
  <1>11. ASSUME NEW i \in 1 .. Len(k), NEW j \in 1 .. Len(k), i <= j
         PROVE  Dist(f, k[i].val, n) <= Dist(f, k[j].val, n)
    <2>1. i + (Len(l) - Len(k)) <= j + (Len(l) - Len(k))
      BY <1>3, <1>11
    <2> QED
      BY <2>1, <1>1, <1>3, <1>9
  <1>12. ASSUME NEW i \in 1 .. Len(g), NEW j \in 1 .. Len(g), i <= j
         PROVE  Dist(x, g[i].val, n) <= Dist(x, g[j].val, n)
    <2>1. i + (Len(h) - Len(g)) <= j + (Len(h) - Len(g))
      BY <1>2, <1>12
    <2> QED
      BY <2>1, <1>1, <1>2, <1>8
  <1>13. /\ y \in 0 .. n - 1
         /\ \A i, j \in 1 .. Len(g) : i <= j => Dist(y, g[i].val, n) <= Dist(y, g[j].val, n)
         /\ Dist(y, f, n) + Dist(f, t, n) < n
    <2>1. CASE y = x
      BY <2>1, <1>1, <1>12
    <2>2. ASSUME NEW i \in 1 .. Len(h), Len(g) <= Len(h) - i + 1, y = h[i].val
          PROVE  <1>13!:
      <3>1. y \in 0 .. n - 1
        BY <2>2, <1>1
      <3>2. ASSUME NEW j \in 1 .. Len(h), i <= j
            PROVE  Dist(y, h[j].val, n) = Dist(x, h[j].val, n) - Dist(x, y, n)
        <4>1. Dist(x, y, n) <= Dist(x, h[j].val, n) /\ h[j].val \in 0 .. n - 1
          BY <2>2, <3>2, <1>1
        <4> QED
          BY <4>1, <3>1, <1>1, <1>5, DistSub
      <3>3. ASSUME NEW j \in 1 .. Len(g)
            PROVE  /\ Dist(y, g[j].val, n) = Dist(x, g[j].val, n) - Dist(x, y, n)
                   /\ g[j].val \in 0 .. n - 1
        <4>1. i <= j + (Len(h) - Len(g))
          BY <2>2, <1>2
        <4> QED
          BY <4>1, <3>2, <1>8, <1>2, <1>10
      <3>4. Dist(y, f, n) = Dist(x, f, n) - Dist(x, y, n)
        BY <3>2, <1>2
      <3>5. Dist(x, y, n) \in Nat /\ Dist(x, f, n) \in Nat /\ Dist(f, t, n) \in Nat
        BY <3>1, <1>1, <1>5, <1>7, DistNat
      <3>6. Dist(y, f, n) + Dist(f, t, n) < n
        BY <3>4, <3>5, <1>1, <1>5
      <3>7. ASSUME NEW p \in 1 .. Len(g), NEW q \in 1 .. Len(g), p <= q
            PROVE  Dist(y, g[p].val, n) <= Dist(y, g[q].val, n)
        <4>1. Dist(x, g[p].val, n) <= Dist(x, g[q].val, n)
          BY <3>7, <1>12
        <4>2. Dist(x, g[p].val, n) \in Nat /\ Dist(x, g[q].val, n) \in Nat
          BY <1>1, <1>5, <1>10, DistNat
        <4> QED
          BY <3>3, <3>5, <4>1, <4>2
      <3> QED
        BY <3>1, <3>6, <3>7
    <2> QED
      BY <2>1, <2>2, <1>5
  <1>14. /\ localFront'[b] = y /\ mem'[FrontOf(b)] = g /\ mem'[TailOf(b)] = k /\ size'[b] = n
    BY <1>5 DEF y, g, k
  <1> QED
    BY <1>4, <1>6, <1>10, <1>11, <1>13, <1>14 DEF BlockInv

LEMMA TrimTailCopied ==
  ASSUME MemInv, Trim, NEW b \in Blocks, BlockInv(b), size'[b] = size[b],
         \/ localTail'[b] = localTail[b] /\ TailCopied(b)
         \/ \E i : ReadAt(TailOf(b), i) /\ localTail'[b] = mem[TailOf(b)][i].val
  PROVE  TailCopied(b)'
  <1> DEFINE n == size[b]
             l == mem[TailOf(b)]
             k == mem'[TailOf(b)]
             f == FrontIx(b)
             y == localTail'[b]
  <1>1. \A i, j \in 1 .. Len(l) : i <= j => Dist(f, l[i].val, n) <= Dist(f, l[j].val, n)
    BY DEF BlockInv
  <1>2. /\ Len(l) \in Nat /\ Len(l) >= 1 /\ Len(k) \in 1 .. Len(l)
        /\ \A j \in 1 .. Len(k) : k[j] = l[j + (Len(l) - Len(k))]
    BY Locs, History DEF Trim
  <1>3. \/ \A i \in 1 .. Len(l) : Dist(f, y, n) <= Dist(f, l[i].val, n)
        \/ \E i \in 1 .. Len(l) : Len(k) <= Len(l) - i + 1 /\ y = l[i].val
    BY DEF ReadAt, TailCopied
  <1>4. FrontIx(b)' = f /\ size'[b] = n /\ localTail'[b] = y /\ mem'[TailOf(b)] = k
    BY TrimSame DEF Same
  <1> HIDE DEF n, l, k, f, y
  <1>5. \A j \in 1 .. Len(k) : j + (Len(l) - Len(k)) \in 1 .. Len(l)
    BY <1>2
  <1>6. ASSUME NEW j \in 1 .. Len(k)
        PROVE  Dist(f, y, n) <= Dist(f, k[j].val, n)
    <2>1. CASE \A i \in 1 .. Len(l) : Dist(f, y, n) <= Dist(f, l[i].val, n)
      BY <2>1, <1>2, <1>5
    <2>2. ASSUME NEW i \in 1 .. Len(l), Len(k) <= Len(l) - i + 1, y = l[i].val
          PROVE  Dist(f, y, n) <= Dist(f, k[j].val, n)
      <3>1. i <= j + (Len(l) - Len(k))
        BY <2>2, <1>2
      <3> QED
        BY <3>1, <2>2, <1>1, <1>2, <1>5
    <2> QED
      BY <2>1, <2>2, <1>3
  <1> QED
    BY <1>4, <1>6 DEF TailCopied

\* A thread is not at a step that fills or empties a slot, before or after.
LEMMA KeepsSlots ==
  ASSUME TypeInv, Same, SlotInv, NEW b \in 1 .. allocated, FB \in Blocks, TB \in Blocks,
         UNCHANGED <<slot, size>>,
         (pc'[C] = "release") <=> (pc[C] = "release"),
         \/ pc'[P] = pc[P] /\ call'[P] = call[P]
         \/ {pc[P], pc'[P]} \cap {"publish", "publishNext"} = {}
  PROVE  /\ (DOMAIN slot[b] = 0 .. size[b] - 1)'
         /\ \A i \in 0 .. size'[b] - 1 : (/\ DOMAIN slot[b][i] = {"val", "by", "at"}
                                         /\ slot[b][i].val # Empty <=> Occupied(b, i))'
  <1>1. /\ FrontIx(b)' = FrontIx(b) /\ TailIx(b)' = TailIx(b) /\ FB' = FB /\ TB' = TB
    BY RingBlocks DEF Same
  <1>2. /\ DOMAIN slot[b] = 0 .. size[b] - 1
        /\ \A i \in 0 .. size[b] - 1 : /\ DOMAIN slot[b][i] = {"val", "by", "at"}
                                       /\ slot[b][i].val # Empty <=> Occupied(b, i)
    BY DEF SlotInv
  <1>3. ASSUME NEW i \in 0 .. size[b] - 1
        PROVE  Occupied(b, i)' <=> Occupied(b, i)
    BY <1>1 DEF Occupied
  <1> QED
    BY <1>2, <1>3

LEMMA ProducerKeeps ==
  ASSUME MemInv, TypeInv, NEW pos, RingInv(pos), ProducerInv(pos), Looks(C),
         pc'[P] = pc[P], call'[P] = call[P], UNCHANGED <<allocated, size, localFront>>
  PROVE  ProducerInv(pos)'
  <1>1. Same
    BY TrimSame DEF Looks
  <1>2. RingSize' = RingSize /\ Ring' = Ring /\ FB' = FB /\ TB' = TB
    BY <1>1 DEF RingSize, Ring, Same
  <1>3. (Advancing' <=> Advancing) /\ (Filling' <=> Filling)
    BY DEF Advancing, Filling
  <1>4. TB \in Blocks /\ NextB(TB) \in Ring /\ NextB(TB) \in Blocks
    BY RingBlocks DEF RingInv
  <1>5. /\ TailIx(TB)' = TailIx(TB) /\ NextB(TB)' = NextB(TB)
        /\ FrontIx(NextB(TB))' = FrontIx(NextB(TB)) /\ TailIx(NextB(TB))' = TailIx(NextB(TB))
    BY <1>1, <1>4 DEF Same
  <1>6. allocated \in Blocks /\ NextB(allocated)' = NextB(allocated)
        /\ FrontIx(allocated)' = FrontIx(allocated) /\ TailIx(allocated)' = TailIx(allocated)
    BY <1>1 DEF Same, TypeInv
  <1>7. mem'[FrontBlock] = mem[FrontBlock] /\ mem'[FrontOf(allocated)] = mem[FrontOf(allocated)]
    BY <1>6, Locs, Owners DEF Looks
  <1>8. seen'[P] = seen[P]
    BY Locs DEF Looks
  <1> QED
    BY <1>2, <1>3, <1>5, <1>6, <1>7, <1>8 DEF ProducerInv, Filling

LEMMA ConsumerKeeps ==
  ASSUME MemInv, TypeInv, NEW pos, RingInv(pos), ConsumerInv(pos), Looks(P),
         RingSize' = RingSize, pc'[C] = pc[C], call'[C] = call[C],
         UNCHANGED <<allocated, size, localTail>>
  PROVE  ConsumerInv(pos)'
  <1>1. Same
    BY TrimSame DEF Looks
  <1>2. Ring' = Ring /\ FB' = FB /\ TB' = TB /\ (Leaving' <=> Leaving)
    BY <1>1 DEF Ring, Same, Leaving
  <1>3. FB \in Blocks /\ NextB(FB) \in Ring /\ NextB(FB) \in Blocks
    BY RingBlocks DEF RingInv
  <1>4. /\ TailIx(FB)' = TailIx(FB) /\ FrontIx(FB)' = FrontIx(FB) /\ NextB(FB)' = NextB(FB)
        /\ FrontIx(NextB(FB))' = FrontIx(NextB(FB))
    BY <1>1, <1>3 DEF Same
  <1>5. mem'[TailBlock] = mem[TailBlock] /\ mem'[TailOf(NextB(FB))] = mem[TailOf(NextB(FB))]
    BY <1>3, Locs, Owners DEF Looks
  <1>6. seen'[C] = seen[C]
    BY Locs DEF Looks
  <1>7. pc[C] = "moveFront" => TailCopied(call[C].block)'
    <2> SUFFICES ASSUME pc[C] = "moveFront" PROVE TailCopied(call[C].block)'
      OBVIOUS
    <2>1. call[C].block = NextB(FB) /\ TailCopied(NextB(FB))
      BY DEF ConsumerInv
    <2>2. NextB(FB)' = NextB(FB) /\ call'[C].block = NextB(FB)
      BY <1>4, <2>1
    <2> DEFINE c == NextB(FB)
    <2>3. /\ FrontIx(NextB(FB))' = FrontIx(c) /\ mem'[TailOf(c)] = mem[TailOf(c)]
          /\ size' = size /\ localTail' = localTail /\ call'[C].block = c
      BY <1>4, <1>5, <2>2
    <2>4. FrontIx(call[C].block)' = FrontIx(c)
      BY <2>2, <2>3, <1>4 DEF FrontIx
    <2> QED
      BY <2>1, <2>3, <2>4 DEF TailCopied
  <1> QED
    BY <1>2, <1>4, <1>5, <1>6, <1>7 DEF ConsumerInv

-------------------------------------------------------------------------------
(***************************************************************************)
(* The control of the two threads.                                          *)
(***************************************************************************)

\* Thread t goes to l, and the other one stays where it is.
Moves(t, l) ==
  /\ CallsTyped' /\ pc'[t] = l
  /\ \A u \in Threads : u # t => pc'[u] = pc[u] /\ call'[u] = call[u]

LEMMA GotoMoves ==
  ASSUME CallsTyped, NEW t \in Threads, NEW l \in Labels, Goto(t, l)
  PROVE  /\ pc' \in [Threads -> Labels] /\ pc'[t] = l
         /\ \A u \in Threads : u # t => pc'[u] = pc[u]
  BY DEF Goto, CallsTyped

LEMMA GoOnMoves ==
  ASSUME CallsTyped, NEW t \in Threads, NEW l \in Labels, GoOn(t, l)
  PROVE  Moves(t, l) /\ call' = call
  <1>1. Goto(t, l) /\ call' = call
    BY DEF GoOn
  <1> QED
    BY <1>1, GotoMoves DEF Moves, CallsTyped

LEMMA GoOnWithMoves ==
  ASSUME CallsTyped, NEW t \in Threads, NEW l \in Labels, NEW b, GoOnWith(t, l, b)
  PROVE  Moves(t, l) /\ call'[t].block = b /\ call'[t].op = call[t].op
  <1>1. Goto(t, l) /\ call' = [call EXCEPT ![t] = [call[t] EXCEPT !.block = b]]
    BY DEF GoOnWith
  <1>2. DOMAIN call = Threads /\ \A u \in Threads : DOMAIN call[u] = DOMAIN NoCall
    BY DEF CallsTyped
  <1>3. DOMAIN NoCall = {"op", "block", "first", "result", "atStart"}
    BY DEF NoCall
  <1> DEFINE r == [call[t] EXCEPT !.block = b]
  <1>4. DOMAIN r = DOMAIN NoCall /\ r.block = b /\ r.op = call[t].op
    BY <1>2, <1>3
  <1> HIDE DEF r
  <1>5. DOMAIN call' = Threads /\ call'[t] = r /\ \A u \in Threads : u # t => call'[u] = call[u]
    BY <1>1, <1>2 DEF r
  <1>6. CallsTyped'
    BY <1>1, <1>2, <1>4, <1>5, GotoMoves DEF CallsTyped
  <1> QED
    BY <1>1, <1>4, <1>5, <1>6, GotoMoves DEF Moves

LEMMA ReturnMoves ==
  ASSUME CallsTyped, NEW t \in Threads, Return(t)
  PROVE  Moves(t, "idle")
  <1>1. Goto(t, "idle") /\ call' = [call EXCEPT ![t] = NoCall]
    BY DEF Return
  <1>2. DOMAIN call' = Threads /\ call'[t] = NoCall
        /\ \A u \in Threads : u # t => call'[u] = call[u]
    BY <1>1 DEF CallsTyped
  <1>3. CallsTyped'
    BY <1>1, <1>2, GotoMoves DEF CallsTyped, Labels
  <1> QED
    BY <1>1, <1>2, <1>3, GotoMoves DEF Moves, Labels

LEMMA BeginMoves ==
  ASSUME CallsTyped, NEW t \in Threads, NEW l \in Labels, NEW op, NEW b,
         Begin(t, op, b), Goto(t, l)
  PROVE  Moves(t, l) /\ pc[t] = "idle" /\ call'[t].block = b /\ call'[t].op = op
  <1> DEFINE r == [NoCall EXCEPT !.op = op, !.block = b, !.first = b, !.atStart = Length(t)]
  <1>1. pc[t] = "idle" /\ call' = [call EXCEPT ![t] = r]
    BY DEF Begin
  <1>2. DOMAIN r = DOMAIN NoCall /\ r.block = b /\ r.op = op
    BY DEF NoCall
  <1> HIDE DEF r
  <1>3. DOMAIN call' = Threads /\ call'[t] = r /\ \A u \in Threads : u # t => call'[u] = call[u]
    BY <1>1 DEF CallsTyped
  <1>4. CallsTyped'
    BY <1>2, <1>3, GotoMoves DEF CallsTyped
  <1> QED
    BY <1>1, <1>2, <1>3, <1>4, GotoMoves DEF Moves

-------------------------------------------------------------------------------
(***************************************************************************)
(* The steps that store nothing.                                            *)
(***************************************************************************)

\* Blocks that do not exist yet have the histories they began with.
LEMMA TrimTyped ==
  ASSUME MemInv, TypeInv, Trim, CallsTyped',
         UNCHANGED <<allocated, largestBlockSize, size, slot, sent>>,
         localFront' \in [Blocks -> Nat], localTail' \in [Blocks -> Nat],
         \A b \in Blocks : b > allocated => localFront'[b] = localFront[b]
  PROVE  TypeInv'
  <1>1. ASSUME NEW loc \in Locations, mem[loc] = <<[val |-> 0, at |-> 0]>>
        PROVE  mem'[loc] = mem[loc]
    <2>1. Len(mem[loc]) = 1
      BY <1>1
    <2>2. Len(mem'[loc]) \in 1 .. 1 /\ mem'[loc] \in Seq(Stores) /\ mem[loc] \in Seq(Stores)
      BY <2>1, History DEF Trim
    <2>3. Len(mem'[loc]) = 1
      BY <2>2
    <2>4. mem'[loc][1] = mem[loc][1]
      BY <2>1, <2>3, TrimLast
    <2>5. \A i \in 1 .. Len(mem'[loc]) : mem'[loc][i] = mem[loc][i]
      BY <2>3, <2>4
    <2> QED
      BY <2>1, <2>2, <2>3, <2>5, SeqEqual
  <1>2. \A b \in Blocks : b > allocated =>
            /\ mem'[FrontOf(b)] = <<[val |-> 0, at |-> 0]>>
            /\ mem'[TailOf(b)] = <<[val |-> 0, at |-> 0]>>
            /\ localFront'[b] = 0
    BY <1>1, Locs DEF TypeInv
  <1> QED
    BY <1>2 DEF TypeInv

LEMMA ProducerLooks ==
  ASSUME MemInv, TypeInv, IndexInv, SlotInv, NEW pos, PosInv(pos), Looks(P), CallsTyped',
         pc'[C] = pc[C], call'[C] = call[C], RingSize' = RingSize,
         UNCHANGED <<allocated, largestBlockSize, size, slot, sent, localTail>>,
         pc[P] # "publishBlock",
         {pc[P], pc'[P]} \cap {"publish", "publishNext"} = {},
         localFront' \in [Blocks -> Nat],
         \A b \in Blocks :
            \/ localFront'[b] = localFront[b]
            \/ /\ b <= allocated
               /\ \E i : ReadAt(FrontOf(b), i) /\ localFront'[b] = mem[FrontOf(b)][i].val,
         RingSize - (Len(mem'[FrontBlock]) - 1) > LastUsed(pos)',
         ProducerInv(pos)'
  PROVE  Inv'
  <1>1. MemInv' /\ Trim /\ Same
    BY TrimSame DEF Looks
  <1>2. RingInv(pos)' /\ Ring' = Ring
    BY <1>1, KeepsRing DEF PosInv
  <1>3. EmptyInv(pos)'
    BY <1>1, KeepsEmpty DEF PosInv
  <1>4. FrontBlockInv(pos)' /\ TailBlockInv(pos)'
    BY <1>1, TrimFrontBlock, TrimTailBlock DEF PosInv
  <1>5. ConsumerInv(pos)'
    BY ConsumerKeeps DEF PosInv
  <1>6. TypeInv'
    <2>1. localTail' \in [Blocks -> Nat]
      BY DEF TypeInv
    <2>2. \A b \in Blocks : b > allocated => localFront'[b] = localFront[b]
      BY RingBlocks DEF Blocks
    <2> QED
      BY <1>1, <2>1, <2>2, TrimTyped
  <1>7. FB \in 1 .. allocated /\ TB \in 1 .. allocated /\ FB \in Blocks /\ TB \in Blocks
    BY RingBlocks DEF PosInv, RingInv
  <1>8. ASSUME NEW b \in 1 .. allocated
        PROVE  BlockInv(b)'
    <2>1. b \in Blocks /\ size[b] \in Nat /\ size[b] >= 2
      BY RingBlocks
    <2>2. BlockInv(b) /\ localTail'[b] \in 0 .. size[b] - 1 /\ size'[b] = size[b]
      BY DEF IndexInv, BlockInv
    <2> QED
      BY <1>1, <2>1, <2>2, TrimBlockInv
  <1>9. TailCopied(FB)'
    <2>1. TailCopied(FB) /\ BlockInv(FB) /\ FB' = FB
      BY <1>1, <1>7 DEF IndexInv, Same
    <2>2. ASSUME NEW b \in Blocks, b = FB PROVE TailCopied(b)'
      BY <1>1, <1>7, <2>1, <2>2, TrimTailCopied
    <2> QED
      BY <1>7, <2>1, <2>2 DEF TailCopied, FrontIx
  <1>10. IndexInv'
    BY <1>8, <1>9 DEF IndexInv
  <1>11. SlotInv'
    BY <1>1, <1>7, KeepsSlots DEF SlotInv
  <1>12. pos \in [Ring' -> 0 .. RingSize' - 1]
    BY <1>2 DEF PosInv, RingInv
  <1>13. PosInv(pos)'
    BY <1>2, <1>3, <1>4, <1>5 DEF PosInv
  <1> QED
    BY <1>1, <1>6, <1>10, <1>11, <1>12, <1>13 DEF Inv

LEMMA RoomLeft ==
  ASSUME MemInv, TypeInv, NEW pos, RingInv(pos), FrontBlockInv(pos), Trim
  PROVE  RingSize - (Len(mem'[FrontBlock]) - 1) > LastUsed(pos)
  <1> DEFINE h == mem[FrontBlock]
             g == mem'[FrontBlock]
             x == LastUsed(pos)
             n == RingSize
  <1>1. Len(h) \in Nat /\ Len(h) >= 1 /\ Len(g) \in 1 .. Len(h)
    BY Locs, History DEF Trim
  <1>2. n - (Len(h) - 1) > x
    BY <1>1 DEF FrontBlockInv
  <1>3. x \in Int /\ n \in Nat
    BY RingBlocks DEF LastUsed, RingInv
  <1> HIDE DEF g, h, n, x
  <1>4. n - (Len(g) - 1) > x
    BY <1>1, <1>2, <1>3
  <1> QED
    BY <1>4 DEF g, n, x

LEMMA ConsumerLooks ==
  ASSUME MemInv, TypeInv, IndexInv, SlotInv, NEW pos, PosInv(pos), Looks(C), CallsTyped',
         pc'[P] = pc[P], call'[P] = call[P],
         UNCHANGED <<allocated, largestBlockSize, size, slot, sent, localFront>>,
         (pc'[C] = "release") <=> (pc[C] = "release"),
         localTail' \in [Blocks -> Nat],
         \A b \in Blocks :
            \/ localTail'[b] = localTail[b]
            \/ /\ b <= allocated
               /\ \E i : ReadAt(TailOf(b), i) /\ localTail'[b] = mem[TailOf(b)][i].val,
         ConsumerInv(pos)'
  PROVE  Inv'
  <1>0. RingSize' = RingSize /\ (Advancing' <=> Advancing)
    BY DEF RingSize, Advancing
  <1>1. MemInv' /\ Trim /\ Same
    BY TrimSame DEF Looks
  <1>2. RingInv(pos)' /\ Ring' = Ring
    BY <1>0, <1>1, KeepsRing DEF PosInv
  <1>3. EmptyInv(pos)'
    BY <1>0, <1>1, KeepsEmpty DEF PosInv
  <1>4. FrontBlockInv(pos)' /\ TailBlockInv(pos)'
    <2>1. LastUsed(pos)' = LastUsed(pos)
      BY <1>0, <1>1 DEF LastUsed, Same
    <2>2. RingSize - (Len(mem'[FrontBlock]) - 1) > LastUsed(pos)'
      BY <1>1, <2>1, RoomLeft DEF PosInv
    <2> QED
      BY <1>0, <1>1, <2>2, TrimFrontBlock, TrimTailBlock DEF PosInv
  <1>5. ProducerInv(pos)'
    BY ProducerKeeps DEF PosInv
  <1>6. TypeInv'
    <2>1. localFront' \in [Blocks -> Nat]
      BY DEF TypeInv
    <2> QED
      BY <1>1, <2>1, TrimTyped
  <1>7. FB \in 1 .. allocated /\ TB \in 1 .. allocated /\ FB \in Blocks /\ TB \in Blocks
    BY RingBlocks DEF PosInv, RingInv
  <1>8. ASSUME NEW b \in 1 .. allocated
        PROVE  BlockInv(b)'
    <2>1. b \in Blocks /\ size[b] \in Nat /\ size[b] >= 2
      BY RingBlocks
    <2>2. BlockInv(b) /\ size'[b] = size[b] /\ localFront'[b] = localFront[b]
      BY DEF IndexInv
    <2>3. localTail'[b] \in 0 .. size[b] - 1
      BY <2>1, <2>2 DEF BlockInv, ReadAt
    <2> QED
      BY <1>1, <2>1, <2>2, <2>3, TrimBlockInv
  <1>9. TailCopied(FB)'
    <2>1. TailCopied(FB) /\ BlockInv(FB) /\ FB' = FB
      BY <1>1, <1>7 DEF IndexInv, Same
    <2>2. ASSUME NEW b \in Blocks, b = FB PROVE TailCopied(b)'
      BY <1>1, <1>7, <2>1, <2>2, TrimTailCopied
    <2> QED
      BY <1>7, <2>1, <2>2 DEF TailCopied, FrontIx
  <1>10. IndexInv'
    BY <1>8, <1>9 DEF IndexInv
  <1>11. SlotInv'
    BY <1>1, <1>7, KeepsSlots DEF SlotInv
  <1>12. pos \in [Ring' -> 0 .. RingSize' - 1]
    BY <1>0, <1>2 DEF PosInv, RingInv
  <1>13. PosInv(pos)'
    BY <1>2, <1>3, <1>4, <1>5 DEF PosInv
  <1> QED
    BY <1>1, <1>6, <1>10, <1>11, <1>12, <1>13 DEF Inv

LEMMA StillLooks ==
  ASSUME MemInv, UNCHANGED memVars, NEW t \in Threads
  PROVE  Looks(t)
  <1>1. mem' = mem /\ epoch' = epoch /\ acq' = acq /\ seen' = seen
    BY DEF memVars
  <1>2. MemInv'
    BY <1>1 DEF MemInv
  <1>3. ASSUME NEW loc \in Locations
        PROVE  /\ Len(mem'[loc]) \in 1 .. Len(mem[loc])
               /\ \A j \in 1 .. Len(mem'[loc]) :
                     mem'[loc][j] = mem[loc][j + (Len(mem[loc]) - Len(mem'[loc]))]
    <2>1. Len(mem[loc]) \in Nat /\ Len(mem[loc]) >= 1
      BY History
    <2> QED
      BY <1>1, <2>1
  <1>4. Trim
    BY <1>1, <1>3 DEF Trim, MemInv
  <1>5. seen[t] \in Nat
    BY DEF MemInv
  <1> QED
    BY <1>1, <1>2, <1>4, <1>5 DEF Looks

LEMMA EnqueueStartInv ==
  ASSUME Inv, Enqueue_Start
  PROVE  Inv'
  <1>1. PICK pos : PosInv(pos)
    BY DEF Inv
  <1>2. MemInv /\ TypeInv /\ IndexInv /\ SlotInv /\ CallsTyped
    BY DEF Inv, TypeInv
  <1> DEFINE b == TB
             l == IF Full(b, localFront'[b]) THEN "full" ELSE "write"
  <1>3. PICK op : Begin(P, op, None) /\ Goto(P, l)
    BY DEF Enqueue_Start, TB
  <1>4. l \in Labels /\ l \in {"full", "write"} /\ (l = "write" => ~ Full(b, localFront'[b]))
    BY DEF Labels
  <1> HIDE DEF l
  <1>5. P \in Threads /\ C \in Threads /\ P # C
    BY Locs
  <1>6. Moves(P, l) /\ pc[P] = "idle"
    BY <1>2, <1>3, <1>4, <1>5, BeginMoves
  <1>7. /\ CallsTyped' /\ pc'[P] = l /\ pc'[C] = pc[C] /\ call'[C] = call[C]
    BY <1>5, <1>6 DEF Moves
  <1>8. UNCHANGED <<allocated, largestBlockSize, size, slot, sent, localTail>>
    BY DEF Enqueue_Start, blockVars, cVars
  <1>9. RingInv(pos) /\ FrontBlockInv(pos) /\ TB \in Ring /\ TB \in 1 .. allocated /\ TB \in Blocks
        /\ TB <= allocated
    BY <1>1, <1>2, RingBlocks DEF PosInv, RingInv
  <1>10. FrontOf(b) \in Locations /\ Owner(FrontOf(b)) = C
    BY <1>9, Locs, Owners
  <1>11. \/ \E i \in DOMAIN mem[FrontOf(b)] :
                /\ Load(P, FrontOf(b), i, TRUE)
                /\ localFront' = [localFront EXCEPT ![b] = mem[FrontOf(b)][i].val]
         \/ Fence(P) /\ localFront' = localFront
    BY DEF Enqueue_Start, TB
  <1>12. localFront \in [Blocks -> Nat]
    BY <1>2 DEF TypeInv
  <1>13. /\ Looks(P) /\ localFront' \in [Blocks -> Nat]
         /\ \A c \in Blocks :
            \/ localFront'[c] = localFront[c]
            \/ /\ c <= allocated
               /\ \E i : ReadAt(FrontOf(c), i) /\ localFront'[c] = mem[FrontOf(c)][i].val
    <2>1. CASE Fence(P) /\ localFront' = localFront
      BY <2>1, <1>2, <1>5, <1>12, FenceLooks
    <2>2. ASSUME NEW i \in DOMAIN mem[FrontOf(b)], Load(P, FrontOf(b), i, TRUE),
                 localFront' = [localFront EXCEPT ![b] = mem[FrontOf(b)][i].val]
          PROVE  <1>13!:
      <3>1. Looks(P) /\ i \in 1 .. Len(mem[FrontOf(b)])
            /\ Len(mem'[FrontOf(b)]) <= Len(mem[FrontOf(b)]) - i + 1
        BY <2>2, <1>2, <1>5, <1>10, LoadLooks
      <3>2. ReadAt(FrontOf(b), i)
        BY <3>1 DEF ReadAt
      <3>3. mem[FrontOf(b)][i].val \in Nat
        BY <3>1, <1>2, <1>10, History
      <3> QED
        BY <2>2, <3>1, <3>2, <3>3, <1>9, <1>12
    <2> QED
      BY <2>1, <2>2, <1>11
  <1>14. Trim /\ Same
    BY <1>2, <1>13, TrimSame DEF Looks
  <1>15. RingSize' = RingSize /\ LastUsed(pos)' = LastUsed(pos)
    BY <1>4, <1>6, <1>7, <1>8, <1>14 DEF RingSize, LastUsed, Advancing, Same
  <1>16. RingSize - (Len(mem'[FrontBlock]) - 1) > LastUsed(pos)'
    BY <1>2, <1>9, <1>14, <1>15, RoomLeft
  <1>17. ProducerInv(pos)'
    <2>1. TB' = TB /\ TailIx(TB)' = TailIx(TB)
      BY <1>9, <1>14 DEF Same
    <2>2. l = "write" => (TailIx(TB)' + 1) % size'[TB'] # localFront'[TB']
      BY <2>1, <1>4, <1>8 DEF Full, Succ, TailIx
    <2>3. pc'[P] \in {"full", "write"}
      BY <1>4, <1>7
    <2> QED
      BY <2>2, <2>3, <1>7 DEF ProducerInv, Advancing, Filling
  <1>18. pc[P] # "publishBlock" /\ {pc[P], pc'[P]} \cap {"publish", "publishNext"} = {}
    BY <1>4, <1>6, <1>7
  <1> QED
    BY <1>1, <1>2, <1>7, <1>8, <1>13, <1>15, <1>16, <1>17, <1>18, ProducerLooks

LEMMA EnqueueFullInv ==
  ASSUME Inv, Enqueue_Full
  PROVE  Inv'
  <1>1. PICK pos : PosInv(pos)
    BY DEF Inv
  <1>2. MemInv /\ TypeInv /\ IndexInv /\ SlotInv /\ CallsTyped
    BY DEF Inv, TypeInv
  <1>3. P \in Threads /\ C \in Threads /\ P # C
    BY Locs
  <1>4. pc[P] = "full" /\ UNCHANGED <<allocated, largestBlockSize, size, slot, sent, localTail, localFront>>
    BY DEF Enqueue_Full, pVars, blockVars, cVars
  <1>5. PICK i \in DOMAIN mem[FrontBlock] :
            /\ Load(P, FrontBlock, i, BlockAhead(mem[FrontBlock][i].val))
            /\ \/ BlockAhead(mem[FrontBlock][i].val) /\ GoOn(P, "advance")
               \/ ~ BlockAhead(mem[FrontBlock][i].val) /\ GoOn(P, "alloc")
               \/ ~ BlockAhead(mem[FrontBlock][i].val) /\ Return(P)
    BY DEF Enqueue_Full
  <1> DEFINE ahead == BlockAhead(mem[FrontBlock][i].val)
  <1>6. ahead \in BOOLEAN /\ FrontBlock \in Locations /\ Owner(FrontBlock) # P
    BY Locs, Owners DEF BlockAhead
  <1>7. /\ Looks(P) /\ i \in 1 .. Len(mem[FrontBlock])
        /\ Len(mem'[FrontBlock]) <= Len(mem[FrontBlock]) - i + 1
        /\ (ahead => mem'[FrontBlock][1].at <= seen'[P])
    <2> HIDE DEF ahead
    <2>1. Load(P, FrontBlock, i, ahead)
      BY <1>5 DEF ahead
    <2> QED
      BY <2>1, <1>2, <1>3, <1>6, LoadLooks
  <1>8. /\ CallsTyped' /\ pc'[C] = pc[C] /\ call'[C] = call[C]
        /\ \/ ahead /\ pc'[P] = "advance"
           \/ ~ ahead /\ pc'[P] = "alloc"
           \/ ~ ahead /\ pc'[P] = "idle"
    <2>1. "advance" \in Labels /\ "alloc" \in Labels
      BY DEF Labels
    <2> QED
      BY <1>2, <1>3, <1>5, <2>1, GoOnMoves, ReturnMoves DEF Moves
  <1>9. Trim /\ Same
    BY <1>2, <1>7, TrimSame DEF Looks
  <1>10. RingInv(pos) /\ FrontBlockInv(pos) /\ TB \in Ring /\ TB \in Blocks
    BY <1>1, <1>2, RingBlocks DEF PosInv, RingInv
  <1>11. RingSize' = RingSize /\ TB' = TB /\ ~ Advancing
    BY <1>4, <1>8, <1>9 DEF RingSize, Same, Advancing
  <1> DEFINE n == RingSize
             h == mem[FrontBlock]
             g == mem'[FrontBlock]
             x == pos[TB]
  <1>12. /\ Len(h) \in Nat /\ Len(g) \in Nat /\ Len(g) >= 1 /\ i \in 1 .. Len(h)
         /\ Len(g) <= Len(h) - i + 1
    BY <1>2, <1>7, <1>9, Locs, History DEF Trim
  <1>13. n \in Nat /\ x \in 0 .. n - 1
    BY <1>2, <1>10, RingBlocks DEF RingInv
  <1>14. LastUsed(pos) = x /\ n - (Len(h) - i) > x
    <2>1. LastUsed(pos) = x
      BY <1>11 DEF LastUsed
    <2> QED
      BY <2>1, <1>7, <1>10 DEF FrontBlockInv
  <1>15. ASSUME ahead
         PROVE  n - (Len(h) - i) > x + 1
    <2>1. h[i].val # NextB(TB)
      BY <1>15 DEF BlockAhead, NextB, TB
    <2>2. h[i].val \in Ring /\ pos[h[i].val] = IF Len(h) - i > 0 THEN n - (Len(h) - i) ELSE 0
      <3>1. CASE Len(h) - i > 0
        BY <3>1, <1>7, <1>10 DEF FrontBlockInv
      <3>2. CASE ~ (Len(h) - i > 0)
        <4>1. i = Len(h)
          BY <3>2, <1>12
        <4>2. h[i].val = FB
          BY <4>1 DEF FB, Newest
        <4> QED
          BY <4>2, <3>2, <1>10 DEF RingInv
      <3> QED
        BY <3>1, <3>2
    <2>3. /\ NextB(TB) \in Ring
          /\ pos[NextB(TB)] = IF x = n - 1 THEN 0 ELSE x + 1
          /\ (pos[NextB(TB)] = pos[h[i].val] => NextB(TB) = h[i].val)
      BY <1>10, <2>2 DEF RingInv
    <2>4. pos[NextB(TB)] # pos[h[i].val]
      BY <2>1, <2>3
    <2> DEFINE d == Len(h) - i
               p == pos[NextB(TB)]
               q == pos[h[i].val]
    <2>5. /\ p = IF x = n - 1 THEN 0 ELSE x + 1
          /\ q = IF d > 0 THEN n - d ELSE 0
          /\ p # q /\ n - d > x
      BY <2>2, <2>3, <2>4, <1>14
    <2>6. d \in Nat
      <3> HIDE DEF h
      <3> QED
        BY <1>12
    <2> HIDE DEF n, h, g, x, d, p, q
    <2>7. n - d > x + 1
      BY <2>5, <2>6, <1>13
    <2> QED
      BY <2>7 DEF d
  <1>16. RingSize - (Len(mem'[FrontBlock]) - 1) > LastUsed(pos)'
    <2>1. LastUsed(pos)' = IF ahead THEN x + 1 ELSE x
      <3>1. Advancing' <=> ahead
        BY <1>8 DEF Advancing
      <3> QED
        BY <3>1, <1>11 DEF LastUsed
    <2> HIDE DEF n, h, g, x, ahead
    <2>2. n - (Len(g) - 1) > LastUsed(pos)'
      BY <2>1, <1>12, <1>13, <1>14, <1>15
    <2> QED
      BY <2>2 DEF n, g
  <1>17. ProducerInv(pos)'
    <2>1. CASE ahead
      <3>1. pc'[P] = "advance" /\ mem'[FrontBlock][1].at <= seen'[P]
        BY <2>1, <1>7, <1>8
      <3>2. x + 1 < n
        <4>1. n - (Len(h) - i) > x + 1
          BY <2>1, <1>15
        <4> HIDE DEF n, h, x
        <4> QED
          BY <4>1, <1>12, <1>13
      <3> QED
        BY <3>1, <3>2, <1>11 DEF ProducerInv, Advancing, Filling
    <2>2. CASE ~ ahead
      <3>1. pc'[P] \in {"alloc", "idle"}
        BY <2>2, <1>8
      <3> QED
        BY <3>1 DEF ProducerInv, Advancing, Filling
    <2> QED
      BY <2>1, <2>2
  <1>18. pc[P] # "publishBlock" /\ {pc[P], pc'[P]} \cap {"publish", "publishNext"} = {}
    BY <1>4, <1>8
  <1>19. localFront' \in [Blocks -> Nat]
    BY <1>2, <1>4 DEF TypeInv
  <1> QED
    BY <1>1, <1>2, <1>4, <1>7, <1>8, <1>11, <1>16, <1>17, <1>18, <1>19, ProducerLooks

LEMMA SettledNow ==
  ASSUME MemInv, NEW loc \in Locations, NEW e \in Nat, e <= seen[Reader(loc)],
         Settled(mem[loc], e)
  PROVE  Len(mem[loc]) = 1
  <1> DEFINE n == Len(mem[loc])
  <1>1. n \in Nat /\ n >= 1
    BY History
  <1>2. n = 1 \/ mem[loc][n].at < e
    BY DEF Settled
  <1>3. ASSUME n # 1 PROVE FALSE
    <2>0. Len(mem[loc]) = n
      OBVIOUS
    <2> HIDE DEF n
    <2>1. n \in 2 .. Len(mem[loc]) /\ n \in 1 .. Len(mem[loc])
      BY <1>1, <1>3, <2>0
    <2>2. mem[loc][n].at >= seen[Reader(loc)] /\ mem[loc][n].at \in Nat
      BY <2>1, History DEF MemInv
    <2>3. seen[Reader(loc)] \in Nat
      BY Owners DEF MemInv
    <2> QED
      BY <1>2, <1>3, <2>2, <2>3
  <1> QED
    BY <1>3

LEMMA VisibleNow ==
  ASSUME MemInv, NEW loc \in Locations, NEW e \in Nat, e <= seen[Reader(loc)],
         NEW f, Visible(mem[loc], f, e), NEW i \in 1 .. Len(mem[loc])
  PROVE  mem[loc][i].val # f
  <1>1. PICK k \in 1 .. Len(mem[loc]) :
            /\ k = 1 \/ mem[loc][k].at < e
            /\ \A j \in k .. Len(mem[loc]) : mem[loc][j].val # f
    BY DEF Visible
  <1>2. Len(mem[loc]) \in Nat
    BY History
  <1>3. ASSUME k # 1 PROVE FALSE
    <2>1. k \in 2 .. Len(mem[loc])
      BY <1>2, <1>3
    <2>2. mem[loc][k].at >= seen[Reader(loc)] /\ mem[loc][k].at \in Nat
      BY <2>1, History DEF MemInv
    <2>3. seen[Reader(loc)] \in Nat
      BY Owners DEF MemInv
    <2> QED
      BY <1>1, <1>3, <2>2, <2>3
  <1>4. i \in k .. Len(mem[loc])
    BY <1>2, <1>3
  <1> QED
    BY <1>1, <1>4

\* The block that the producer is about to reuse was emptied before anything that
\* it can still read.
LEMMA AdvanceReads ==
  ASSUME MemInv, TypeInv, NEW pos, PosInv(pos), pc[P] = "advance"
  PROVE  /\ NextB(TB) \in Ring /\ pos[NextB(TB)] = pos[TB] + 1
         /\ Len(mem[FrontOf(NextB(TB))]) = 1
         /\ FrontIx(NextB(TB)) = TailIx(NextB(TB))
  <1>1. RingInv(pos) /\ FrontBlockInv(pos) /\ EmptyInv(pos) /\ ProducerInv(pos)
    BY DEF PosInv
  <1>2. Advancing /\ pos[TB] + 1 < RingSize /\ mem[FrontBlock][1].at <= seen[P]
    BY <1>1 DEF ProducerInv, Advancing
  <1> DEFINE b == NextB(TB)
             n == RingSize
             x == pos[TB]
             s == mem[FrontBlock][1]
             d == Len(mem[FrontBlock]) - 1
  <1>3. n \in Nat /\ x \in 0 .. n - 1 /\ TB \in Ring
    BY <1>1, RingBlocks DEF RingInv
  <1>4. b \in Ring /\ pos[b] = IF x = n - 1 THEN 0 ELSE x + 1
    BY <1>1, <1>3 DEF RingInv
  <1>5. pos[b] = x + 1
    BY <1>2, <1>3, <1>4
  <1>6. n - d > x + 1 /\ (\A c \in Ring : x < pos[c] /\ pos[c] < n - d => Settled(mem[FrontOf(c)], s.at))
        /\ s.at \in Nat
    <2>1. 1 \in 1 .. Len(mem[FrontBlock])
      BY Locs, History
    <2>2. LastUsed(pos) = x + 1
      BY <1>2 DEF LastUsed
    <2> QED
      BY <2>1, <2>2, <1>1, Locs, History DEF FrontBlockInv
  <1>7. Settled(mem[FrontOf(b)], s.at)
    <2>1. d \in Int
      BY Locs, History
    <2> HIDE DEF d, n, x, b, s
    <2>2. x < pos[b] /\ pos[b] < n - d
      BY <1>3, <1>5, <1>6, <2>1
    <2> QED
      BY <2>2, <1>4, <1>6
  <1>8. FrontOf(b) \in Locations /\ Reader(FrontOf(b)) = P
    BY <1>4, Locs, Owners, RingBlocks
  <1>9. Len(mem[FrontOf(b)]) = 1
    <2> HIDE DEF s, b
    <2>1. s.at \in Nat /\ s.at <= seen[P]
      BY <1>2, <1>6 DEF s
    <2> QED
      BY <2>1, <1>7, <1>8, SettledNow
  <1>10. FrontIx(b) = TailIx(b)
    <2>1. pos[b] > x
      BY <1>3, <1>5
    <2> QED
      BY <2>1, <1>1, <1>4 DEF EmptyInv
  <1> QED
    BY <1>4, <1>5, <1>9, <1>10

LEMMA EnqueueAdvanceInv ==
  ASSUME Inv, Enqueue_Advance
  PROVE  Inv'
  <1>1. PICK pos : PosInv(pos)
    BY DEF Inv
  <1>2. MemInv /\ TypeInv /\ IndexInv /\ SlotInv /\ CallsTyped
    BY DEF Inv, TypeInv
  <1>3. P \in Threads /\ C \in Threads /\ P # C /\ "writeNext" \in Labels
    BY Locs DEF Labels
  <1> DEFINE b == NextB(TB)
  <1>4. pc[P] = "advance" /\ UNCHANGED <<allocated, largestBlockSize, size, slot, sent, localTail>>
        /\ GoOnWith(P, "writeNext", b)
    BY DEF Enqueue_Advance, blockVars, cVars, NextB, TB
  <1>5. PICK i \in DOMAIN mem[FrontOf(b)] :
            /\ Load(P, FrontOf(b), i, TRUE)
            /\ localFront' = [localFront EXCEPT ![b] = mem[FrontOf(b)][i].val]
    BY DEF Enqueue_Advance, NextB, TB
  <1>6. /\ RingInv(pos) /\ FrontBlockInv(pos) /\ TB \in Ring /\ TB \in Blocks
        /\ b \in Ring /\ b \in Blocks /\ b <= allocated /\ FrontOf(b) \in Locations
        /\ Owner(FrontOf(b)) # P
        /\ Len(mem[FrontOf(b)]) = 1
    BY <1>1, <1>2, <1>4, RingBlocks, AdvanceReads, Locs, Owners DEF PosInv, RingInv
  <1>7. CallsTyped' /\ pc'[P] = "writeNext" /\ pc'[C] = pc[C] /\ call'[C] = call[C]
        /\ call'[P].block = b
    BY <1>2, <1>3, <1>4, GoOnWithMoves DEF Moves
  <1>8. /\ Looks(P) /\ i \in 1 .. Len(mem[FrontOf(b)])
        /\ Len(mem'[FrontOf(b)]) <= Len(mem[FrontOf(b)]) - i + 1
    BY <1>2, <1>3, <1>5, <1>6, LoadLooks
  <1>9. ReadAt(FrontOf(b), i) /\ mem[FrontOf(b)][i].val \in Nat
    BY <1>2, <1>6, <1>8, History DEF ReadAt
  <1>10. localFront \in [Blocks -> Nat]
    BY <1>2 DEF TypeInv
  <1>11. /\ localFront' \in [Blocks -> Nat]
         /\ \A c \in Blocks :
            \/ localFront'[c] = localFront[c]
            \/ /\ c <= allocated
               /\ \E j : ReadAt(FrontOf(c), j) /\ localFront'[c] = mem[FrontOf(c)][j].val
    BY <1>5, <1>6, <1>9, <1>10
  <1>12. Trim /\ Same
    BY <1>2, <1>8, TrimSame DEF Looks
  <1>13. RingSize' = RingSize /\ LastUsed(pos)' = LastUsed(pos)
    BY <1>4, <1>7, <1>12 DEF RingSize, LastUsed, Advancing, Same
  <1>14. RingSize - (Len(mem'[FrontBlock]) - 1) > LastUsed(pos)'
    BY <1>2, <1>6, <1>12, <1>13, RoomLeft
  <1>15. localFront'[b] = FrontIx(b)
    <2>1. i = Len(mem[FrontOf(b)])
      BY <1>6, <1>8
    <2> QED
      BY <2>1, <1>5, <1>6, <1>10 DEF FrontIx, Newest
  <1>16. ProducerInv(pos)'
    <2>1. pos[TB] + 1 < RingSize
      BY <1>1, <1>4 DEF PosInv, ProducerInv, Advancing
    <2>2. TB' = TB /\ NextB(TB)' = b /\ FrontIx(call[P].block)' = FrontIx(b)
      <3>1. TB' = TB /\ \A c \in Blocks : NextB(c)' = NextB(c) /\ FrontIx(c)' = FrontIx(c)
        BY <1>12 DEF Same
      <3>2. NextB(TB)' = b
        BY <3>1, <1>6
      <3>3. FrontIx(b)' = FrontIx(b)
        BY <3>1, <3>2, <1>6 DEF FrontIx
      <3> QED
        BY <3>1, <3>2, <3>3, <1>7 DEF FrontIx
    <2> QED
      BY <2>1, <2>2, <1>7, <1>13, <1>15 DEF ProducerInv
  <1>17. pc[P] # "publishBlock" /\ {pc[P], pc'[P]} \cap {"publish", "publishNext"} = {}
    BY <1>4, <1>7
  <1> QED
    BY <1>1, <1>2, <1>4, <1>7, <1>8, <1>11, <1>13, <1>14, <1>16, <1>17, ProducerLooks

LEMMA CountMoves ==
  ASSUME CallsTyped, NEW t \in Threads, NEW l \in Labels, NEW r,
         Goto(t, l), call' = [call EXCEPT ![t] = [call[t] EXCEPT !.result = r]]
  PROVE  Moves(t, l) /\ call'[t].block = call[t].block
  <1>2. DOMAIN call = Threads /\ \A u \in Threads : DOMAIN call[u] = DOMAIN NoCall
    BY DEF CallsTyped
  <1>3. DOMAIN NoCall = {"op", "block", "first", "result", "atStart"}
    BY DEF NoCall
  <1> DEFINE c == [call[t] EXCEPT !.result = r]
  <1>4. DOMAIN c = DOMAIN NoCall /\ c.block = call[t].block
    BY <1>2, <1>3
  <1> HIDE DEF c
  <1>5. DOMAIN call' = Threads /\ call'[t] = c /\ \A u \in Threads : u # t => call'[u] = call[u]
    BY <1>2 DEF c
  <1>6. CallsTyped'
    BY <1>2, <1>4, <1>5, GotoMoves DEF CallsTyped
  <1> QED
    BY <1>4, <1>5, <1>6, GotoMoves DEF Moves

\* A step by which a thread that is outside enqueue and dequeue stays outside.
Outside == {"idle", "count", "follow"}

LEMMA ProducerStays ==
  ASSUME Inv, NEW pos, PosInv(pos), Looks(P), NEW l \in Outside, Moves(P, l),
         pc[P] \in Outside \cup {"alloc"}, l # "idle" => call'[P].block \in Ring,
         UNCHANGED <<slot, pVars, cVars>>
  PROVE  Inv'
  <1>1. MemInv /\ TypeInv /\ IndexInv /\ SlotInv /\ CallsTyped /\ RingInv(pos) /\ FrontBlockInv(pos)
    BY DEF Inv, TypeInv, PosInv
  <1>2. UNCHANGED <<allocated, largestBlockSize, size, slot, sent, localTail, localFront>>
    BY DEF pVars, blockVars, cVars
  <1>3. CallsTyped' /\ pc'[P] = l /\ pc'[C] = pc[C] /\ call'[C] = call[C]
    BY Locs DEF Moves
  <1>4. Trim /\ Same
    BY <1>1, TrimSame DEF Looks
  <1>5. RingSize' = RingSize /\ LastUsed(pos)' = LastUsed(pos) /\ Ring' = Ring
    BY <1>2, <1>3, <1>4 DEF RingSize, Ring, LastUsed, Advancing, Same, Outside
  <1>6. RingSize - (Len(mem'[FrontBlock]) - 1) > LastUsed(pos)'
    BY <1>1, <1>4, <1>5, RoomLeft
  <1>7. ProducerInv(pos)'
    BY <1>3, <1>5 DEF ProducerInv, Advancing, Filling, Outside
  <1>8. pc[P] # "publishBlock" /\ {pc[P], pc'[P]} \cap {"publish", "publishNext"} = {}
    BY <1>3 DEF Outside
  <1>9. localFront' \in [Blocks -> Nat]
    BY <1>1, <1>2 DEF TypeInv
  <1> QED
    BY <1>1, <1>2, <1>3, <1>5, <1>6, <1>7, <1>8, <1>9, ProducerLooks

LEMMA ConsumerStays ==
  ASSUME Inv, NEW pos, PosInv(pos), Looks(C), NEW l \in Outside, Moves(C, l),
         pc[C] \in Outside, l # "idle" => call'[C].block \in Ring,
         UNCHANGED <<slot, pVars, cVars>>
  PROVE  Inv'
  <1>1. MemInv /\ TypeInv /\ IndexInv /\ SlotInv /\ CallsTyped
    BY DEF Inv, TypeInv
  <1>2. UNCHANGED <<allocated, largestBlockSize, size, slot, sent, localTail, localFront>>
    BY DEF pVars, blockVars, cVars
  <1>3. CallsTyped' /\ pc'[C] = l /\ pc'[P] = pc[P] /\ call'[P] = call[P]
    BY Locs DEF Moves
  <1>4. Ring' = Ring
    BY <1>2, <1>3 DEF Ring, RingSize
  <1>5. ConsumerInv(pos)'
    BY <1>3, <1>4 DEF ConsumerInv, Leaving, Outside
  <1>6. (pc'[C] = "release") <=> (pc[C] = "release")
    BY <1>3 DEF Outside
  <1>7. localTail' \in [Blocks -> Nat]
    BY <1>1, <1>2 DEF TypeInv
  <1> QED
    BY <1>1, <1>2, <1>3, <1>5, <1>6, <1>7, ConsumerLooks

LEMMA EnqueueNoMemoryInv ==
  ASSUME Inv, Enqueue_NoMemory
  PROVE  Inv'
  <1>1. PICK pos : PosInv(pos)
    BY DEF Inv
  <1>2. MemInv /\ CallsTyped /\ P \in Threads /\ "idle" \in Outside
    BY Locs DEF Inv, TypeInv, Outside
  <1>3. pc[P] = "alloc" /\ Return(P) /\ UNCHANGED memVars /\ UNCHANGED <<slot, pVars, cVars>>
    BY DEF Enqueue_NoMemory
  <1>4. Looks(P) /\ Moves(P, "idle")
    BY <1>2, <1>3, StillLooks, ReturnMoves
  <1> QED
    BY <1>1, <1>2, <1>3, <1>4, ProducerStays

LEMMA SizeProducerInv ==
  ASSUME Inv, Size_Start(P) \/ Size_Count(P) \/ Size_Follow(P)
  PROVE  Inv'
  <1>1. PICK pos : PosInv(pos)
    BY DEF Inv
  <1>2. MemInv /\ TypeInv /\ CallsTyped /\ RingInv(pos) /\ FrontBlockInv(pos) /\ ProducerInv(pos)
    BY <1>1 DEF Inv, TypeInv, PosInv
  <1>3. /\ P \in Threads /\ P # C
        /\ "idle" \in Outside /\ "count" \in Outside /\ "follow" \in Outside
        /\ "idle" \in Labels /\ "count" \in Labels /\ "follow" \in Labels
    BY Locs DEF Outside, Labels
  <1>4. UNCHANGED <<slot, pVars, cVars>>
    BY DEF Size_Start, Size_Count, Size_Follow
  <1>5. CASE Size_Start(P)
    <2>1. PICK i \in DOMAIN mem[FrontBlock] :
            /\ Load(P, FrontBlock, i, TRUE)
            /\ Begin(P, "size_approx", mem[FrontBlock][i].val)
      BY <1>5, <1>3 DEF Size_Start
    <2>2. Goto(P, "count")
      BY <1>5 DEF Size_Start
    <2>3. FrontBlock \in Locations /\ Owner(FrontBlock) # P
      BY Locs, Owners
    <2>4. Looks(P) /\ i \in 1 .. Len(mem[FrontBlock])
      BY <1>2, <1>3, <2>1, <2>3, LoadLooks
    <2>5. Moves(P, "count") /\ pc[P] = "idle" /\ call'[P].block = mem[FrontBlock][i].val
      BY <1>2, <1>3, <2>1, <2>2, BeginMoves
    <2>6. mem[FrontBlock][i].val \in Ring
      <3>1. CASE i = Len(mem[FrontBlock])
        BY <3>1, <1>2 DEF RingInv, FB, Newest
      <3>2. CASE i # Len(mem[FrontBlock])
        <4>1. Len(mem[FrontBlock]) - i > 0
          BY <3>2, <2>3, <2>4, <1>2, History
        <4> QED
          BY <4>1, <2>4, <1>2 DEF FrontBlockInv
      <3> QED
        BY <3>1, <3>2
    <2> QED
      BY <1>1, <1>3, <1>4, <2>4, <2>5, <2>6, ProducerStays
  <1>6. CASE Size_Count(P)
    <2> DEFINE b == call[P].block
    <2>1. PICK i \in DOMAIN mem[FrontOf(b)] :
            /\ Load(P, FrontOf(b), i, FALSE)
            /\ \E r : call' = [call EXCEPT ![P] = [call[P] EXCEPT !.result = r]]
      BY <1>6 DEF Size_Count
    <2>2. pc[P] = "count" /\ Goto(P, "follow")
      BY <1>6 DEF Size_Count
    <2>3. b \in Ring /\ FrontOf(b) \in Locations /\ Owner(FrontOf(b)) # P
      BY <1>2, <1>3, <2>2, Locs, Owners, RingBlocks DEF ProducerInv
    <2>4. Looks(P)
      BY <1>2, <1>3, <2>1, <2>3, LoadLooks
    <2>5. Moves(P, "follow") /\ call'[P].block = b
      BY <1>2, <1>3, <2>1, <2>2, CountMoves
    <2> QED
      BY <1>1, <1>3, <1>4, <2>2, <2>3, <2>4, <2>5, ProducerStays
  <1>7. CASE Size_Follow(P)
    <2> DEFINE b == call[P].block
               c == NextB(b)
    <2>1. pc[P] = "follow"
      BY <1>7 DEF Size_Follow
    <2>2. b \in Ring /\ c \in Ring
      BY <1>2, <2>1 DEF ProducerInv, RingInv
    <2>3. /\ Fence(P) \/ UNCHANGED memVars
          /\ Return(P) \/ GoOnWith(P, "count", c)
      BY <1>3, <1>7 DEF Size_Follow, NextB, Newest
    <2>4. Looks(P)
      BY <1>2, <1>3, <2>3, FenceLooks, StillLooks
    <2>5. Moves(P, "idle") \/ (Moves(P, "count") /\ call'[P].block = c)
      <3>1. CASE Return(P)
        BY <3>1, <1>2, <1>3, ReturnMoves
      <3>2. CASE GoOnWith(P, "count", c)
        <4> HIDE DEF c
        <4> QED
          BY <3>2, <1>2, <1>3, GoOnWithMoves
      <3> QED
        BY <2>3, <3>1, <3>2
    <2> QED
      BY <1>1, <1>3, <1>4, <2>1, <2>2, <2>4, <2>5, ProducerStays
  <1> QED
    BY <1>5, <1>6, <1>7

\* With one memory the consumer, too, may call size_approx.
LEMMA SizeConsumerInv ==
  ASSUME Inv, ~ Relaxed, Size_Start(C) \/ Size_Count(C) \/ Size_Follow(C)
  PROVE  Inv'
  <1>1. PICK pos : PosInv(pos)
    BY DEF Inv
  <1>2. MemInv /\ TypeInv /\ CallsTyped /\ RingInv(pos) /\ ConsumerInv(pos)
    BY <1>1 DEF Inv, TypeInv, PosInv
  <1>3. /\ C \in Threads /\ P # C
        /\ "idle" \in Outside /\ "count" \in Outside /\ "follow" \in Outside
        /\ "idle" \in Labels /\ "count" \in Labels /\ "follow" \in Labels
    BY Locs DEF Outside, Labels
  <1>4. UNCHANGED <<slot, pVars, cVars>>
    BY DEF Size_Start, Size_Count, Size_Follow
  <1>5. CASE Size_Start(C)
    <2>1. Fence(C) /\ Begin(C, "size_approx", FB)
      BY <1>3, <1>5 DEF Size_Start, FB, Newest
    <2>2. Goto(C, "count")
      BY <1>5 DEF Size_Start
    <2>3. Looks(C)
      BY <1>2, <1>3, <2>1, FenceLooks
    <2>4. Moves(C, "count") /\ pc[C] = "idle" /\ call'[C].block = FB
      BY <1>2, <1>3, <2>1, <2>2, BeginMoves
    <2>5. FB \in Ring
      BY <1>2 DEF RingInv
    <2> QED
      BY <1>1, <1>3, <1>4, <2>3, <2>4, <2>5, ConsumerStays
  <1>6. CASE Size_Count(C)
    <2> DEFINE b == call[C].block
    <2>1. PICK i \in DOMAIN mem[TailOf(b)] :
            /\ Load(C, TailOf(b), i, FALSE)
            /\ \E r : call' = [call EXCEPT ![C] = [call[C] EXCEPT !.result = r]]
      BY <1>3, <1>6 DEF Size_Count
    <2>2. pc[C] = "count" /\ Goto(C, "follow")
      BY <1>6 DEF Size_Count
    <2>3. b \in Ring /\ TailOf(b) \in Locations /\ Owner(TailOf(b)) # C
      BY <1>2, <1>3, <2>2, Locs, Owners, RingBlocks DEF ConsumerInv
    <2>4. Looks(C)
      BY <1>2, <1>3, <2>1, <2>3, LoadLooks
    <2>5. Moves(C, "follow") /\ call'[C].block = b
      BY <1>2, <1>3, <2>1, <2>2, CountMoves
    <2> QED
      BY <1>1, <1>3, <1>4, <2>2, <2>3, <2>4, <2>5, ConsumerStays
  <1>7. CASE Size_Follow(C)
    <2> DEFINE b == call[C].block
               c == NextB(b)
    <2>1. pc[C] = "follow"
      BY <1>7 DEF Size_Follow
    <2>2. b \in Ring /\ c \in Ring /\ NextOf(b) \in Locations /\ Owner(NextOf(b)) # C
      BY <1>2, <1>3, <2>1, Locs, Owners, RingBlocks DEF ConsumerInv, RingInv
    <2>3. PICK i \in DOMAIN mem[NextOf(b)] :
            LET d == mem[NextOf(b)][i].val
                end == d = call[C].first
            IN  /\ Load(C, NextOf(b), i, ~ end)
                /\ Return(C) \/ GoOnWith(C, "count", d)
      BY <1>3, <1>7 DEF Size_Follow
    <2>4. mem[NextOf(b)][i].val = c
      <3>1. Len(mem[NextOf(b)]) = 1
        BY <1>2, <2>2 DEF MemInv
      <3>2. i = Len(mem[NextOf(b)])
        BY <1>2, <2>2, <2>3, <3>1, History
      <3> QED
        BY <3>2 DEF NextB, Newest
    <2>5. Looks(C)
      <3> DEFINE f == ~ (mem[NextOf(b)][i].val = call[C].first)
      <3>1. f \in BOOLEAN /\ Load(C, NextOf(b), i, f)
        BY <2>3
      <3> HIDE DEF f
      <3> QED
        BY <3>1, <1>2, <1>3, <2>2, LoadLooks
    <2>6. Moves(C, "idle") \/ (Moves(C, "count") /\ call'[C].block = c)
      <3>1. CASE Return(C)
        BY <3>1, <1>2, <1>3, ReturnMoves
      <3>2. CASE GoOnWith(C, "count", c)
        <4> HIDE DEF c
        <4> QED
          BY <3>2, <1>2, <1>3, GoOnWithMoves
      <3> QED
        BY <2>3, <2>4, <3>1, <3>2
    <2> QED
      BY <1>1, <1>3, <1>4, <2>1, <2>2, <2>5, <2>6, ConsumerStays
  <1> QED
    BY <1>5, <1>6, <1>7

LEMMA DequeueStartInv ==
  ASSUME Inv, Dequeue_Start
  PROVE  Inv'
  <1>1. PICK pos : PosInv(pos)
    BY DEF Inv
  <1>2. MemInv /\ TypeInv /\ IndexInv /\ SlotInv /\ CallsTyped
    BY DEF Inv, TypeInv
  <1> DEFINE b == FB
             l == IF FrontIx(b) = localTail'[b] THEN "checkTail" ELSE "take"
  <1>3. PICK op : Begin(C, op, b) /\ Goto(C, l)
    BY DEF Dequeue_Start, FB, FrontIx
  <1>4. l \in Labels /\ l \in {"checkTail", "take"} /\ (l = "take" => FrontIx(b) # localTail'[b])
    BY DEF Labels
  <1> HIDE DEF l
  <1>5. P \in Threads /\ C \in Threads /\ P # C
    BY Locs
  <1>6. Moves(C, l) /\ pc[C] = "idle" /\ call'[C].block = b
    <2> HIDE DEF b
    <2> QED
      BY <1>2, <1>3, <1>4, <1>5, BeginMoves
  <1>7. /\ CallsTyped' /\ pc'[C] = l /\ pc'[P] = pc[P] /\ call'[P] = call[P]
    BY <1>5, <1>6 DEF Moves
  <1>8. UNCHANGED <<allocated, largestBlockSize, size, slot, sent, localFront>>
    BY DEF Dequeue_Start, pVars, blockVars
  <1>9. RingInv(pos) /\ FB \in Ring /\ FB \in 1 .. allocated /\ FB \in Blocks /\ FB <= allocated
    BY <1>1, <1>2, RingBlocks DEF PosInv, RingInv
  <1>10. TailOf(b) \in Locations /\ Owner(TailOf(b)) # C
    BY <1>5, <1>9, Locs, Owners
  <1>11. \/ \E i \in DOMAIN mem[TailOf(b)] :
                /\ \E fenced \in BOOLEAN : Load(C, TailOf(b), i, fenced)
                /\ localTail' = [localTail EXCEPT ![b] = mem[TailOf(b)][i].val]
         \/ Fence(C) /\ localTail' = localTail
    BY DEF Dequeue_Start, FB
  <1>12. localTail \in [Blocks -> Nat]
    BY <1>2 DEF TypeInv
  <1>13. /\ Looks(C) /\ localTail' \in [Blocks -> Nat]
         /\ \A c \in Blocks :
            \/ localTail'[c] = localTail[c]
            \/ /\ c <= allocated
               /\ \E i : ReadAt(TailOf(c), i) /\ localTail'[c] = mem[TailOf(c)][i].val
    <2>1. CASE Fence(C) /\ localTail' = localTail
      BY <2>1, <1>2, <1>5, <1>12, FenceLooks
    <2>2. ASSUME NEW i \in DOMAIN mem[TailOf(b)], NEW fenced \in BOOLEAN, Load(C, TailOf(b), i, fenced),
                 localTail' = [localTail EXCEPT ![b] = mem[TailOf(b)][i].val]
          PROVE  <1>13!:
      <3>1. Looks(C) /\ i \in 1 .. Len(mem[TailOf(b)])
            /\ Len(mem'[TailOf(b)]) <= Len(mem[TailOf(b)]) - i + 1
        BY <2>2, <1>2, <1>5, <1>10, LoadLooks
      <3>2. ReadAt(TailOf(b), i)
        BY <3>1 DEF ReadAt
      <3>3. mem[TailOf(b)][i].val \in Nat
        BY <3>1, <1>2, <1>10, History
      <3> QED
        BY <2>2, <3>1, <3>2, <3>3, <1>9, <1>12
    <2> QED
      BY <2>1, <2>2, <1>11
  <1>14. Trim /\ Same
    BY <1>2, <1>13, TrimSame DEF Looks
  <1>15. ConsumerInv(pos)'
    <2>1. FB' = FB /\ FrontIx(FB)' = FrontIx(FB)
      BY <1>9, <1>14 DEF Same
    <2>2. l = "take" => FrontIx(FB)' # localTail'[FB']
      BY <2>1, <1>4
    <2>3. pc'[C] \in {"checkTail", "take"} /\ call'[C].block = FB'
      BY <1>4, <1>6, <1>7, <2>1
    <2> QED
      BY <2>2, <2>3, <1>7 DEF ConsumerInv, Leaving
  <1>16. (pc'[C] = "release") <=> (pc[C] = "release")
    BY <1>4, <1>6, <1>7
  <1> QED
    BY <1>1, <1>2, <1>7, <1>8, <1>13, <1>15, <1>16, ConsumerLooks

\* What the consumer may still read of tailBlock is not frontBlock, if one of the
\* stores before it was not.
LEMMA LaterTail ==
  ASSUME MemInv, TypeInv, NEW pos, RingInv(pos), TailBlockInv(pos),
         NEW i \in 1 .. Len(mem[TailBlock]), NEW k \in i .. Len(mem[TailBlock]),
         mem[TailBlock][i].val # FB
  PROVE  /\ mem[TailBlock][k].val # FB
         /\ pos[mem[TailBlock][i].val] > 0 /\ pos[TB] > 0
  <1> DEFINE h == mem[TailBlock]
             v == h[i].val
             w == h[k].val
  <1>1. Len(h) \in Nat /\ i \in 1 .. Len(h) /\ k \in i .. Len(h)
    BY Locs, History
  <1>2. k \in 1 .. Len(h)
    <2> HIDE DEF h
    <2> QED
      BY <1>1
  <1>3. /\ v \in Ring /\ pos[v] = pos[TB] - (Len(h) - i)
        /\ w \in Ring /\ pos[w] = pos[TB] - (Len(h) - k)
    BY <1>1, <1>2 DEF TailBlockInv
  <1>4. pos[v] \in 0 .. RingSize - 1 /\ pos[TB] \in 0 .. RingSize - 1 /\ pos[FB] = 0 /\ FB \in Ring
    BY <1>3 DEF RingInv
  <1>5. pos[v] # 0
    BY <1>3, <1>4 DEF RingInv
  <1>6. RingSize \in Nat
    BY RingBlocks
  <1> HIDE DEF h, v, w
  <1>7. pos[v] > 0 /\ pos[w] > 0 /\ pos[TB] > 0
    BY <1>1, <1>3, <1>4, <1>5, <1>6
  <1>8. w # FB
    BY <1>4, <1>7
  <1> QED
    BY <1>7, <1>8 DEF h, v, w

LEMMA DequeueCheckTailInv ==
  ASSUME Inv, Dequeue_CheckTail
  PROVE  Inv'
  <1>1. PICK pos : PosInv(pos)
    BY DEF Inv
  <1>2. MemInv /\ TypeInv /\ IndexInv /\ SlotInv /\ CallsTyped /\ RingInv(pos) /\ TailBlockInv(pos)
        /\ ConsumerInv(pos)
    BY <1>1 DEF Inv, TypeInv, PosInv
  <1>3. P \in Threads /\ C \in Threads /\ P # C /\ "recheck" \in Labels
    BY Locs DEF Labels
  <1>4. pc[C] = "checkTail" /\ UNCHANGED <<allocated, largestBlockSize, size, slot, sent, localTail, localFront>>
    BY DEF Dequeue_CheckTail, pVars, blockVars, cVars
  <1>5. PICK i \in DOMAIN mem[TailBlock] :
            /\ Load(C, TailBlock, i, ~ AtTail(mem[TailBlock][i].val))
            /\ \/ AtTail(mem[TailBlock][i].val) /\ Return(C)
               \/ ~ AtTail(mem[TailBlock][i].val) /\ GoOn(C, "recheck")
    BY DEF Dequeue_CheckTail
  <1> DEFINE here == AtTail(mem[TailBlock][i].val)
  <1>6. (~ here) \in BOOLEAN /\ TailBlock \in Locations /\ Owner(TailBlock) # C
    BY Locs, Owners DEF AtTail
  <1>7. /\ Looks(C) /\ i \in 1 .. Len(mem[TailBlock])
        /\ Len(mem'[TailBlock]) <= Len(mem[TailBlock]) - i + 1
        /\ (~ here => mem'[TailBlock][1].at <= seen'[C])
    <2> DEFINE f == ~ here
    <2>1. Load(C, TailBlock, i, f) /\ f \in BOOLEAN
      BY <1>5, <1>6
    <2> HIDE DEF f
    <2>2. /\ Looks(C) /\ i \in 1 .. Len(mem[TailBlock])
          /\ Len(mem'[TailBlock]) <= Len(mem[TailBlock]) - i + 1
          /\ (f => mem'[TailBlock][1].at <= seen'[C])
      BY <2>1, <1>2, <1>3, <1>6, LoadLooks
    <2> QED
      BY <2>2 DEF f
  <1>8. /\ CallsTyped' /\ pc'[P] = pc[P] /\ call'[P] = call[P]
        /\ \/ here /\ pc'[C] = "idle"
           \/ ~ here /\ pc'[C] = "recheck" /\ call' = call
    BY <1>2, <1>3, <1>5, GoOnMoves, ReturnMoves DEF Moves
  <1>9. Trim /\ Same
    BY <1>2, <1>7, TrimSame DEF Looks
  <1>10. FB' = FB
    BY <1>9 DEF Same
  <1>11. ASSUME ~ here
         PROVE  mem'[TailBlock][1].val # FB
    <2> DEFINE h == mem[TailBlock]
               g == mem'[TailBlock]
               k == 1 + (Len(h) - Len(g))
    <2>1. Len(h) \in Nat /\ Len(g) \in 1 .. Len(h) /\ g[1] = h[k] /\ i \in 1 .. Len(h)
          /\ Len(g) <= Len(h) - i + 1
      BY <1>2, <1>7, <1>9, Locs, History DEF Trim
    <2>2. h[i].val # FB
      BY <1>11 DEF AtTail, FB
    <2>3. k \in i .. Len(h)
      <3> HIDE DEF h, g
      <3> QED
        BY <2>1
    <2>4. h[k].val # FB
      <3> HIDE DEF k
      <3> QED
        BY <1>2, <1>7, <2>2, <2>3, LaterTail
    <2> QED
      BY <2>1, <2>4
  <1>12. ConsumerInv(pos)'
    <2>1. CASE here
      <3>1. pc'[C] = "idle"
        BY <1>8, <2>1
      <3> QED
        BY <3>1 DEF ConsumerInv, Leaving
    <2>2. CASE ~ here
      <3>1. /\ pc'[C] = "recheck" /\ call'[C].block = FB'
            /\ mem'[TailBlock][1].at <= seen'[C] /\ mem'[TailBlock][1].val # FB'
        BY <1>2, <1>4, <1>7, <1>8, <1>10, <1>11, <2>2 DEF ConsumerInv
      <3> QED
        BY <3>1 DEF ConsumerInv, Leaving
    <2> QED
      BY <2>1, <2>2
  <1>13. (pc'[C] = "release") <=> (pc[C] = "release")
    BY <1>4, <1>8
  <1>14. localTail' \in [Blocks -> Nat]
    BY <1>2, <1>4 DEF TypeInv
  <1> QED
    BY <1>1, <1>2, <1>4, <1>7, <1>8, <1>12, <1>13, <1>14, ConsumerLooks

\* A consumer that is about to leave frontBlock has seen it filled for good, and an
\* element in the next block.
LEMMA LeavingReads ==
  ASSUME MemInv, TypeInv, NEW pos, PosInv(pos), Leaving
  PROVE  /\ NextB(FB) \in Ring /\ pos[NextB(FB)] = 1 /\ pos[TB] > 0
         /\ Len(mem[TailOf(FB)]) = 1 /\ Len(mem[NextOf(FB)]) = 1
         /\ \A i \in 1 .. Len(mem[TailOf(NextB(FB))]) :
               mem[TailOf(NextB(FB))][i].val # FrontIx(NextB(FB))
  <1>1. RingInv(pos) /\ TailBlockInv(pos) /\ ConsumerInv(pos)
    BY DEF PosInv
  <1> DEFINE s == mem[TailBlock][1]
             b == NextB(FB)
  <1>2. s.val # FB /\ s.at <= seen[C] /\ s.at \in Nat
    BY <1>1, Locs, History DEF ConsumerInv
  <1>3. Len(mem[TailBlock]) \in Nat /\ 1 \in 1 .. Len(mem[TailBlock])
    BY Locs, History
  <1>4. pos[s.val] > 0 /\ pos[TB] > 0
    BY <1>1, <1>2, <1>3, LaterTail
  <1>5. s.val \in Ring /\ FB \in Ring /\ pos[FB] = 0
    BY <1>1, <1>3 DEF TailBlockInv, RingInv
  <1>6. Settled(mem[TailOf(FB)], s.at) /\ Settled(mem[NextOf(FB)], s.at)
    BY <1>1, <1>3, <1>4, <1>5 DEF TailBlockInv
  <1>7. pos[s.val] \in 0 .. RingSize - 1 /\ RingSize \in Nat
    BY <1>1, <1>5, RingBlocks DEF RingInv
  <1>8. b \in Ring /\ pos[b] = IF 0 = RingSize - 1 THEN 0 ELSE 0 + 1
    BY <1>1, <1>5 DEF RingInv
  <1>9. pos[b] = 1 /\ 0 < pos[b] /\ pos[b] <= pos[s.val]
    <2> HIDE DEF b, s
    <2> QED
      BY <1>4, <1>7, <1>8
  <1>10. Visible(mem[TailOf(b)], FrontIx(b), s.at)
    BY <1>1, <1>3, <1>8, <1>9 DEF TailBlockInv
  <1>11. /\ TailOf(FB) \in Locations /\ NextOf(FB) \in Locations /\ TailOf(b) \in Locations
         /\ Reader(TailOf(FB)) = C /\ Reader(NextOf(FB)) = C /\ Reader(TailOf(b)) = C
    BY <1>5, <1>8, Locs, Owners, RingBlocks
  <1> HIDE DEF s, b
  <1>12. Len(mem[TailOf(FB)]) = 1 /\ Len(mem[NextOf(FB)]) = 1
    BY <1>2, <1>6, <1>11, SettledNow
  <1>13. \A i \in 1 .. Len(mem[TailOf(b)]) : mem[TailOf(b)][i].val # FrontIx(b)
    BY <1>2, <1>10, <1>11, VisibleNow
  <1> QED
    BY <1>4, <1>8, <1>9, <1>12, <1>13 DEF b

LEMMA LeavingStays ==
  ASSUME MemInv, TypeInv, NEW pos, PosInv(pos), Leaving, Looks(C), Refreshed(C, TailBlock)
  PROVE  mem'[TailBlock][1].val # FB /\ mem'[TailBlock][1].at <= seen'[C]
  <1>1. RingInv(pos) /\ TailBlockInv(pos) /\ ConsumerInv(pos)
    BY DEF PosInv
  <1> DEFINE h == mem[TailBlock]
             g == mem'[TailBlock]
             k == 1 + (Len(h) - Len(g))
  <1>2. Len(h) \in Nat /\ Len(g) \in 1 .. Len(h) /\ g[1] = h[k]
    BY Locs, History DEF Looks, Trim
  <1>3. k \in 1 .. Len(h) /\ 1 \in 1 .. Len(h)
    <2> HIDE DEF h, g
    <2> QED
      BY <1>2
  <1>4. h[1].val # FB /\ h[1].at <= seen[C]
    BY <1>1 DEF ConsumerInv
  <1>5. h[k].val # FB
    <2> HIDE DEF k
    <2> QED
      BY <1>1, <1>3, <1>4, LaterTail
  <1>6. g[1].at <= seen'[C]
    <2>1. seen[C] \in Nat /\ seen'[C] \in Nat /\ seen'[C] >= seen[C]
      BY Locs DEF Looks, MemInv
    <2>2. h[1].at \in Nat /\ h[k].at \in Nat
      <3> HIDE DEF k
      <3> QED
        BY <1>3, Locs, History
    <2>3. CASE g = h
      <3> HIDE DEF g, h
      <3> QED
        BY <2>1, <2>2, <2>3, <1>4
    <2>4. CASE g[1].at < seen'[C]
      <3>1. g[1].at \in Nat
        BY <1>2, <2>2
      <3> HIDE DEF g, h
      <3> QED
        BY <2>1, <2>4, <3>1
    <2> QED
      BY <2>3, <2>4 DEF Refreshed
  <1> QED
    BY <1>2, <1>5, <1>6

LEMMA DequeueRecheckInv ==
  ASSUME Inv, Dequeue_Recheck
  PROVE  Inv'
  <1>1. PICK pos : PosInv(pos)
    BY DEF Inv
  <1>2. MemInv /\ TypeInv /\ IndexInv /\ SlotInv /\ CallsTyped /\ RingInv(pos) /\ ConsumerInv(pos)
    BY <1>1 DEF Inv, TypeInv, PosInv
  <1>3. P \in Threads /\ C \in Threads /\ P # C
    BY Locs
  <1>4. pc[C] = "recheck" /\ UNCHANGED <<allocated, largestBlockSize, size, slot, sent, localFront>>
    BY DEF Dequeue_Recheck, pVars, blockVars
  <1> DEFINE b == FB
             l == IF FrontIx(b) # localTail'[b] THEN "take" ELSE "readNext"
  <1>5. GoOn(C, l)
    BY DEF Dequeue_Recheck, AfterRecheck, FB, FrontIx
  <1>6. PICK i \in DOMAIN mem[TailOf(b)] :
            /\ Load(C, TailOf(b), i, TRUE)
            /\ localTail' = [localTail EXCEPT ![b] = mem[TailOf(b)][i].val]
    BY DEF Dequeue_Recheck, FB
  <1>7. /\ FB \in Ring /\ FB \in Blocks /\ FB <= allocated
        /\ TailOf(b) \in Locations /\ Owner(TailOf(b)) # C /\ TailOf(b) # TailBlock
    BY <1>2, <1>3, RingBlocks, Locs, Owners DEF RingInv
  <1>8. /\ Looks(C) /\ i \in 1 .. Len(mem[TailOf(b)])
        /\ Len(mem'[TailOf(b)]) <= Len(mem[TailOf(b)]) - i + 1
        /\ Refreshed(C, TailBlock)
    BY <1>2, <1>3, <1>6, <1>7, Locs, LoadLooks
  <1>9. Leaving
    BY <1>4 DEF Leaving
  <1>10. localTail'[b] = TailIx(b) /\ localTail \in [Blocks -> Nat]
    <2>1. Len(mem[TailOf(b)]) = 1
      BY <1>1, <1>2, <1>9, LeavingReads
    <2>2. i = Len(mem[TailOf(b)])
      BY <1>8, <2>1
    <2>3. localTail \in [Blocks -> Nat]
      BY <1>2 DEF TypeInv
    <2> QED
      BY <2>2, <2>3, <1>6, <1>7 DEF TailIx, Newest
  <1>11. /\ localTail' \in [Blocks -> Nat]
         /\ \A c \in Blocks :
            \/ localTail'[c] = localTail[c]
            \/ /\ c <= allocated
               /\ \E j : ReadAt(TailOf(c), j) /\ localTail'[c] = mem[TailOf(c)][j].val
    <2>1. ReadAt(TailOf(b), i)
      BY <1>8 DEF ReadAt
    <2>2. mem[TailOf(b)][i].val \in Nat
      BY <1>2, <1>7, <1>8, History
    <2> QED
      BY <2>1, <2>2, <1>6, <1>7, <1>10
  <1>12. l \in Labels /\ (l = "take" => FrontIx(b) # localTail'[b])
         /\ (l = "readNext" => FrontIx(b) = localTail'[b]) /\ l \in {"take", "readNext"}
    BY DEF Labels
  <1> HIDE DEF l
  <1>13. CallsTyped' /\ pc'[C] = l /\ pc'[P] = pc[P] /\ call' = call
    BY <1>2, <1>3, <1>5, <1>12, GoOnMoves DEF Moves
  <1>14. FB' = FB /\ FrontIx(FB)' = FrontIx(FB) /\ TailIx(FB)' = TailIx(FB)
    BY <1>2, <1>7, <1>8, TrimSame DEF Same, Looks
  <1>15. ConsumerInv(pos)'
    <2>1. mem'[TailBlock][1].val # FB' /\ mem'[TailBlock][1].at <= seen'[C]
      BY <1>1, <1>2, <1>8, <1>9, <1>14, LeavingStays
    <2>2. call'[C].block = FB'
      BY <1>2, <1>4, <1>13, <1>14 DEF ConsumerInv
    <2>3. CASE l = "take"
      BY <2>2, <2>3, <1>12, <1>13, <1>14 DEF ConsumerInv, Leaving
    <2>4. CASE l = "readNext"
      <3>1. pc'[C] = "readNext" /\ FrontIx(FB)' = TailIx(FB)'
        BY <2>4, <1>10, <1>12, <1>13, <1>14
      <3> QED
        BY <2>1, <3>1 DEF ConsumerInv, Leaving
    <2> QED
      BY <2>3, <2>4, <1>12
  <1>16. (pc'[C] = "release") <=> (pc[C] = "release")
    BY <1>4, <1>12, <1>13
  <1> QED
    BY <1>1, <1>2, <1>4, <1>8, <1>11, <1>13, <1>15, <1>16, ConsumerLooks

LEMMA DequeueReadNextInv ==
  ASSUME Inv, Dequeue_ReadNext
  PROVE  Inv'
  <1>1. PICK pos : PosInv(pos)
    BY DEF Inv
  <1>2. MemInv /\ TypeInv /\ IndexInv /\ SlotInv /\ CallsTyped /\ RingInv(pos) /\ ConsumerInv(pos)
    BY <1>1 DEF Inv, TypeInv, PosInv
  <1>3. P \in Threads /\ C \in Threads /\ P # C /\ "checkNext" \in Labels
    BY Locs DEF Labels
  <1>4. pc[C] = "readNext" /\ Leaving
        /\ UNCHANGED <<allocated, largestBlockSize, size, slot, sent, localFront, localTail>>
    BY DEF Dequeue_ReadNext, pVars, blockVars, cVars, Leaving
  <1> DEFINE loc == NextOf(FB)
  <1>5. PICK i \in DOMAIN mem[loc] :
            Load(C, loc, i, FALSE) /\ GoOnWith(C, "checkNext", mem[loc][i].val)
    BY DEF Dequeue_ReadNext, FB
  <1>6. FB \in Blocks /\ loc \in Locations /\ Owner(loc) # C /\ loc # TailBlock
    BY <1>2, <1>3, RingBlocks, Locs, Owners DEF RingInv
  <1>7. Looks(C) /\ i \in 1 .. Len(mem[loc]) /\ Refreshed(C, TailBlock)
    <2> HIDE DEF loc
    <2> QED
      BY <1>2, <1>3, <1>5, <1>6, Locs, LoadLooks
  <1>8. mem[loc][i].val = NextB(FB)
    <2>1. Len(mem[loc]) = 1
      BY <1>1, <1>2, <1>4, LeavingReads
    <2>2. i = Len(mem[loc])
      BY <1>7, <2>1
    <2> QED
      BY <2>2 DEF NextB, Newest
  <1>9. CallsTyped' /\ pc'[C] = "checkNext" /\ pc'[P] = pc[P] /\ call'[P] = call[P]
        /\ call'[C].block = NextB(FB)
    <2> DEFINE v == mem[loc][i].val
    <2>1. GoOnWith(C, "checkNext", v) /\ v = NextB(FB)
      BY <1>5, <1>8
    <2> HIDE DEF v
    <2> QED
      BY <2>1, <1>2, <1>3, GoOnWithMoves DEF Moves
  <1>10. FB' = FB /\ FrontIx(FB)' = FrontIx(FB) /\ TailIx(FB)' = TailIx(FB) /\ NextB(FB)' = NextB(FB)
    BY <1>2, <1>6, <1>7, TrimSame DEF Same, Looks
  <1>11. ConsumerInv(pos)'
    <2>1. mem'[TailBlock][1].val # FB' /\ mem'[TailBlock][1].at <= seen'[C]
      BY <1>1, <1>2, <1>4, <1>7, <1>10, LeavingStays
    <2>2. FrontIx(FB)' = TailIx(FB)'
      BY <1>2, <1>4, <1>10 DEF ConsumerInv
    <2> QED
      BY <2>1, <2>2, <1>9, <1>10 DEF ConsumerInv, Leaving
  <1>12. (pc'[C] = "release") <=> (pc[C] = "release")
    BY <1>4, <1>9
  <1>13. localTail' \in [Blocks -> Nat]
    BY <1>2, <1>4 DEF TypeInv
  <1> QED
    BY <1>1, <1>2, <1>4, <1>7, <1>9, <1>11, <1>12, <1>13, ConsumerLooks

LEMMA DequeueCheckNextInv ==
  ASSUME Inv, Dequeue_CheckNext
  PROVE  Inv'
  <1>1. PICK pos : PosInv(pos)
    BY DEF Inv
  <1>2. MemInv /\ TypeInv /\ IndexInv /\ SlotInv /\ CallsTyped /\ RingInv(pos) /\ ConsumerInv(pos)
    BY <1>1 DEF Inv, TypeInv, PosInv
  <1>3. P \in Threads /\ C \in Threads /\ P # C /\ "take" \in Labels /\ "moveFront" \in Labels
    BY Locs DEF Labels
  <1>4. pc[C] = "checkNext" /\ Leaving
        /\ UNCHANGED <<allocated, largestBlockSize, size, slot, sent, localFront>>
    BY DEF Dequeue_CheckNext, pVars, blockVars, Leaving
  <1> DEFINE b == call[C].block
  <1>5. b = NextB(FB) /\ FrontIx(FB) = TailIx(FB)
    BY <1>2, <1>4 DEF ConsumerInv
  <1>6. /\ b \in Ring /\ pos[b] = 1 /\ pos[TB] > 0
        /\ \A i \in 1 .. Len(mem[TailOf(b)]) : mem[TailOf(b)][i].val # FrontIx(b)
    BY <1>1, <1>2, <1>4, <1>5, LeavingReads
  <1>7. FB \in Blocks /\ b \in Blocks /\ b \in 1 .. allocated /\ b <= allocated
        /\ TailOf(b) \in Locations /\ Owner(TailOf(b)) # C /\ TailOf(b) # TailBlock
    <2>1. FB \in Ring
      BY <1>2 DEF RingInv
    <2>2. FB \in Blocks /\ b \in Blocks /\ b \in 1 .. allocated /\ allocated \in Nat
      BY <1>2, <1>6, <2>1, RingBlocks
    <2> HIDE DEF b
    <2> QED
      BY <1>3, <2>2, Locs, Owners
  <1>8. localTail \in [Blocks -> Nat]
    BY <1>2 DEF TypeInv
  <1>9. CASE call[C].op = "peek"
    <2>1. Fence(C) /\ GoOn(C, "take") /\ localTail' = localTail
      BY <1>9 DEF Dequeue_CheckNext
    <2>2. Looks(C)
      BY <1>2, <1>3, <2>1, FenceLooks
    <2>3. CallsTyped' /\ pc'[C] = "take" /\ pc'[P] = pc[P] /\ call' = call
      BY <1>2, <1>3, <2>1, GoOnMoves DEF Moves
    <2>4. TB' = TB /\ Ring' = Ring
      BY <1>2, <1>4, <2>2, <2>3, TrimSame DEF Same, Looks, Ring, RingSize
    <2>5. ConsumerInv(pos)'
      BY <2>3, <2>4, <1>6, <1>9 DEF ConsumerInv, Leaving
    <2>6. (pc'[C] = "release") <=> (pc[C] = "release")
      BY <1>4, <2>3
    <2> QED
      BY <1>1, <1>2, <1>4, <1>8, <2>1, <2>2, <2>3, <2>5, <2>6, ConsumerLooks
  <1>10. CASE call[C].op # "peek"
    <2>1. PICK i \in DOMAIN mem[TailOf(b)] :
            /\ Load(C, TailOf(b), i, TRUE)
            /\ localTail' = [localTail EXCEPT ![b] = mem[TailOf(b)][i].val]
            /\ GoOn(C, "moveFront")
      BY <1>10 DEF Dequeue_CheckNext
    <2>2. /\ Looks(C) /\ i \in 1 .. Len(mem[TailOf(b)])
          /\ Len(mem'[TailOf(b)]) <= Len(mem[TailOf(b)]) - i + 1
          /\ Refreshed(C, TailBlock)
      BY <1>2, <1>3, <2>1, <1>7, Locs, LoadLooks
    <2>3. CallsTyped' /\ pc'[C] = "moveFront" /\ pc'[P] = pc[P] /\ call' = call
      BY <1>2, <1>3, <2>1, GoOnMoves DEF Moves
    <2>4. ReadAt(TailOf(b), i)
      BY <2>2 DEF ReadAt
    <2>5. mem[TailOf(b)][i].val \in Nat /\ mem[TailOf(b)][i].val # FrontIx(b)
      BY <1>2, <1>6, <1>7, <2>2, History
    <2>6. /\ localTail' \in [Blocks -> Nat]
          /\ \A c \in Blocks :
            \/ localTail'[c] = localTail[c]
            \/ /\ c <= allocated
               /\ \E j : ReadAt(TailOf(c), j) /\ localTail'[c] = mem[TailOf(c)][j].val
      BY <2>1, <2>4, <2>5, <1>7, <1>8
    <2>7. localTail'[b] = mem[TailOf(b)][i].val
      BY <2>1, <1>7, <1>8
    <2>8. Trim /\ Same
      BY <1>2, <2>2, TrimSame DEF Looks
    <2>9. TailCopied(b)'
      <3>1. BlockInv(b) /\ size'[b] = size[b]
        BY <1>2, <1>4, <1>7 DEF IndexInv
      <3>2. ASSUME NEW c \in Blocks, c = b PROVE TailCopied(c)'
        BY <1>2, <2>4, <2>7, <2>8, <3>1, <3>2, TrimTailCopied
      <3>3. b' = b
        BY <2>3
      <3> QED
        BY <1>7, <3>2, <3>3 DEF TailCopied, FrontIx
    <2>10. /\ FB' = FB /\ FrontIx(FB)' = FrontIx(FB) /\ TailIx(FB)' = TailIx(FB)
           /\ NextB(FB)' = NextB(FB)
      BY <2>8, <1>7 DEF Same
    <2>11. FrontIx(b)' = FrontIx(b) /\ b' = b
      BY <2>3, <2>8, <1>7 DEF Same
    <2>12. ConsumerInv(pos)'
      <3>1. mem'[TailBlock][1].val # FB' /\ mem'[TailBlock][1].at <= seen'[C]
        BY <1>1, <1>2, <1>4, <2>2, <2>10, LeavingStays
      <3>2. FrontIx(b)' # localTail'[b]
        BY <2>5, <2>7, <2>11
      <3> QED
        BY <1>5, <1>10, <2>3, <2>9, <2>10, <2>11, <3>1, <3>2 DEF ConsumerInv, Leaving
    <2>13. (pc'[C] = "release") <=> (pc[C] = "release")
      BY <1>4, <2>3
    <2> QED
      BY <1>1, <1>2, <1>4, <2>2, <2>3, <2>6, <2>12, <2>13, ConsumerLooks
  <1> QED
    BY <1>9, <1>10

-------------------------------------------------------------------------------
(***************************************************************************)
(* The steps that construct or destroy an element.                          *)
(***************************************************************************)

LEMMA Indices ==
  ASSUME MemInv, NEW b \in Blocks, BlockInv(b)
  PROVE  /\ localFront[b] \in 0 .. size[b] - 1 /\ localTail[b] \in 0 .. size[b] - 1
         /\ FrontIx(b) \in 0 .. size[b] - 1 /\ TailIx(b) \in 0 .. size[b] - 1
         /\ Dist(localFront[b], FrontIx(b), size[b]) + Dist(FrontIx(b), TailIx(b), size[b]) < size[b]
  <1> DEFINE h == mem[FrontOf(b)]
             l == mem[TailOf(b)]
  <1>1. /\ Len(h) \in Nat /\ Len(h) >= 1 /\ FrontIx(b) = h[Len(h)].val
        /\ Len(l) \in Nat /\ Len(l) >= 1 /\ TailIx(b) = l[Len(l)].val
    BY Locs, History DEF FrontIx, TailIx
  <1>2. Len(h) \in 1 .. Len(h) /\ Len(l) \in 1 .. Len(l)
    <2> HIDE DEF h, l
    <2> QED
      BY <1>1
  <1> QED
    BY <1>1, <1>2 DEF BlockInv

\* The consumer's copy of tail is not ahead of tail.
LEMMA CopyBehindTail ==
  ASSUME MemInv, NEW b \in Blocks, BlockInv(b), TailCopied(b), size[b] \in Nat
  PROVE  /\ Dist(FrontIx(b), localTail[b], size[b]) <= Dist(FrontIx(b), TailIx(b), size[b])
         /\ (FrontIx(b) # localTail[b] => FrontIx(b) # TailIx(b))
  <1> DEFINE l == mem[TailOf(b)]
  <1>1. Len(l) \in Nat /\ Len(l) >= 1 /\ TailIx(b) = l[Len(l)].val
    BY Locs, History DEF TailIx
  <1>2. Len(l) \in 1 .. Len(l)
    <2> HIDE DEF l
    <2> QED
      BY <1>1
  <1>3. Dist(FrontIx(b), localTail[b], size[b]) <= Dist(FrontIx(b), TailIx(b), size[b])
    BY <1>1, <1>2 DEF TailCopied
  <1>4. /\ localTail[b] \in 0 .. size[b] - 1
        /\ FrontIx(b) \in 0 .. size[b] - 1 /\ TailIx(b) \in 0 .. size[b] - 1
    BY Indices
  <1>5. FrontIx(b) = TailIx(b) => FrontIx(b) = localTail[b]
    <2> DEFINE f == FrontIx(b)
               t == TailIx(b)
               x == localTail[b]
               n == size[b]
    <2>1. /\ f \in 0 .. n - 1 /\ t \in 0 .. n - 1 /\ x \in 0 .. n - 1 /\ n \in Nat
          /\ Dist(f, x, n) <= Dist(f, t, n)
      BY <1>3, <1>4
    <2> HIDE DEF f, t, x, n
    <2>2. f = t => f = x
      BY <2>1, DistNat
    <2> QED
      BY <2>2 DEF f, t, x
  <1> QED
    BY <1>3, <1>5

\* The slots that the threads are about to use are used properly.
LEMMA FrontNotEmpty ==
  ASSUME MemInv, TypeInv, IndexInv, NEW pos, PosInv(pos), pc[C] \in {"take", "release"}
  PROVE  /\ call[C].block \in Ring
         /\ FrontIx(call[C].block) # TailIx(call[C].block)
  <1>1. RingInv(pos) /\ EmptyInv(pos) /\ ConsumerInv(pos)
    BY DEF PosInv
  <1>2. CASE call[C].block = FB /\ FrontIx(FB) # localTail[FB]
    <2>1. FB \in Ring /\ FB \in 1 .. allocated /\ FB \in Blocks
          /\ size[FB] \in Nat /\ size[FB] >= 2
      BY <1>1, RingBlocks DEF RingInv
    <2>2. BlockInv(FB) /\ TailCopied(FB)
      BY <2>1 DEF IndexInv
    <2> QED
      BY <1>2, <2>1, <2>2, CopyBehindTail
  <1>3. CASE call[C].block \in Ring /\ pos[call[C].block] = 1 /\ pos[TB] > 0
    <2>1. pos[TB] \in 0 .. RingSize - 1 /\ RingSize \in Nat
      BY <1>1, RingBlocks DEF RingInv
    <2>2. 0 < pos[call[C].block] /\ pos[call[C].block] <= pos[TB]
      BY <1>3, <2>1
    <2> QED
      BY <1>1, <1>3, <2>2 DEF EmptyInv
  <1> QED
    BY <1>1, <1>2, <1>3 DEF ConsumerInv

\* What is known of a block that exists.
LEMMA BlockFacts ==
  ASSUME Inv, NEW b \in 1 .. allocated
  PROVE  /\ b \in Blocks /\ size[b] \in Nat /\ size[b] >= 2 /\ BlockInv(b)
         /\ localFront[b] \in 0 .. size[b] - 1 /\ localTail[b] \in 0 .. size[b] - 1
         /\ FrontIx(b) \in 0 .. size[b] - 1 /\ TailIx(b) \in 0 .. size[b] - 1
         /\ Dist(localFront[b], FrontIx(b), size[b]) + Dist(FrontIx(b), TailIx(b), size[b]) < size[b]
         /\ FrontOf(b) \in Locations /\ TailOf(b) \in Locations
  <1>1. MemInv /\ TypeInv /\ IndexInv
    BY DEF Inv
  <1>2. b \in Blocks /\ size[b] \in Nat /\ size[b] >= 2 /\ BlockInv(b)
    BY <1>1, RingBlocks DEF IndexInv
  <1> QED
    BY <1>1, <1>2, Indices, Locs

\* The consumer works on a block of the ring.
LEMMA CallBlock ==
  ASSUME Inv, pc[C] \in {"take", "release", "checkNext", "moveFront"}
  PROVE  call[C].block \in Ring /\ call[C].block \in 1 .. allocated /\ call[C].block \in Blocks
  <1>1. PICK pos : PosInv(pos)
    BY DEF Inv
  <1>2. FB \in Ring /\ NextB(FB) \in Ring
    BY <1>1 DEF PosInv, RingInv
  <1>3. call[C].block \in Ring
    BY <1>1, <1>2 DEF PosInv, ConsumerInv
  <1> QED
    BY <1>3, RingBlocks DEF Inv

LEMMA MemoryKept ==
  ASSUME MemInv, TypeInv, IndexInv, NEW pos, RingInv(pos), FrontBlockInv(pos), TailBlockInv(pos),
         UNCHANGED <<memVars, allocated, largestBlockSize, size, localFront, localTail, sent>>,
         CallsTyped', DOMAIN slot' = Blocks, RingSize' = RingSize, Advancing' <=> Advancing
  PROVE  /\ MemInv' /\ TypeInv' /\ IndexInv'
         /\ RingInv(pos)' /\ FrontBlockInv(pos)' /\ TailBlockInv(pos)'
  <1>1. /\ mem' = mem /\ epoch' = epoch /\ acq' = acq /\ seen' = seen /\ allocated' = allocated
        /\ largestBlockSize' = largestBlockSize /\ size' = size
        /\ localFront' = localFront /\ localTail' = localTail /\ sent' = sent
    BY DEF memVars
  <1>2. \A loc : Newest(loc)' = Newest(loc)
    BY <1>1 DEF Newest
  <1>3. FB' = FB /\ TB' = TB /\ Ring' = Ring /\ LastUsed(pos)' = LastUsed(pos)
    BY <1>2 DEF FB, TB, Ring, LastUsed
  <1>4. \A b : FrontIx(b)' = FrontIx(b) /\ TailIx(b)' = TailIx(b) /\ NextB(b)' = NextB(b)
    BY <1>2 DEF FrontIx, TailIx, NextB
  <1>5. MemInv'
    BY <1>1 DEF MemInv
  <1>6. TypeInv'
    BY <1>1 DEF TypeInv
  <1>7. RingInv(pos)'
    BY <1>3, <1>4 DEF RingInv
  <1>8. FrontBlockInv(pos)'
    BY <1>1, <1>3 DEF FrontBlockInv
  <1>9. TailBlockInv(pos)'
    BY <1>1, <1>3, <1>4 DEF TailBlockInv
  <1>10. \A b : BlockInv(b) => BlockInv(b)'
    BY <1>1, <1>4 DEF BlockInv
  <1>11. TailCopied(FB)'
    BY <1>1, <1>3, <1>4 DEF TailCopied, IndexInv
  <1>12. IndexInv'
    BY <1>1, <1>10, <1>11 DEF IndexInv
  <1> QED
    BY <1>5, <1>6, <1>7, <1>8, <1>9, <1>12

\* One slot changes.
SlotChanges(b, j, r) ==
  /\ slot' = [slot EXCEPT ![b] = [slot[b] EXCEPT ![j] = r]]
  /\ UNCHANGED <<allocated, size>>

LEMMA SlotStep ==
  ASSUME TypeInv, SlotInv, NEW b \in 1 .. allocated, NEW j \in 0 .. size[b] - 1, NEW r,
         DOMAIN r = {"val", "by", "at"}, SlotChanges(b, j, r),
         r.val # Empty <=> Occupied(b, j)',
         \A c \in 1 .. allocated : \A i \in 0 .. size[c] - 1 :
            (c # b \/ i # j) => (Occupied(c, i)' <=> Occupied(c, i))
  PROVE  SlotInv' /\ DOMAIN slot' = Blocks
  <1>1. DOMAIN slot = Blocks /\ b \in Blocks
    BY RingBlocks DEF TypeInv
  <1>2. \A c \in 1 .. allocated : c \in Blocks
    BY RingBlocks
  <1>3. /\ DOMAIN slot' = Blocks /\ slot'[b] = [slot[b] EXCEPT ![j] = r]
        /\ \A c \in Blocks : c # b => slot'[c] = slot[c]
    BY <1>1 DEF SlotChanges
  <1>4. allocated' = allocated /\ size' = size
    BY DEF SlotChanges
  <1>5. ASSUME NEW c \in 1 .. allocated
        PROVE  /\ DOMAIN slot'[c] = 0 .. size[c] - 1
               /\ \A i \in 0 .. size[c] - 1 : /\ DOMAIN slot'[c][i] = {"val", "by", "at"}
                                              /\ slot'[c][i].val # Empty <=> Occupied(c, i)'
    <2>1. /\ DOMAIN slot[c] = 0 .. size[c] - 1
          /\ \A i \in 0 .. size[c] - 1 : /\ DOMAIN slot[c][i] = {"val", "by", "at"}
                                         /\ slot[c][i].val # Empty <=> Occupied(c, i)
      BY DEF SlotInv
    <2>2. CASE c # b
      BY <1>2, <1>3, <2>1, <2>2
    <2>3. CASE c = b
      <3>1. DOMAIN slot'[c] = 0 .. size[c] - 1
        BY <1>3, <2>1, <2>3
      <3>2. ASSUME NEW i \in 0 .. size[c] - 1
            PROVE  /\ DOMAIN slot'[c][i] = {"val", "by", "at"}
                   /\ slot'[c][i].val # Empty <=> Occupied(c, i)'
        <4>1. CASE i = j
          <5>1. slot'[c][i] = r
            BY <1>3, <2>1, <2>3, <4>1
          <5> QED
            BY <5>1, <2>3, <4>1
        <4>2. CASE i # j
          <5>1. slot'[c][i] = slot[c][i]
            BY <1>3, <2>1, <2>3, <4>2
          <5> QED
            BY <5>1, <2>1, <4>2
        <4> QED
          BY <4>1, <4>2
      <3> QED
        BY <3>1, <3>2
    <2> QED
      BY <2>2, <2>3
  <1> QED
    BY <1>3, <1>4, <1>5 DEF SlotInv

LEMMA EnqueueWriteInv ==
  ASSUME Inv, Enqueue_Write \/ Enqueue_WriteNext
  PROVE  Inv'
  <1>1. PICK pos \in [Ring -> 0 .. RingSize - 1] : PosInv(pos)
    BY DEF Inv
  <1>2. /\ MemInv /\ TypeInv /\ IndexInv /\ SlotInv /\ CallsTyped /\ RingInv(pos) /\ FrontBlockInv(pos)
        /\ TailBlockInv(pos) /\ EmptyInv(pos) /\ ProducerInv(pos) /\ ConsumerInv(pos)
    BY <1>1 DEF Inv, TypeInv, PosInv
  <1>3. P \in Threads /\ C \in Threads /\ P # C /\ "publish" \in Labels /\ "publishNext" \in Labels
    BY Locs DEF Labels
  <1>a. PICK b, j, r, l :
            /\ b = IF pc[P] = "write" THEN TB ELSE call[P].block
            /\ j = TailIx(b)
            /\ r = [val |-> sent + 1, by |-> P, at |-> epoch[P]]
            /\ l = IF pc[P] = "write" THEN "publish" ELSE "publishNext"
    OBVIOUS
  <1>4. /\ pc[P] \in {"write", "writeNext"} /\ GoOn(P, l) /\ UNCHANGED <<memVars, pVars, cVars>>
        /\ slot' = [slot EXCEPT ![b] = [slot[b] EXCEPT ![j] = r]]
    BY <1>a DEF Enqueue_Write, Enqueue_WriteNext, Construct, TailIx, TB
  <1>5. /\ UNCHANGED <<memVars, allocated, largestBlockSize, size, localFront, localTail, sent>>
        /\ mem' = mem /\ seen' = seen
    BY <1>4 DEF pVars, blockVars, cVars, memVars
  <1>6. CallsTyped' /\ pc'[P] = l /\ pc'[C] = pc[C] /\ call' = call
    BY <1>a, <1>2, <1>3, <1>4, GoOnMoves DEF Moves
  <1>7. b \in Ring /\ b \in 1 .. allocated /\ b \in Blocks
    <2>1. TB \in Ring /\ NextB(TB) \in Ring
      BY <1>2 DEF RingInv
    <2>2. b \in Ring
      BY <1>a, <1>2, <1>4, <2>1 DEF ProducerInv, Filling
    <2> QED
      BY <1>2, <2>2, RingBlocks
  <1>8. j \in 0 .. size[b] - 1
    BY <1>a, <1>2, <1>7, Indices DEF IndexInv
  <1>9. SlotChanges(b, j, r)
    BY <1>4, <1>5 DEF SlotChanges
  <1>10. DOMAIN r = {"val", "by", "at"} /\ r.val # Empty
    BY <1>a, <1>2 DEF TypeInv, Empty
  <1>11. /\ \A loc : Newest(loc)' = Newest(loc)
    BY <1>5 DEF Newest
  <1>12. /\ FB' = FB /\ TB' = TB
         /\ \A c : FrontIx(c)' = FrontIx(c) /\ TailIx(c)' = TailIx(c) /\ NextB(c)' = NextB(c)
    BY <1>11 DEF FB, TB, FrontIx, TailIx, NextB
  <1>13. Occupied(b, j)'
    BY <1>a, <1>4, <1>6, <1>12 DEF Occupied
  <1>14. \A c \in 1 .. allocated : \A i \in 0 .. size[c] - 1 :
            (c # b \/ i # j) => (Occupied(c, i)' <=> Occupied(c, i))
    BY <1>a, <1>4, <1>5, <1>6, <1>12 DEF Occupied
  <1>15. SlotInv' /\ DOMAIN slot' = Blocks
    BY <1>2, <1>7, <1>8, <1>9, <1>10, <1>13, <1>14, SlotStep
  <1>16. RingSize' = RingSize /\ Ring' = Ring /\ (Advancing' <=> Advancing)
    BY <1>a, <1>4, <1>5, <1>6 DEF RingSize, Ring, Advancing
  <1>17. MemInv' /\ TypeInv' /\ IndexInv' /\ RingInv(pos)' /\ FrontBlockInv(pos)' /\ TailBlockInv(pos)'
    BY <1>2, <1>5, <1>6, <1>15, <1>16, MemoryKept
  <1>18. EmptyInv(pos)'
    BY <1>a, <1>2, <1>4, <1>12, <1>16 DEF EmptyInv
  <1>19. ConsumerInv(pos)'
    <2>1. \A c : TailCopied(c)' <=> TailCopied(c)
      BY <1>5, <1>12 DEF TailCopied
    <2> QED
      BY <1>2, <1>5, <1>6, <1>12, <1>16, <2>1 DEF ConsumerInv, Leaving
  <1>20. ProducerInv(pos)'
    BY <1>a, <1>2, <1>4, <1>5, <1>6, <1>12, <1>16 DEF ProducerInv, Advancing, Filling
  <1>21. PosInv(pos)' /\ pos \in [Ring' -> 0 .. RingSize' - 1]
    BY <1>1, <1>16, <1>17, <1>18, <1>19, <1>20 DEF PosInv
  <1> QED
    BY <1>15, <1>17, <1>21 DEF Inv

\* The block that the producer is filling comes after tailBlock.
LEMMA FillingPlace ==
  ASSUME TypeInv, NEW pos, RingInv(pos), ProducerInv(pos), Advancing
  PROVE  /\ NextB(TB) \in Ring /\ pos[NextB(TB)] = pos[TB] + 1
         /\ NextB(TB) # FB /\ NextB(TB) # TB
         /\ pos[TB] \in Nat /\ RingSize \in Nat /\ pos[TB] + 1 < RingSize
  <1>1. RingSize \in Nat /\ TB \in Ring /\ pos[TB] \in 0 .. RingSize - 1 /\ pos[FB] = 0
    BY RingBlocks DEF RingInv
  <1>2. pos[TB] + 1 < RingSize
    BY DEF ProducerInv
  <1>3. NextB(TB) \in Ring /\ pos[NextB(TB)] = IF pos[TB] = RingSize - 1 THEN 0 ELSE pos[TB] + 1
    BY <1>1 DEF RingInv
  <1>4. pos[NextB(TB)] = pos[TB] + 1
    BY <1>1, <1>2, <1>3
  <1> QED
    BY <1>1, <1>2, <1>3, <1>4

LEMMA DequeueTakeInv ==
  ASSUME Inv, Dequeue_Take
  PROVE  Inv'
  <1>1. PICK pos \in [Ring -> 0 .. RingSize - 1] : PosInv(pos)
    BY DEF Inv
  <1>2. /\ MemInv /\ TypeInv /\ IndexInv /\ SlotInv /\ CallsTyped /\ RingInv(pos) /\ FrontBlockInv(pos)
        /\ TailBlockInv(pos) /\ EmptyInv(pos) /\ ProducerInv(pos) /\ ConsumerInv(pos)
    BY <1>1 DEF Inv, TypeInv, PosInv
  <1>3. P \in Threads /\ C \in Threads /\ P # C /\ "release" \in Labels
    BY Locs DEF Labels
  <1>4. pc[C] = "take" /\ UNCHANGED memVars /\ mem' = mem /\ seen' = seen
        /\ UNCHANGED <<memVars, allocated, largestBlockSize, size, localFront, localTail, sent>>
    BY DEF Dequeue_Take, pVars, blockVars, memVars
  <1>5. CASE call[C].op = "peek"
    <2>1. Return(C) /\ slot' = slot
      BY <1>5 DEF Dequeue_Take
    <2>2. Looks(C)
      BY <1>2, <1>3, <1>4, StillLooks
    <2>3. CallsTyped' /\ pc'[C] = "idle" /\ pc'[P] = pc[P] /\ call'[P] = call[P]
      BY <1>2, <1>3, <2>1, ReturnMoves DEF Moves
    <2>4. ConsumerInv(pos)'
      BY <2>3 DEF ConsumerInv, Leaving
    <2>5. (pc'[C] = "release") <=> (pc[C] = "release")
      BY <1>4, <2>3
    <2>6. localTail' \in [Blocks -> Nat]
      BY <1>2, <1>4 DEF TypeInv
    <2> QED
      BY <1>1, <1>2, <1>4, <2>1, <2>2, <2>3, <2>4, <2>5, <2>6, ConsumerLooks
  <1>6. CASE call[C].op # "peek"
    <2>1. PICK b, j, r : b = FB /\ j = FrontIx(b) /\ r = [val |-> Empty, by |-> C, at |-> epoch[C]]
      OBVIOUS
    <2>2. call[C].block = b /\ FrontIx(b) # localTail[b]
      BY <1>2, <1>4, <1>6, <2>1 DEF ConsumerInv
    <2>3. slot' = [slot EXCEPT ![b] = [slot[b] EXCEPT ![j] = r]] /\ GoOn(C, "release")
      BY <1>6, <2>1, <2>2 DEF Dequeue_Take, FrontIx
    <2>4. CallsTyped' /\ pc'[C] = "release" /\ pc'[P] = pc[P] /\ call' = call
      BY <1>2, <1>3, <2>3, GoOnMoves DEF Moves
    <2>5. b \in Ring /\ b \in 1 .. allocated /\ b \in Blocks
      BY <1>2, <2>1, RingBlocks DEF RingInv
    <2>6. j \in 0 .. size[b] - 1
      BY <1>2, <2>1, <2>5, Indices DEF IndexInv
    <2>7. SlotChanges(b, j, r)
      BY <1>4, <2>3 DEF SlotChanges
    <2>8. DOMAIN r = {"val", "by", "at"} /\ r.val = Empty
      BY <2>1
    <2>9. \A loc : Newest(loc)' = Newest(loc)
      BY <1>4 DEF Newest
    <2>10. /\ FB' = FB /\ TB' = TB
           /\ \A c : FrontIx(c)' = FrontIx(c) /\ TailIx(c)' = TailIx(c) /\ NextB(c)' = NextB(c)
      BY <2>9 DEF FB, TB, FrontIx, TailIx, NextB
    <2>11. j # TailIx(b)
      BY <1>1, <1>2, <1>4, <2>1, <2>2, FrontNotEmpty
    <2>12. pc[P] = "publishNext" => b # call[P].block
      <3> SUFFICES ASSUME pc[P] = "publishNext" PROVE b # call[P].block
        OBVIOUS
      <3>1. Advancing /\ call[P].block = NextB(TB)
        BY <1>2 DEF ProducerInv, Advancing, Filling
      <3> QED
        BY <3>1, <1>2, <2>1, FillingPlace
    <2>13. ~ Occupied(b, j)'
      BY <2>1, <2>4, <2>10, <2>11, <2>12 DEF Occupied
    <2>14. \A c \in 1 .. allocated : \A i \in 0 .. size[c] - 1 :
              (c # b \/ i # j) => (Occupied(c, i)' <=> Occupied(c, i))
      BY <1>4, <2>1, <2>4, <2>10 DEF Occupied
    <2>15. SlotInv' /\ DOMAIN slot' = Blocks
      BY <1>2, <2>5, <2>6, <2>7, <2>8, <2>13, <2>14, SlotStep
    <2>16. RingSize' = RingSize /\ Ring' = Ring /\ (Advancing' <=> Advancing) /\ (Filling' <=> Filling)
      BY <1>4, <2>4 DEF RingSize, Ring, Advancing, Filling
    <2>17. MemInv' /\ TypeInv' /\ IndexInv' /\ RingInv(pos)' /\ FrontBlockInv(pos)' /\ TailBlockInv(pos)'
      BY <1>2, <1>4, <2>4, <2>15, <2>16, MemoryKept
    <2>18. EmptyInv(pos)'
      BY <1>2, <2>4, <2>10, <2>16 DEF EmptyInv
    <2>19. ConsumerInv(pos)'
      BY <1>4, <2>1, <2>2, <2>4, <2>10 DEF ConsumerInv, Leaving
    <2>20. ProducerInv(pos)'
      BY <1>2, <1>4, <2>4, <2>10, <2>16 DEF ProducerInv
    <2>21. PosInv(pos)' /\ pos \in [Ring' -> 0 .. RingSize' - 1]
      BY <1>1, <2>16, <2>17, <2>18, <2>19, <2>20 DEF PosInv
    <2> QED
      BY <2>15, <2>17, <2>21 DEF Inv
  <1> QED
    BY <1>5, <1>6

-------------------------------------------------------------------------------
(***************************************************************************)
(* The steps that store.                                                    *)
(***************************************************************************)

LEMMA OthersKept ==
  ASSUME NEW loc, NEW v, Stored(loc, v), NEW l \in Locations, l # loc
  PROVE  mem'[l] = mem[l] /\ Newest(l)' = Newest(l)
  BY DEF Stored, Newest

LEMMA Wrap ==
  ASSUME NEW n \in Nat, n >= 2, NEW l \in 0 .. n - 1
  PROVE  (l + 1) % n = IF l + 1 = n THEN 0 ELSE l + 1
  OBVIOUS

LEMMA SuccDist ==
  ASSUME NEW n \in Nat, n >= 2, NEW x \in 0 .. n - 1, NEW f \in 0 .. n - 1, NEW l \in 0 .. n - 1,
         Dist(x, f, n) + Dist(f, l, n) < n, NEW v, v = (IF l + 1 = n THEN 0 ELSE l + 1), v # x
  PROVE  /\ v \in 0 .. n - 1 /\ v # f
         /\ Dist(f, v, n) = Dist(f, l, n) + 1
         /\ Dist(x, f, n) + Dist(f, v, n) < n
  BY DEF Dist

LEMMA VisibleGrows ==
  ASSUME MemInv, NEW loc \in Locations, NEW v, Grown(loc, v), NEW f, v # f, NEW e,
         Visible(mem[loc], f, e), MemInv'
  PROVE  Visible(mem'[loc], f, e)
  <1> DEFINE h == mem[loc]
             g == mem'[loc]
  <1>1. Len(h) \in Nat /\ Len(h) >= 1
    BY History
  <1>2. g[Len(g)].val = v
    BY DEF Grown, Newest
  <1>3. CASE Len(g) = Len(h) + 1 /\ \A j \in 1 .. Len(h) : g[j] = h[j]
    <2>1. PICK k \in 1 .. Len(h) : /\ k = 1 \/ h[k].at < e
                                   /\ \A i \in k .. Len(h) : h[i].val # f
      BY DEF Visible
    <2> HIDE DEF g, h
    <2>2. ASSUME NEW i \in k .. Len(g)
          PROVE  g[i].val # f
      <3>1. CASE i = Len(g)
        BY <1>2, <3>1
      <3>2. CASE i # Len(g)
        <4>1. i \in k .. Len(h) /\ i \in 1 .. Len(h)
          BY <1>1, <1>3, <3>2
        <4> QED
          BY <4>1, <1>3, <2>1
      <3> QED
        BY <3>1, <3>2
    <2>3. k \in 1 .. Len(g) /\ g[k] = h[k]
      BY <1>1, <1>3
    <2> QED
      BY <2>1, <2>2, <2>3 DEF Visible, g
  <1>4. CASE Len(g) = 1
    <2>1. \A i \in 1 .. Len(g) : g[i].val # f
      <3> HIDE DEF g
      <3> QED
        BY <1>2, <1>4
    <2> HIDE DEF g
    <2>2. 1 \in 1 .. Len(g)
      BY <1>4
    <2> QED
      BY <2>1, <2>2 DEF Visible, g
  <1> QED
    BY <1>3, <1>4 DEF Grown

TailGrows(b) ==
  /\ (TailIx(b) + 1) % size[b] # localFront[b]
  /\ Stored(TailOf(b), (TailIx(b) + 1) % size[b])
  /\ UNCHANGED <<size, localFront, localTail>>

LEMMA TailAdvances ==
  ASSUME MemInv, NEW b \in Blocks, BlockInv(b), size[b] \in Nat, size[b] >= 2, TailGrows(b)
  PROVE  /\ BlockInv(b)' /\ (TailCopied(b) => TailCopied(b)')
         /\ FrontIx(b)' = FrontIx(b) /\ TailIx(b)' # FrontIx(b)
         /\ Grown(TailOf(b), TailIx(b)')
         /\ Dist(FrontIx(b), TailIx(b)', size[b]) = Dist(FrontIx(b), TailIx(b), size[b]) + 1
  <1>1. PICK n, x, f, l, v, y : /\ n = size[b] /\ x = localFront[b] /\ f = FrontIx(b) /\ l = TailIx(b)
                             /\ v = (l + 1) % n /\ y = localTail[b]
    OBVIOUS
  <1>2. /\ n \in Nat /\ n >= 2 /\ x \in 0 .. n - 1 /\ f \in 0 .. n - 1 /\ l \in 0 .. n - 1
        /\ Dist(x, f, n) + Dist(f, l, n) < n /\ v # x /\ y \in 0 .. n - 1
    BY <1>1, Indices DEF TailGrows
  <1>3. /\ v \in 0 .. n - 1 /\ v # f
        /\ Dist(f, v, n) = Dist(f, l, n) + 1
        /\ Dist(x, f, n) + Dist(f, v, n) < n
    <2>1. v = (IF l + 1 = n THEN 0 ELSE l + 1)
      BY <1>1, <1>2, Wrap
    <2> QED
      BY <2>1, <1>2, SuccDist
  <1>4. /\ TailOf(b) \in Locations /\ FrontOf(b) \in Locations /\ FrontOf(b) # TailOf(b)
    BY Locs
  <1>5. Stored(TailOf(b), v) /\ MemInv' /\ Grown(TailOf(b), v)
        /\ size'[b] = n /\ localFront'[b] = x /\ localTail'[b] = y
    BY <1>1 DEF TailGrows, Stored
  <1>6. mem'[FrontOf(b)] = mem[FrontOf(b)] /\ FrontIx(b)' = f /\ TailIx(b)' = v
    BY <1>1, <1>4, <1>5, OthersKept DEF FrontIx, TailIx, Grown
  <1> DEFINE h == mem[FrontOf(b)]
             k == mem[TailOf(b)]
             g == mem'[TailOf(b)]
  <1>7. Len(k) \in Nat /\ Len(k) >= 1 /\ k[Len(k)].val = l
    BY <1>1, <1>4, History DEF TailIx
  <1>8. g[Len(g)].val = v
    BY <1>5 DEF Grown, Newest
  <1>9. /\ \A i \in 1 .. Len(h) : h[i].val \in 0 .. n - 1
        /\ \A i \in 1 .. Len(k) : k[i].val \in 0 .. n - 1
        /\ \A i, j \in 1 .. Len(h) : i <= j => Dist(x, h[i].val, n) <= Dist(x, h[j].val, n)
        /\ \A i, j \in 1 .. Len(k) : i <= j => Dist(f, k[i].val, n) <= Dist(f, k[j].val, n)
    BY <1>1 DEF BlockInv
  <1>10. /\ \A i \in 1 .. Len(g) : g[i].val \in 0 .. n - 1
         /\ \A i, j \in 1 .. Len(g) : i <= j => Dist(f, g[i].val, n) <= Dist(f, g[j].val, n)
    <2>1. CASE Len(g) = Len(k) + 1 /\ \A j \in 1 .. Len(k) : g[j] = k[j]
      <3> HIDE DEF g, k
      <3>1. ASSUME NEW i \in 1 .. Len(g)
            PROVE  /\ i \in 1 .. Len(k) \/ i = Len(g)
                   /\ g[i].val \in 0 .. n - 1
                   /\ i \in 1 .. Len(k) => Dist(f, g[i].val, n) <= Dist(f, l, n)
        <4>1. CASE i = Len(g)
          <5>1. i \notin 1 .. Len(k)
            BY <1>7, <2>1, <4>1
          <5> QED
            BY <4>1, <5>1, <1>3, <1>8
        <4>2. CASE i # Len(g)
          <5>1. i \in 1 .. Len(k) /\ Len(k) \in 1 .. Len(k) /\ i <= Len(k)
            BY <1>7, <2>1, <4>2
          <5> QED
            BY <5>1, <1>7, <1>9, <2>1
        <4> QED
          BY <4>1, <4>2
      <3>2. ASSUME NEW i \in 1 .. Len(g), NEW j \in 1 .. Len(g), i <= j
            PROVE  Dist(f, g[i].val, n) <= Dist(f, g[j].val, n)
        <4>1. CASE j \in 1 .. Len(k)
          <5>1. i \in 1 .. Len(k)
            BY <1>7, <2>1, <3>2, <4>1
          <5> QED
            BY <5>1, <4>1, <1>9, <2>1, <3>2
        <4>2. CASE j = Len(g) /\ i \in 1 .. Len(k)
          <5>1. Dist(f, g[i].val, n) <= Dist(f, l, n) /\ g[j].val = v /\ g[i].val \in 0 .. n - 1
            BY <3>1, <4>2, <1>8
          <5>2. Dist(f, g[i].val, n) \in Nat /\ Dist(f, l, n) \in Nat
            BY <5>1, <1>2, DistNat
          <5> QED
            BY <5>1, <5>2, <1>3
        <4>3. CASE j = Len(g) /\ i = Len(g)
          <5>1. Dist(f, v, n) \in Nat
            BY <1>2, <1>3, DistNat
          <5> QED
            BY <5>1, <4>3, <1>8
        <4> QED
          BY <3>1, <4>1, <4>2, <4>3
      <3> QED
        BY <3>1, <3>2
    <2>2. CASE Len(g) = 1
      <3> HIDE DEF g
      <3>1. Dist(f, v, n) \in Nat
        BY <1>2, <1>3, DistNat
      <3>2. \A i \in 1 .. Len(g) : g[i].val = v
        BY <2>2, <1>8
      <3> QED
        BY <1>3, <3>1, <3>2
    <2> QED
      BY <1>5, <2>1, <2>2 DEF Grown
  <1>11. BlockInv(b)'
    <2> HIDE DEF g, h, k
    <2> QED
      BY <1>2, <1>3, <1>5, <1>6, <1>9, <1>10 DEF BlockInv, g, h
  <1>12. ASSUME TailCopied(b) PROVE TailCopied(b)'
    <2>1. \A i \in 1 .. Len(k) : Dist(f, y, n) <= Dist(f, k[i].val, n)
      BY <1>1, <1>12 DEF TailCopied
    <2>2. Dist(f, y, n) <= Dist(f, v, n)
      <3> HIDE DEF k
      <3>1. Len(k) \in 1 .. Len(k)
        BY <1>7
      <3>2. Dist(f, y, n) <= Dist(f, l, n)
        BY <2>1, <3>1, <1>7
      <3>3. Dist(f, y, n) \in Nat /\ Dist(f, l, n) \in Nat
        BY <1>2, DistNat
      <3> QED
        BY <3>2, <3>3, <1>3
    <2>3. \A i \in 1 .. Len(g) : Dist(f, y, n) <= Dist(f, g[i].val, n)
      <3>1. CASE Len(g) = Len(k) + 1 /\ \A j \in 1 .. Len(k) : g[j] = k[j]
        <4> HIDE DEF g, k
        <4>1. \A i \in 1 .. Len(g) : i \in 1 .. Len(k) \/ i = Len(g)
          BY <1>7, <3>1
        <4> QED
          BY <4>1, <2>1, <2>2, <3>1, <1>8
      <3>2. CASE Len(g) = 1
        <4> HIDE DEF g
        <4> QED
          BY <3>2, <2>2, <1>8
      <3> QED
        BY <1>5, <3>1, <3>2 DEF Grown
    <2> HIDE DEF g
    <2> QED
      BY <2>3, <1>5, <1>6 DEF TailCopied, g
  <1>13. Grown(TailOf(b), TailIx(b)')
    BY <1>5, <1>6
  <1> QED
    BY <1>1, <1>3, <1>6, <1>11, <1>12, <1>13

LEMMA StoredTyped ==
  ASSUME MemInv, TypeInv, NEW loc, NEW v, Stored(loc, v), CallsTyped',
         UNCHANGED <<allocated, largestBlockSize, size, slot, localFront, localTail>>,
         sent' \in Nat,
         \A b \in Blocks : b > allocated => loc # FrontOf(b) /\ loc # TailOf(b)
  PROVE  TypeInv'
  <1>1. \A b \in Blocks : b > allocated =>
            mem'[FrontOf(b)] = mem[FrontOf(b)] /\ mem'[TailOf(b)] = mem[TailOf(b)]
    BY Locs DEF Stored
  <1> QED
    BY <1>1 DEF TypeInv

LEMMA SlotsSame ==
  ASSUME SlotInv, UNCHANGED <<slot, size, allocated>>,
         \A c \in 1 .. allocated : \A i \in 0 .. size[c] - 1 : Occupied(c, i)' <=> Occupied(c, i)
  PROVE  SlotInv'
  BY DEF SlotInv

LEMMA EnqueuePublishInv ==
  ASSUME Inv, Enqueue_Publish \/ Enqueue_PublishNext
  PROVE  Inv'
  <1>1. PICK pos \in [Ring -> 0 .. RingSize - 1] : PosInv(pos)
    BY DEF Inv
  <1>2. /\ MemInv /\ TypeInv /\ IndexInv /\ SlotInv /\ CallsTyped /\ RingInv(pos) /\ FrontBlockInv(pos)
        /\ TailBlockInv(pos) /\ EmptyInv(pos) /\ ProducerInv(pos) /\ ConsumerInv(pos)
    BY <1>1 DEF Inv, TypeInv, PosInv
  <1>3. P \in Threads /\ C \in Threads /\ P # C /\ "publishBlock" \in Labels
    BY Locs DEF Labels
  <1>4. PICK b, v, F, T, n : /\ b = IF pc[P] = "publish" THEN TB ELSE call[P].block
                    /\ v = (TailIx(b) + 1) % size[b] /\ F = FrontIx(b) /\ T = TailIx(b) /\ n = size[b]
    OBVIOUS
  <1>5. /\ pc[P] \in {"publish", "publishNext"}
        /\ UNCHANGED <<allocated, largestBlockSize, size, slot, localFront, localTail>>
    BY DEF Enqueue_Publish, Enqueue_PublishNext, pVars, blockVars, cVars
  <1>6. b \in Ring /\ b \in 1 .. allocated /\ b \in Blocks /\ n \in Nat /\ n >= 2
        /\ FB \in Ring /\ FB \in Blocks /\ FB \in 1 .. allocated /\ TB \in Ring /\ TB \in Blocks
        /\ allocated \in Nat /\ \A c \in Ring : c \in Blocks
    <2>1. TB \in Ring /\ NextB(TB) \in Ring /\ FB \in Ring
      BY <1>2 DEF RingInv
    <2>2. b \in Ring
      BY <1>4, <1>2, <1>5, <2>1 DEF ProducerInv, Filling
    <2> QED
      BY <1>2, <1>4, <2>1, <2>2, RingBlocks
  <1>7. BlockInv(b) /\ T \in 0 .. n - 1 /\ F \in 0 .. n - 1 /\ localFront[b] \in 0 .. n - 1
    BY <1>2, <1>4, <1>6, Indices DEF IndexInv
  <1>8. v \in 0 .. n - 1 /\ v \in Nat
    BY <1>4, <1>6, <1>7
  <1>9. TailOf(b) \in Locations /\ Owner(TailOf(b)) = P
    BY <1>6, Locs, Owners
  <1>10. Stored(TailOf(b), v) /\ MemInv' /\ seen' = seen
    <2>1. CASE pc[P] = "publish"
      <3>1. StoreReleased(P, TailOf(b), v)
        BY <1>4, <2>1 DEF Enqueue_Publish, Enqueue_PublishNext, Succ, TB, TailIx
      <3> QED
        BY <3>1, <1>2, <1>3, <1>8, <1>9, ReleasedStores DEF Stored
    <2>2. CASE pc[P] = "publishNext"
      <3>1. Store(P, TailOf(b), v)
        BY <1>4, <2>2 DEF Enqueue_Publish, Enqueue_PublishNext, Succ, TB, TailIx
      <3> QED
        BY <3>1, <1>2, <1>3, <1>8, <1>9, StoreStores DEF Stored
    <2> QED
      BY <1>5, <2>1, <2>2
  <1>11. /\ CallsTyped' /\ pc'[C] = pc[C] /\ call'[C] = call[C]
         /\ pc[P] = "publish" => pc'[P] = "idle" /\ sent' \in Nat
         /\ pc[P] = "publishNext" => pc'[P] = "publishBlock" /\ call'[P] = call[P] /\ sent' \in Nat
    <2>1. CASE pc[P] = "publish"
      <3>1. Return(P) /\ sent' = sent + 1 /\ sent \in Nat
        BY <2>1, <1>2 DEF Enqueue_Publish, Enqueue_PublishNext, TypeInv
      <3> QED
        BY <3>1, <1>2, <1>3, <2>1, ReturnMoves DEF Moves
    <2>2. CASE pc[P] = "publishNext"
      <3>1. GoOn(P, "publishBlock") /\ sent' = sent /\ sent \in Nat
        BY <2>2, <1>2 DEF Enqueue_Publish, Enqueue_PublishNext, TypeInv, pVars
      <3> QED
        BY <3>1, <1>2, <1>3, <2>2, GoOnMoves DEF Moves
    <2> QED
      BY <1>5, <2>1, <2>2
  <1>12. pc[P] = "publishNext" =>
            /\ b = NextB(TB) /\ b # FB /\ b # TB /\ pos[b] = pos[TB] + 1 /\ pos[TB] \in Nat
            /\ F = T /\ localFront[b] = F /\ call[P].block = b /\ pos[TB] + 1 < RingSize
    <2> SUFFICES ASSUME pc[P] = "publishNext"
                 PROVE  <1>12!2
      OBVIOUS
    <2>1. Advancing /\ Filling
      BY DEF Advancing, Filling
    <2>2. call[P].block = b /\ b = NextB(TB) /\ localFront[b] = F
      BY <1>2, <1>4, <2>1 DEF ProducerInv
    <2>3. b # FB /\ b # TB /\ pos[b] = pos[TB] + 1 /\ pos[TB] \in Nat /\ pos[TB] + 1 < RingSize
      BY <1>2, <2>1, <2>2, FillingPlace
    <2>4. pos[b] > pos[TB]
      BY <2>3
    <2>5. F = T
      BY <2>4, <1>2, <1>4, <1>6 DEF EmptyInv
    <2> QED
      BY <2>2, <2>3, <2>5
  <1>13. v # localFront[b]
    <2>1. CASE pc[P] = "publish"
      BY <2>1, <1>2, <1>4 DEF ProducerInv
    <2>2. CASE pc[P] = "publishNext"
      BY <2>2, <1>4, <1>6, <1>7, <1>12, Wrap
    <2> QED
      BY <1>5, <2>1, <2>2
  <1>14. TailGrows(b)
    BY <1>4, <1>5, <1>10, <1>13 DEF TailGrows
  <1>15. /\ BlockInv(b)' /\ (TailCopied(b) => TailCopied(b)')
         /\ FrontIx(b)' = F /\ TailIx(b)' # F
         /\ Grown(TailOf(b), TailIx(b)')
         /\ Dist(F, TailIx(b)', n) = Dist(F, T, n) + 1
    BY <1>2, <1>4, <1>6, <1>7, <1>14, TailAdvances
  <1>16. /\ \A l \in Locations : l # TailOf(b) => mem'[l] = mem[l] /\ Newest(l)' = Newest(l)
         /\ mem'[FrontBlock] = mem[FrontBlock] /\ mem'[TailBlock] = mem[TailBlock]
         /\ \A c \in Blocks : /\ mem'[FrontOf(c)] = mem[FrontOf(c)] /\ mem'[NextOf(c)] = mem[NextOf(c)]
                              /\ c # b => mem'[TailOf(c)] = mem[TailOf(c)]
    BY <1>10, OthersKept, Locs
  <1>17. /\ FB' = FB /\ TB' = TB
         /\ \A c \in Blocks : /\ FrontIx(c)' = FrontIx(c) /\ NextB(c)' = NextB(c)
                              /\ c # b => TailIx(c)' = TailIx(c)
    BY <1>16, Locs DEF FB, TB, FrontIx, NextB, TailIx
  <1>18. RingSize' = RingSize /\ Ring' = Ring /\ (Advancing' <=> Advancing)
    BY <1>5, <1>11 DEF RingSize, Ring, Advancing
  <1>19. TypeInv'
    BY <1>2, <1>5, <1>6, <1>10, <1>11, Locs, StoredTyped
  <1>20. \A c \in Blocks : TailCopied(c) => TailCopied(c)'
    BY <1>5, <1>15, <1>16, <1>17 DEF TailCopied
  <1>21. IndexInv'
    <2>1. ASSUME NEW c \in 1 .. allocated
          PROVE  BlockInv(c)'
      <3>1. CASE c = b
        BY <3>1, <1>15
      <3>2. CASE c # b
        <4>1. BlockInv(c) /\ c \in Blocks
          BY <1>2, RingBlocks DEF IndexInv
        <4> QED
          BY <4>1, <3>2, <1>5, <1>16, <1>17 DEF BlockInv
      <3> QED
        BY <3>1, <3>2
    <2>2. TailCopied(FB)
      BY <1>2 DEF IndexInv
    <2>3. ASSUME NEW c \in Blocks, c = FB PROVE TailCopied(c)'
      BY <2>2, <2>3, <1>20
    <2> QED
      BY <2>1, <2>3, <1>5, <1>6, <1>17 DEF IndexInv
  <1>22. SlotInv'
    <2>1. ASSUME NEW c \in 1 .. allocated, NEW i \in 0 .. size[c] - 1
          PROVE  Occupied(c, i)' <=> Occupied(c, i)
      <3>1. c \in Blocks
        BY <1>2, RingBlocks
      <3>2. CASE c # b
        BY <3>1, <3>2, <1>4, <1>5, <1>11, <1>12, <1>17 DEF Occupied
      <3>3. CASE c = b
        <4>1. Dist(F, i, n) \in Nat /\ Dist(F, T, n) \in Nat /\ (Dist(F, i, n) = Dist(F, T, n) => i = T)
          <5>1. i \in 0 .. n - 1
            BY <1>4, <3>3
          <5>2. Dist(F, i, n) = Dist(F, T, n) => i = T
            BY <5>1, <1>6, <1>7, DistEqual
          <5> QED
            BY <5>1, <5>2, <1>6, <1>7, DistNat
        <4>2. Dist(F, i, n) < Dist(F, TailIx(b)', n) <=> (Dist(F, i, n) < Dist(F, T, n) \/ i = T)
          BY <1>15, <4>1
        <4>3. pc[C] = "release" /\ b = FB => F # T
          BY <1>1, <1>2, <1>4, FrontNotEmpty DEF ConsumerInv
        <4>4. ~ (Dist(F, T, n) < Dist(F, T, n))
          BY <4>1
        <4>5. Occupied(c, i)' <=> /\ Dist(F, i, n) < Dist(F, TailIx(b)', n)
                                  /\ ~ (pc[C] = "release" /\ b = FB /\ i = F)
          BY <3>3, <1>4, <1>5, <1>11, <1>15, <1>17 DEF Occupied
        <4>6. Occupied(c, i) <=> \/ /\ Dist(F, i, n) < Dist(F, T, n)
                                    /\ ~ (pc[C] = "release" /\ b = FB /\ i = F)
                                 \/ i = T
          BY <3>3, <1>4, <1>5, <1>12 DEF Occupied
        <4> QED
          BY <4>2, <4>3, <4>5, <4>6
      <3> QED
        BY <3>2, <3>3
    <2> QED
      BY <2>1, <1>2, <1>5, SlotsSame
  <1>23. RingInv(pos)'
    BY <1>2, <1>6, <1>17, <1>18 DEF RingInv
  <1>24. FrontBlockInv(pos)'
    <2>1. LastUsed(pos)' = LastUsed(pos)
      BY <1>17, <1>18 DEF LastUsed
    <2> QED
      BY <2>1, <1>2, <1>6, <1>16, <1>17, <1>18 DEF FrontBlockInv
  <1>25. pos[b] >= pos[TB] /\ pos[b] \in Nat /\ pos[TB] \in Nat /\ (pos[b] <= pos[TB] => pc[P] = "publish")
    <2>1. \A c \in Ring : pos[c] \in 0 .. RingSize - 1
      BY <1>2 DEF RingInv
    <2>2. pos[b] \in Nat /\ pos[TB] \in Nat
      BY <2>1, <1>6
    <2>3. CASE pc[P] = "publish"
      BY <2>2, <2>3, <1>4
    <2>4. CASE pc[P] = "publishNext"
      BY <2>2, <2>4, <1>12
    <2> QED
      BY <2>2, <2>3, <2>4, <1>5
  <1>26. TailBlockInv(pos)'
    <2> SUFFICES ASSUME NEW j \in 1 .. Len(mem[TailBlock])
                 PROVE  LET s == mem[TailBlock][j] IN
                        /\ s.val \in Ring /\ pos[s.val] = pos[TB] - (Len(mem[TailBlock]) - j)
                        /\ \A c \in Ring : pos[c] < pos[s.val] =>
                              Settled(mem'[TailOf(c)], s.at) /\ Settled(mem'[NextOf(c)], s.at)
                        /\ \A c \in Ring : 0 < pos[c] /\ pos[c] <= pos[s.val] =>
                              Visible(mem'[TailOf(c)], FrontIx(c)', s.at)
      BY <1>16, <1>17, <1>18 DEF TailBlockInv
    <2>1. PICK s : s = mem[TailBlock][j]
      OBVIOUS
    <2>2. /\ s.val \in Ring /\ pos[s.val] = pos[TB] - (Len(mem[TailBlock]) - j)
          /\ \A c \in Ring : pos[c] < pos[s.val] =>
                Settled(mem[TailOf(c)], s.at) /\ Settled(mem[NextOf(c)], s.at)
          /\ \A c \in Ring : 0 < pos[c] /\ pos[c] <= pos[s.val] =>
                Visible(mem[TailOf(c)], FrontIx(c), s.at)
      BY <1>2, <2>1 DEF TailBlockInv
    <2>3. Len(mem[TailBlock]) \in Nat
      BY <1>2, Locs, History
    <2>4. pos[s.val] <= pos[TB] /\ pos[s.val] \in Int
      BY <2>2, <2>3, <1>25
    <2>5. ASSUME NEW c \in Ring, pos[c] < pos[s.val]
          PROVE  Settled(mem'[TailOf(c)], s.at) /\ Settled(mem'[NextOf(c)], s.at)
      <3>1. c # b
        BY <2>4, <2>5, <1>25
      <3> QED
        BY <3>1, <2>2, <2>5, <1>6, <1>16
    <2>6. ASSUME NEW c \in Ring, 0 < pos[c], pos[c] <= pos[s.val]
          PROVE  Visible(mem'[TailOf(c)], FrontIx(c)', s.at)
      <3>1. Visible(mem[TailOf(c)], FrontIx(c), s.at)
        BY <2>2, <2>6
      <3>2. CASE c # b
        BY <3>1, <3>2, <1>6, <1>16, <1>17
      <3>3. CASE c = b
        BY <3>1, <3>3, <1>2, <1>4, <1>9, <1>10, <1>15, VisibleGrows
      <3> QED
        BY <3>2, <3>3
    <2> QED
      BY <2>1, <2>2, <2>5, <2>6
  <1>27. EmptyInv(pos)'
    <2>1. ASSUME NEW c \in Ring
          PROVE  /\ pos[c] > pos[TB] /\ ~ (pc'[P] = "publishBlock" /\ c = call'[P].block) =>
                       FrontIx(c)' = TailIx(c)'
                 /\ 0 < pos[c] /\ pos[c] <= pos[TB] => FrontIx(c)' # TailIx(c)'
      <3>1. CASE c # b
        BY <3>1, <1>2, <1>5, <1>6, <1>17 DEF EmptyInv
      <3>2. CASE c = b
        <4>1. FrontIx(c)' # TailIx(c)'
          BY <3>2, <1>15
        <4>2. CASE pc[P] = "publish"
          BY <3>2, <4>1, <4>2, <1>4, <1>25
        <4>3. CASE pc[P] = "publishNext"
          BY <3>2, <4>1, <4>3, <1>11, <1>12
        <4> QED
          BY <4>2, <4>3, <1>5
      <3> QED
        BY <3>1, <3>2
    <2> QED
      BY <2>1, <1>17, <1>18 DEF EmptyInv
  <1>28. ConsumerInv(pos)'
    <2>1. Leaving => b # FB
      <3> SUFFICES ASSUME Leaving PROVE b # FB
        OBVIOUS
      <3>1. pos[TB] > 0 /\ pos[FB] = 0
        BY <1>1, <1>2, LeavingReads DEF RingInv
      <3> QED
        BY <3>1, <1>25
    <2>2. pc[C] = "moveFront" => TailCopied(call[C].block)'
      <3> SUFFICES ASSUME pc[C] = "moveFront" PROVE TailCopied(call[C].block)'
        OBVIOUS
      <3>1. TailCopied(call[C].block) /\ call[C].block = NextB(FB) /\ NextB(FB) \in Ring
        BY <1>2, <1>6 DEF ConsumerInv, RingInv
      <3>2. ASSUME NEW c \in Blocks, c = call[C].block PROVE TailCopied(c)'
        BY <3>1, <3>2, <1>20
      <3> QED
        BY <3>1, <3>2, <1>6, <1>11
    <2>3. pc[C] \in {"moveFront", "take", "release"} => call[C].block \in Blocks
      BY <1>2, <1>6 DEF ConsumerInv, RingInv
    <2> QED
      BY <2>1, <2>2, <2>3, <1>2, <1>5, <1>6, <1>10, <1>11, <1>16, <1>17, <1>18 DEF ConsumerInv, Leaving
  <1>29. ProducerInv(pos)'
    <2>1. CASE pc[P] = "publish"
      <3>1. pc'[P] = "idle"
        BY <2>1, <1>11
      <3> QED
        BY <3>1 DEF ProducerInv, Advancing, Filling
    <2>2. CASE pc[P] = "publishNext"
      <3>1. pc'[P] = "publishBlock" /\ call'[P] = call[P] /\ call[P].block = b
        BY <2>2, <1>11, <1>12
      <3> QED
        BY <3>1, <2>2, <1>6, <1>12, <1>15, <1>17, <1>18 DEF ProducerInv, Advancing, Filling
    <2> QED
      BY <1>5, <2>1, <2>2
  <1>30. PosInv(pos)' /\ pos \in [Ring' -> 0 .. RingSize' - 1]
    BY <1>1, <1>18, <1>23, <1>24, <1>26, <1>27, <1>28, <1>29 DEF PosInv
  <1> QED
    BY <1>10, <1>19, <1>21, <1>22, <1>30 DEF Inv

LEMMA SettledVisible ==
  ASSUME MemInv, NEW loc \in Locations, NEW e, Settled(mem[loc], e), NEW f, f # Newest(loc)
  PROVE  Visible(mem[loc], f, e)
  <1> DEFINE h == mem[loc]
  <1>1. Len(h) \in Nat /\ Len(h) >= 1 /\ h[Len(h)].val # f
    BY History
  <1>2. Len(h) = 1 \/ h[Len(h)].at < e
    BY DEF Settled
  <1> HIDE DEF h
  <1>3. Len(h) \in 1 .. Len(h) /\ \A i \in Len(h) .. Len(h) : i = Len(h)
    BY <1>1
  <1>4. Visible(h, f, e)
    BY <1>1, <1>2, <1>3 DEF Visible
  <1> QED
    BY <1>4 DEF h

LEMMA EnqueuePublishBlockInv ==
  ASSUME Inv, Enqueue_PublishBlock
  PROVE  Inv'
  <1>1. PICK pos \in [Ring -> 0 .. RingSize - 1] : PosInv(pos)
    BY DEF Inv
  <1>2. /\ MemInv /\ TypeInv /\ IndexInv /\ SlotInv /\ CallsTyped /\ RingInv(pos) /\ FrontBlockInv(pos)
        /\ TailBlockInv(pos) /\ EmptyInv(pos) /\ ProducerInv(pos) /\ ConsumerInv(pos)
    BY <1>1 DEF Inv, TypeInv, PosInv
  <1>3. P \in Threads /\ C \in Threads /\ P # C
    BY Locs
  <1>4. PICK b, p, T : b = call[P].block /\ p = pos[TB] /\ T = TB
    OBVIOUS
  <1>5. /\ pc[P] = "publishBlock" /\ Advancing /\ Filling
        /\ UNCHANGED <<allocated, largestBlockSize, size, slot, localFront, localTail>>
    BY DEF Enqueue_PublishBlock, pVars, blockVars, cVars, Advancing, Filling
  <1>6. /\ b \in Ring /\ pos[b] = p + 1 /\ b # FB /\ p \in Nat /\ p + 1 < RingSize
        /\ b = NextB(TB) /\ FrontIx(b) # TailIx(b) /\ RingSize \in Nat
    BY <1>2, <1>4, <1>5, FillingPlace DEF ProducerInv
  <1>7. /\ b \in Blocks /\ b \in Nat /\ FB \in Ring /\ FB \in Blocks /\ T \in Ring /\ T \in Blocks
        /\ allocated \in Nat /\ \A c \in Ring : c \in Blocks /\ pos[c] \in Nat
        /\ \A c \in Ring : pos[c] = pos[b] => c = b
    <2>1. FB \in Ring /\ TB \in Ring /\ \A c, d \in Ring : pos[c] = pos[d] => c = d
      BY <1>2 DEF RingInv
    <2>2. \A c \in Ring : c \in Blocks
      BY <1>2, RingBlocks
    <2>3. b \in Nat /\ allocated \in Nat
      BY <1>6, <1>2, RingBlocks DEF Ring
    <2>4. \A c \in Ring : pos[c] \in Nat
      BY <1>2 DEF RingInv
    <2> QED
      BY <1>4, <1>6, <2>1, <2>2, <2>3, <2>4
  <1>8. Stored(TailBlock, b) /\ Released(P, TailBlock) /\ MemInv' /\ seen' = seen
    <2>1. StoreReleased(P, TailBlock, b)
      BY <1>4 DEF Enqueue_PublishBlock
    <2> QED
      BY <2>1, <1>2, <1>3, <1>7, Locs, Owners, ReleasedStores DEF Stored
  <1>9. CallsTyped' /\ pc'[C] = pc[C] /\ call'[C] = call[C] /\ pc'[P] = "idle" /\ sent' \in Nat
    <2>1. Return(P) /\ sent' = sent + 1 /\ sent \in Nat
      BY <1>2 DEF Enqueue_PublishBlock, TypeInv
    <2> QED
      BY <2>1, <1>2, <1>3, ReturnMoves DEF Moves
  <1>10. /\ \A l \in Locations : l # TailBlock => mem'[l] = mem[l] /\ Newest(l)' = Newest(l)
         /\ mem'[FrontBlock] = mem[FrontBlock]
         /\ \A c \in Blocks : /\ mem'[FrontOf(c)] = mem[FrontOf(c)] /\ mem'[NextOf(c)] = mem[NextOf(c)]
                              /\ mem'[TailOf(c)] = mem[TailOf(c)]
    BY <1>8, OthersKept, Locs
  <1>11. /\ FB' = FB /\ TB' = b
         /\ \A c \in Blocks : /\ FrontIx(c)' = FrontIx(c) /\ NextB(c)' = NextB(c)
                              /\ TailIx(c)' = TailIx(c)
    BY <1>8, <1>10, Locs DEF FB, TB, FrontIx, NextB, TailIx, Stored, Grown
  <1>12. RingSize' = RingSize /\ Ring' = Ring /\ ~ Advancing'
    BY <1>5, <1>9 DEF RingSize, Ring, Advancing
  <1>13. TypeInv'
    BY <1>2, <1>5, <1>8, <1>9, Locs, StoredTyped
  <1>14. \A c \in Blocks : TailCopied(c) => TailCopied(c)'
    BY <1>5, <1>10, <1>11 DEF TailCopied
  <1>15. IndexInv'
    <2>1. ASSUME NEW c \in 1 .. allocated
          PROVE  BlockInv(c)'
      <3>1. BlockInv(c) /\ c \in Blocks
        BY <1>2, RingBlocks DEF IndexInv
      <3> QED
        BY <3>1, <1>5, <1>10, <1>11 DEF BlockInv
    <2>2. TailCopied(FB)
      BY <1>2 DEF IndexInv
    <2>3. ASSUME NEW c \in Blocks, c = FB PROVE TailCopied(c)'
      BY <2>2, <2>3, <1>14
    <2> QED
      BY <2>1, <2>3, <1>5, <1>7, <1>11 DEF IndexInv
  <1>16. SlotInv'
    <2>1. ASSUME NEW c \in 1 .. allocated, NEW i \in 0 .. size[c] - 1
          PROVE  Occupied(c, i)' <=> Occupied(c, i)
      <3>1. c \in Blocks
        BY <1>2, RingBlocks
      <3> QED
        BY <3>1, <1>5, <1>9, <1>11 DEF Occupied
    <2> QED
      BY <2>1, <1>2, <1>5, SlotsSame
  <1>17. RingInv(pos)'
    BY <1>2, <1>6, <1>7, <1>11, <1>12 DEF RingInv
  <1>18. FrontBlockInv(pos)'
    <2>1. LastUsed(pos)' = LastUsed(pos)
      BY <1>4, <1>5, <1>6, <1>11, <1>12 DEF LastUsed
    <2>2. \A c \in Ring : pos[TB'] < pos[c] => pos[TB] < pos[c]
      BY <1>4, <1>6, <1>7, <1>11
    <2> QED
      BY <2>1, <2>2, <1>2, <1>7, <1>10, <1>12 DEF FrontBlockInv
  <1> DEFINE h == mem[TailBlock]
             g == mem'[TailBlock]
  <1>19. Len(h) \in Nat /\ Len(h) >= 1 /\ Len(g) \in Nat /\ Len(g) >= 1 /\ g[Len(g)].val = b
    <2>1. Len(h) \in Nat /\ Len(h) >= 1
      BY <1>2, Locs, History
    <2>2. Len(g) \in Nat /\ Len(g) >= 1
      BY <1>8, <2>1 DEF Stored, Grown
    <2>3. g[Len(g)].val = b
      BY <1>8 DEF Stored, Grown, Newest
    <2> QED
      BY <2>1, <2>2, <2>3
  <1>20. ASSUME NEW j \in 1 .. Len(g)
         PROVE  \/ j = Len(g)
                \/ j \in 1 .. Len(h) /\ g[j] = h[j] /\ Len(g) = Len(h) + 1
    <2>1. CASE Len(g) = Len(h) + 1 /\ \A i \in 1 .. Len(h) : g[i] = h[i]
      <3> HIDE DEF g, h
      <3>1. j = Len(g) \/ j \in 1 .. Len(h)
        BY <1>19, <2>1
      <3> QED
        BY <3>1, <2>1
    <2>2. CASE Len(g) = 1
      <3> HIDE DEF g
      <3> QED
        BY <2>2
    <2> QED
      BY <1>8, <2>1, <2>2 DEF Stored, Grown
  <1>21. TailBlockInv(pos)'
    <2> SUFFICES ASSUME NEW j \in 1 .. Len(g)
                 PROVE  LET s == g[j] IN
                        /\ s.val \in Ring /\ pos[s.val] = pos[b] - (Len(g) - j)
                        /\ \A c \in Ring : pos[c] < pos[s.val] =>
                              Settled(mem[TailOf(c)], s.at) /\ Settled(mem[NextOf(c)], s.at)
                        /\ \A c \in Ring : 0 < pos[c] /\ pos[c] <= pos[s.val] =>
                              Visible(mem[TailOf(c)], FrontIx(c), s.at)
      BY <1>7, <1>10, <1>11, <1>12 DEF TailBlockInv
    <2>1. CASE j \in 1 .. Len(h) /\ g[j] = h[j] /\ Len(g) = Len(h) + 1
      <3>1. PICK s : s = h[j]
        OBVIOUS
      <3>2. /\ s.val \in Ring /\ pos[s.val] = p - (Len(h) - j)
            /\ \A c \in Ring : pos[c] < pos[s.val] =>
                  Settled(mem[TailOf(c)], s.at) /\ Settled(mem[NextOf(c)], s.at)
            /\ \A c \in Ring : 0 < pos[c] /\ pos[c] <= pos[s.val] =>
                  Visible(mem[TailOf(c)], FrontIx(c), s.at)
        BY <1>2, <1>4, <2>1, <3>1 DEF TailBlockInv
      <3>3. p - (Len(h) - j) = pos[b] - (Len(g) - j)
        <4> HIDE DEF g, h
        <4> QED
          BY <1>6, <1>19, <2>1
      <3> HIDE DEF g, h
      <3> QED
        BY <2>1, <3>1, <3>2, <3>3
    <2>2. CASE j = Len(g)
      <3>1. PICK e : e = g[j].at
        OBVIOUS
      <3>2. ASSUME NEW c \in Ring
            PROVE  Settled(mem[TailOf(c)], e) /\ Settled(mem[NextOf(c)], e)
        <4>1. /\ TailOf(c) \in Locations /\ TailOf(c) # TailBlock /\ Owner(TailOf(c)) = P
              /\ NextOf(c) \in Locations /\ NextOf(c) # TailBlock /\ Owner(NextOf(c)) = P
          BY <1>7, Locs, Owners
        <4> QED
          BY <4>1, <1>8, <2>2, <3>1 DEF Released
      <3>3. ASSUME NEW c \in Ring, 0 < pos[c], pos[c] <= pos[b]
            PROVE  Visible(mem[TailOf(c)], FrontIx(c), e)
        <4>1. FrontIx(c) # TailIx(c)
          <5>1. CASE c = b
            BY <5>1, <1>6
          <5>2. CASE c # b
            <6>1. pos[c] # pos[b] /\ pos[c] \in Nat
              BY <5>2, <1>7
            <6>2. pos[c] <= p
              BY <6>1, <3>3, <1>6
            <6> QED
              BY <6>2, <3>3, <1>2, <1>4 DEF EmptyInv
          <5> QED
            BY <5>1, <5>2
        <4>2. Settled(mem[TailOf(c)], e) /\ TailOf(c) \in Locations
          BY <3>2, <1>7, Locs
        <4> QED
          BY <4>1, <4>2, <1>2, SettledVisible DEF TailIx
      <3>4. g[j].val = b /\ pos[b] = pos[b] - (Len(g) - j)
        <4> HIDE DEF g
        <4> QED
          BY <1>6, <1>19, <2>2
      <3> HIDE DEF g
      <3> QED
        BY <3>1, <3>2, <3>3, <3>4, <1>6
    <2> QED
      BY <1>20, <2>1, <2>2
  <1>22. EmptyInv(pos)'
    <2>1. ASSUME NEW c \in Ring
          PROVE  /\ pos[c] > pos[b] => FrontIx(c)' = TailIx(c)'
                 /\ 0 < pos[c] /\ pos[c] <= pos[b] => FrontIx(c)' # TailIx(c)'
      <3>1. CASE c = b
        BY <3>1, <1>6, <1>7, <1>11
      <3>2. CASE c # b
        <4>1. pos[c] # pos[b] /\ pos[c] \in Nat
          BY <3>2, <1>7
        <4>2. (pos[c] > pos[b] => pos[c] > p) /\ (pos[c] <= pos[b] => pos[c] <= p)
          BY <4>1, <1>6
        <4>3. /\ pos[c] > p => FrontIx(c) = TailIx(c)
              /\ 0 < pos[c] /\ pos[c] <= p => FrontIx(c) # TailIx(c)
          BY <3>2, <1>2, <1>4 DEF EmptyInv
        <4> QED
          BY <4>2, <4>3, <1>7, <1>11
      <3> QED
        BY <3>1, <3>2
    <2> QED
      BY <2>1, <1>9, <1>11, <1>12 DEF EmptyInv
  <1>23. ConsumerInv(pos)'
    <2>1. Leaving => mem'[TailBlock][1].val # FB /\ mem'[TailBlock][1].at <= seen[C]
      <3> SUFFICES ASSUME Leaving PROVE g[1].val # FB /\ g[1].at <= seen[C]
        OBVIOUS
      <3>1. h[1].val # FB /\ h[1].at <= seen[C]
        BY <1>2 DEF ConsumerInv
      <3>2. CASE Len(g) = Len(h) + 1 /\ \A i \in 1 .. Len(h) : g[i] = h[i]
        <4> HIDE DEF g, h
        <4>1. 1 \in 1 .. Len(h)
          BY <1>19
        <4> QED
          BY <3>1, <3>2, <4>1
      <3>3. CASE Len(g) = 1 /\ g[1].at = 0
        <4>1. seen[C] \in Nat
          BY <1>2, <1>3 DEF MemInv
        <4> HIDE DEF g
        <4> QED
          BY <4>1, <3>3, <1>6, <1>19
      <3> QED
        BY <1>8, <3>2, <3>3 DEF Stored, Grown
    <2>2. pc[C] = "moveFront" => TailCopied(call[C].block)'
      <3> SUFFICES ASSUME pc[C] = "moveFront" PROVE TailCopied(call[C].block)'
        OBVIOUS
      <3>1. TailCopied(call[C].block) /\ call[C].block = NextB(FB) /\ NextB(FB) \in Ring
        BY <1>2, <1>7 DEF ConsumerInv, RingInv
      <3>2. ASSUME NEW c \in Blocks, c = call[C].block PROVE TailCopied(c)'
        BY <3>1, <3>2, <1>14
      <3> QED
        BY <3>1, <3>2, <1>7, <1>9
    <2>3. pc[C] \in {"moveFront", "take", "release"} => call[C].block \in Blocks
      BY <1>2, <1>7 DEF ConsumerInv, RingInv
    <2>4. pos[b] > 0
      BY <1>6
    <2> HIDE DEF g, h
    <2> QED
      BY <2>1, <2>2, <2>3, <2>4, <1>2, <1>5, <1>7, <1>8, <1>9, <1>11, <1>12 DEF ConsumerInv, Leaving
  <1>24. ProducerInv(pos)'
    BY <1>9 DEF ProducerInv, Advancing, Filling
  <1>25. PosInv(pos)' /\ pos \in [Ring' -> 0 .. RingSize' - 1]
    BY <1>1, <1>12, <1>17, <1>18, <1>21, <1>22, <1>23, <1>24 DEF PosInv
  <1> QED
    BY <1>8, <1>13, <1>15, <1>16, <1>25 DEF Inv

LEMMA FrontDist ==
  ASSUME NEW n \in Nat, n >= 2, NEW f \in 0 .. n - 1, NEW y \in 0 .. n - 1,
         NEW v, v = (IF f + 1 = n THEN 0 ELSE f + 1)
  PROVE  /\ v \in 0 .. n - 1
         /\ f # y => Dist(v, y, n) = Dist(f, y, n) - 1
         /\ f = y => Dist(v, y, n) = n - 1
         /\ Dist(y, f, n) + 1 < n => Dist(y, v, n) = Dist(y, f, n) + 1
  BY DEF Dist

FrontGrows(b) ==
  /\ FrontIx(b) # localTail[b] /\ TailCopied(b)
  /\ Stored(FrontOf(b), (FrontIx(b) + 1) % size[b])
  /\ UNCHANGED <<size, localFront, localTail>>

LEMMA FrontAdvances ==
  ASSUME MemInv, NEW b \in Blocks, BlockInv(b), size[b] \in Nat, size[b] >= 2, FrontGrows(b)
  PROVE  /\ BlockInv(b)' /\ TailCopied(b)' /\ TailIx(b)' = TailIx(b)
         /\ FrontIx(b)' = (FrontIx(b) + 1) % size[b]
         /\ FrontIx(b) # TailIx(b)
  <1>1. PICK n, x, f, l, v, y : /\ n = size[b] /\ x = localFront[b] /\ f = FrontIx(b) /\ l = TailIx(b)
                             /\ v = (f + 1) % n /\ y = localTail[b]
    OBVIOUS
  <1>2. /\ n \in Nat /\ n >= 2 /\ x \in 0 .. n - 1 /\ f \in 0 .. n - 1 /\ l \in 0 .. n - 1
        /\ Dist(x, f, n) + Dist(f, l, n) < n /\ y \in 0 .. n - 1 /\ f # y /\ f # l
    BY <1>1, Indices, CopyBehindTail DEF FrontGrows
  <1>3. v = (IF f + 1 = n THEN 0 ELSE f + 1)
    BY <1>1, <1>2, Wrap
  <1>4. /\ v \in 0 .. n - 1 /\ Dist(x, v, n) = Dist(x, f, n) + 1
        /\ Dist(x, v, n) + Dist(v, l, n) < n
        /\ \A z \in 0 .. n - 1 : f # z => Dist(v, z, n) = Dist(f, z, n) - 1
    <2>1. v \in 0 .. n - 1 /\ \A z \in 0 .. n - 1 : f # z => Dist(v, z, n) = Dist(f, z, n) - 1
      BY <1>2, <1>3, FrontDist
    <2>2. /\ Dist(x, f, n) \in Nat /\ Dist(f, l, n) \in Nat /\ Dist(f, l, n) # 0
      BY <1>2, DistNat
    <2>3. Dist(x, f, n) + 1 < n
      BY <2>2, <1>2
    <2>4. Dist(x, v, n) = Dist(x, f, n) + 1
      BY <2>3, <1>2, <1>3, FrontDist
    <2>5. Dist(v, l, n) = Dist(f, l, n) - 1
      BY <2>1, <1>2
    <2> QED
      BY <2>1, <2>2, <2>4, <2>5, <1>2
  <1>5. /\ TailOf(b) \in Locations /\ FrontOf(b) \in Locations /\ FrontOf(b) # TailOf(b)
    BY Locs
  <1>6. Stored(FrontOf(b), v) /\ MemInv' /\ Grown(FrontOf(b), v) /\ TailCopied(b)
        /\ size'[b] = n /\ localFront'[b] = x /\ localTail'[b] = y
    BY <1>1 DEF FrontGrows, Stored
  <1>7. mem'[TailOf(b)] = mem[TailOf(b)] /\ FrontIx(b)' = v /\ TailIx(b)' = l
    BY <1>1, <1>5, <1>6, OthersKept DEF FrontIx, TailIx, Grown
  <1> DEFINE h == mem[FrontOf(b)]
             k == mem[TailOf(b)]
             g == mem'[FrontOf(b)]
  <1>8. Len(h) \in Nat /\ Len(h) >= 1 /\ h[Len(h)].val = f
    BY <1>1, <1>5, History DEF FrontIx
  <1>9. g[Len(g)].val = v
    BY <1>6 DEF Grown, Newest
  <1>10. /\ \A i \in 1 .. Len(h) : h[i].val \in 0 .. n - 1
         /\ \A i \in 1 .. Len(k) : k[i].val \in 0 .. n - 1
         /\ \A i, j \in 1 .. Len(h) : i <= j => Dist(x, h[i].val, n) <= Dist(x, h[j].val, n)
         /\ \A i, j \in 1 .. Len(k) : i <= j => Dist(f, k[i].val, n) <= Dist(f, k[j].val, n)
         /\ \A i \in 1 .. Len(k) : Dist(f, y, n) <= Dist(f, k[i].val, n)
    BY <1>1, <1>6 DEF BlockInv, TailCopied
  <1>11. /\ \A i \in 1 .. Len(g) : g[i].val \in 0 .. n - 1
         /\ \A i, j \in 1 .. Len(g) : i <= j => Dist(x, g[i].val, n) <= Dist(x, g[j].val, n)
    <2>1. CASE Len(g) = Len(h) + 1 /\ \A j \in 1 .. Len(h) : g[j] = h[j]
      <3> HIDE DEF g, h
      <3>1. ASSUME NEW i \in 1 .. Len(g)
            PROVE  /\ i \in 1 .. Len(h) \/ i = Len(g)
                   /\ g[i].val \in 0 .. n - 1
                   /\ i \in 1 .. Len(h) => Dist(x, g[i].val, n) <= Dist(x, f, n)
        <4>1. CASE i = Len(g)
          <5>1. i \notin 1 .. Len(h)
            BY <1>8, <2>1, <4>1
          <5> QED
            BY <4>1, <5>1, <1>4, <1>9
        <4>2. CASE i # Len(g)
          <5>1. i \in 1 .. Len(h) /\ Len(h) \in 1 .. Len(h) /\ i <= Len(h)
            BY <1>8, <2>1, <4>2
          <5> QED
            BY <5>1, <1>8, <1>10, <2>1
        <4> QED
          BY <4>1, <4>2
      <3>2. ASSUME NEW i \in 1 .. Len(g), NEW j \in 1 .. Len(g), i <= j
            PROVE  Dist(x, g[i].val, n) <= Dist(x, g[j].val, n)
        <4>1. CASE j \in 1 .. Len(h)
          <5>1. i \in 1 .. Len(h)
            BY <1>8, <2>1, <3>2, <4>1
          <5> QED
            BY <5>1, <4>1, <1>10, <2>1, <3>2
        <4>2. CASE j = Len(g) /\ i \in 1 .. Len(h)
          <5>1. Dist(x, g[i].val, n) <= Dist(x, f, n) /\ g[j].val = v /\ g[i].val \in 0 .. n - 1
            BY <3>1, <4>2, <1>9
          <5>2. Dist(x, g[i].val, n) \in Nat /\ Dist(x, f, n) \in Nat
            BY <5>1, <1>2, DistNat
          <5> QED
            BY <5>1, <5>2, <1>4
        <4>3. CASE j = Len(g) /\ i = Len(g)
          <5>1. Dist(x, v, n) \in Nat
            BY <1>2, <1>4, DistNat
          <5> QED
            BY <5>1, <4>3, <1>9
        <4> QED
          BY <3>1, <4>1, <4>2, <4>3
      <3> QED
        BY <3>1, <3>2
    <2>2. CASE Len(g) = 1
      <3> HIDE DEF g
      <3>1. Dist(x, v, n) \in Nat
        BY <1>2, <1>4, DistNat
      <3>2. \A i \in 1 .. Len(g) : g[i].val = v
        BY <2>2, <1>9
      <3> QED
        BY <1>4, <3>1, <3>2
    <2> QED
      BY <1>6, <2>1, <2>2 DEF Grown
  <1>12. /\ \A i \in 1 .. Len(k) : Dist(v, k[i].val, n) = Dist(f, k[i].val, n) - 1
                                   /\ Dist(f, k[i].val, n) \in Nat
         /\ Dist(v, y, n) = Dist(f, y, n) - 1 /\ Dist(f, y, n) \in Nat
    <2> HIDE DEF k
    <2>1. Dist(f, y, n) \in Nat /\ Dist(f, y, n) # 0 /\ Dist(v, y, n) = Dist(f, y, n) - 1
      BY <1>2, <1>4, DistNat
    <2>2. ASSUME NEW i \in 1 .. Len(k)
          PROVE  Dist(v, k[i].val, n) = Dist(f, k[i].val, n) - 1 /\ Dist(f, k[i].val, n) \in Nat
      <3>1. PICK z : z = k[i].val
        OBVIOUS
      <3>2. z \in 0 .. n - 1 /\ Dist(f, y, n) <= Dist(f, z, n)
        BY <3>1, <1>10
      <3>3. Dist(f, z, n) \in Nat /\ (Dist(f, z, n) = 0 <=> f = z)
        BY <3>2, <1>2, DistNat
      <3>4. f # z
        BY <3>2, <3>3, <2>1
      <3> QED
        BY <3>1, <3>2, <3>3, <3>4, <1>4
    <2> QED
      BY <2>1, <2>2
  <1>13. \A i, j \in 1 .. Len(k) : i <= j => Dist(v, k[i].val, n) <= Dist(v, k[j].val, n)
    <2> HIDE DEF k
    <2> QED
      BY <1>10, <1>12
  <1>14. BlockInv(b)'
    <2> HIDE DEF g, h, k
    <2> QED
      BY <1>2, <1>4, <1>6, <1>7, <1>10, <1>11, <1>13 DEF BlockInv, g, k
  <1>15. TailCopied(b)'
    <2>1. \A i \in 1 .. Len(k) : Dist(v, y, n) <= Dist(v, k[i].val, n)
      <3> HIDE DEF k
      <3> QED
        BY <1>10, <1>12
    <2> HIDE DEF k
    <2> QED
      BY <2>1, <1>6, <1>7 DEF TailCopied, k
  <1> QED
    BY <1>1, <1>2, <1>7, <1>14, <1>15

LEMMA DequeueReleaseInv ==
  ASSUME Inv, Dequeue_Release
  PROVE  Inv'
  <1>1. PICK pos \in [Ring -> 0 .. RingSize - 1] : PosInv(pos)
    BY DEF Inv
  <1>2. /\ MemInv /\ TypeInv /\ IndexInv /\ SlotInv /\ CallsTyped /\ RingInv(pos) /\ FrontBlockInv(pos)
        /\ TailBlockInv(pos) /\ EmptyInv(pos) /\ ProducerInv(pos) /\ ConsumerInv(pos)
    BY <1>1 DEF Inv, TypeInv, PosInv
  <1>3. P \in Threads /\ C \in Threads /\ P # C
    BY Locs
  <1>4. PICK b, v, F, T, n : /\ b = FB /\ v = (FrontIx(b) + 1) % size[b]
                             /\ F = FrontIx(b) /\ T = TailIx(b) /\ n = size[b]
    OBVIOUS
  <1>5. /\ pc[C] = "release" /\ sent' = sent
        /\ UNCHANGED <<allocated, largestBlockSize, size, slot, localFront, localTail>>
    BY DEF Dequeue_Release, pVars, blockVars, cVars
  <1>6. call[C].block = b /\ F # localTail[b]
    BY <1>2, <1>4, <1>5 DEF ConsumerInv
  <1>7. /\ b \in Ring /\ b \in 1 .. allocated /\ b \in Blocks /\ n \in Nat /\ n >= 2 /\ b \in Nat
        /\ TB \in Ring /\ TB \in Blocks /\ allocated \in Nat
        /\ \A c \in Ring : c \in Blocks /\ pos[c] \in Nat
        /\ \A c \in Ring : pos[c] > 0 => c # b
    <2>1. TB \in Ring /\ FB \in Ring /\ pos[FB] = 0 /\ \A c \in Ring : pos[c] \in Nat
      BY <1>2 DEF RingInv
    <2> QED
      BY <1>2, <1>4, <2>1, RingBlocks
  <1>8. BlockInv(b) /\ TailCopied(b) /\ T \in 0 .. n - 1 /\ F \in 0 .. n - 1 /\ localFront[b] \in 0 .. n - 1
    BY <1>2, <1>4, <1>7, Indices DEF IndexInv
  <1>9. v \in 0 .. n - 1 /\ v \in Nat /\ v = (IF F + 1 = n THEN 0 ELSE F + 1)
    <2>1. v = (IF F + 1 = n THEN 0 ELSE F + 1)
      BY <1>4, <1>7, <1>8, Wrap
    <2> QED
      BY <2>1, <1>7, <1>8
  <1>10. FrontOf(b) \in Locations /\ Owner(FrontOf(b)) = C
    BY <1>7, Locs, Owners
  <1>11. Stored(FrontOf(b), v) /\ MemInv' /\ seen' = seen
    <2>1. StoreReleased(C, FrontOf(b), v)
      BY <1>4, <1>6 DEF Dequeue_Release, Succ, FrontIx
    <2> QED
      BY <2>1, <1>2, <1>3, <1>9, <1>10, ReleasedStores DEF Stored
  <1>12. CallsTyped' /\ pc'[P] = pc[P] /\ call'[P] = call[P] /\ pc'[C] = "idle"
    <2>1. Return(C)
      BY DEF Dequeue_Release
    <2> QED
      BY <2>1, <1>2, <1>3, ReturnMoves DEF Moves
  <1>13. FrontGrows(b)
    BY <1>4, <1>5, <1>6, <1>8, <1>11 DEF FrontGrows
  <1>14. BlockInv(b)' /\ TailCopied(b)' /\ TailIx(b)' = T /\ FrontIx(b)' = v /\ F # T
    BY <1>2, <1>4, <1>7, <1>8, <1>13, FrontAdvances
  <1>15. /\ \A l \in Locations : l # FrontOf(b) => mem'[l] = mem[l] /\ Newest(l)' = Newest(l)
         /\ mem'[FrontBlock] = mem[FrontBlock] /\ mem'[TailBlock] = mem[TailBlock]
         /\ \A c \in Blocks : /\ mem'[TailOf(c)] = mem[TailOf(c)] /\ mem'[NextOf(c)] = mem[NextOf(c)]
                              /\ c # b => mem'[FrontOf(c)] = mem[FrontOf(c)]
    BY <1>11, OthersKept, Locs
  <1>16. /\ FB' = FB /\ TB' = TB
         /\ \A c \in Blocks : /\ TailIx(c)' = TailIx(c) /\ NextB(c)' = NextB(c)
                              /\ c # b => FrontIx(c)' = FrontIx(c)
    BY <1>15, Locs DEF FB, TB, FrontIx, NextB, TailIx
  <1>17. RingSize' = RingSize /\ Ring' = Ring /\ (Advancing' <=> Advancing) /\ (Filling' <=> Filling)
    BY <1>5, <1>12 DEF RingSize, Ring, Advancing, Filling
  <1>18. TypeInv'
    <2>1. sent' \in Nat
      BY <1>2, <1>5 DEF TypeInv
    <2> QED
      BY <2>1, <1>2, <1>5, <1>7, <1>11, <1>12, Locs, StoredTyped
  <1>19. IndexInv'
    <2>1. ASSUME NEW c \in 1 .. allocated
          PROVE  BlockInv(c)'
      <3>1. CASE c = b
        BY <3>1, <1>14
      <3>2. CASE c # b
        <4>1. BlockInv(c) /\ c \in Blocks
          BY <1>2, RingBlocks DEF IndexInv
        <4> QED
          BY <4>1, <3>2, <1>5, <1>15, <1>16 DEF BlockInv
      <3> QED
        BY <3>1, <3>2
    <2> QED
      BY <2>1, <1>4, <1>5, <1>14, <1>16 DEF IndexInv
  <1>20. SlotInv'
    <2>1. ASSUME NEW c \in 1 .. allocated, NEW i \in 0 .. size[c] - 1
          PROVE  Occupied(c, i)' <=> Occupied(c, i)
      <3>1. c \in Blocks
        BY <1>2, RingBlocks
      <3>2. CASE c # b
        BY <3>1, <3>2, <1>4, <1>5, <1>12, <1>16 DEF Occupied
      <3>3. CASE c = b
        <4>1. i \in 0 .. n - 1
          BY <3>3, <1>4
        <4>2. /\ F # i => Dist(v, i, n) = Dist(F, i, n) - 1
              /\ F = i => Dist(v, i, n) = n - 1
              /\ Dist(v, T, n) = Dist(F, T, n) - 1
          BY <4>1, <1>7, <1>8, <1>9, <1>14, FrontDist
        <4>3. Dist(F, i, n) \in Nat /\ Dist(F, T, n) \in Nat /\ Dist(F, T, n) <= n - 1
          BY <4>1, <1>7, <1>8, DistNat
        <4>4. Dist(v, i, n) < Dist(v, T, n) <=> (Dist(F, i, n) < Dist(F, T, n) /\ i # F)
          <5>1. CASE i = F
            BY <4>2, <4>3, <1>7, <5>1
          <5>2. CASE i # F
            BY <4>2, <4>3, <5>2
          <5> QED
            BY <5>1, <5>2
        <4>5. pc'[C] # "release"
          BY <1>12
        <4> QED
          BY <3>1, <3>3, <4>4, <4>5, <1>4, <1>5, <1>12, <1>14, <1>16 DEF Occupied
      <3> QED
        BY <3>2, <3>3
    <2> QED
      BY <2>1, <1>2, <1>5, SlotsSame
  <1>21. RingInv(pos)'
    BY <1>2, <1>7, <1>16, <1>17 DEF RingInv
  <1>22. FrontBlockInv(pos)'
    <2>1. LastUsed(pos)' = LastUsed(pos)
      BY <1>16, <1>17 DEF LastUsed
    <2>2. \A c \in Ring : pos[TB] < pos[c] => mem'[FrontOf(c)] = mem[FrontOf(c)]
      <3>1. pos[TB] \in Nat /\ \A c \in Ring : pos[c] \in Nat
        BY <1>7
      <3>2. \A c \in Ring : pos[TB] < pos[c] => pos[c] > 0
        BY <3>1
      <3>3. \A c \in Ring : pos[TB] < pos[c] => c \in Blocks /\ c # b
        BY <1>7, <3>2
      <3> QED
        BY <1>15, <3>3
    <2> QED
      BY <2>1, <2>2, <1>2, <1>15, <1>16, <1>17 DEF FrontBlockInv
  <1>23. TailBlockInv(pos)'
    BY <1>2, <1>7, <1>15, <1>16, <1>17 DEF TailBlockInv
  <1>24. EmptyInv(pos)'
    <2>0. pos[TB]' = pos[TB] /\ pos[TB] \in Nat
      BY <1>7, <1>16
    <2>1. ASSUME NEW c \in Ring
          PROVE  /\ pos[c] > pos[TB] /\ ~ (pc'[P] = "publishBlock" /\ c = call'[P].block) =>
                       FrontIx(c)' = TailIx(c)'
                 /\ 0 < pos[c] /\ pos[c] <= pos[TB] => FrontIx(c)' # TailIx(c)'
      <3>1. c \in Blocks /\ pos[c] \in Nat /\ TailIx(c)' = TailIx(c)
        BY <1>7, <1>16
      <3>2. pos[c] > 0 => FrontIx(c)' = FrontIx(c)
        BY <3>1, <1>7, <1>16
      <3>3. pos[c] > pos[TB] => pos[c] > 0
        BY <2>0, <3>1
      <3>4. /\ pos[c] > pos[TB] /\ ~ (pc[P] = "publishBlock" /\ c = call[P].block) =>
                  FrontIx(c) = TailIx(c)
            /\ 0 < pos[c] /\ pos[c] <= pos[TB] => FrontIx(c) # TailIx(c)
        BY <1>2 DEF EmptyInv
      <3> QED
        BY <3>1, <3>2, <3>3, <3>4, <1>12
    <2> QED
      BY <2>0, <2>1, <1>17 DEF EmptyInv
  <1>25. ConsumerInv(pos)'
    BY <1>12 DEF ConsumerInv, Leaving
  <1>26. ProducerInv(pos)'
    <2>1. Filling => call[P].block # b /\ call[P].block \in Blocks
      <3> SUFFICES ASSUME Filling PROVE call[P].block # b /\ call[P].block \in Blocks
        OBVIOUS
      <3>1. Advancing /\ call[P].block = NextB(TB)
        BY <1>2 DEF ProducerInv, Advancing, Filling
      <3> QED
        BY <3>1, <1>2, <1>4, <1>7, FillingPlace
    <2>2. pc[P] = "link" => /\ call[P].block # b /\ call[P].block \in Blocks
                            /\ NextB(call[P].block)' = NextB(call[P].block)
      <3> SUFFICES ASSUME pc[P] = "link"
                   PROVE  call[P].block # b /\ call[P].block \in Blocks
        BY <1>12, <1>16
      <3>1. call[P].block = allocated
        BY <1>2 DEF ProducerInv
      <3>2. b \in 1 .. allocated - 1 /\ allocated \in Blocks
        BY <1>2, <1>7 DEF Ring, RingSize, TypeInv
      <3> QED
        BY <3>1, <3>2, <1>7
    <2>3. pc[P] \in {"writeNext", "publishNext", "publishBlock", "link"} =>
              /\ FrontIx(call[P].block)' = FrontIx(call[P].block)
              /\ TailIx(call[P].block)' = TailIx(call[P].block)
              /\ mem'[FrontOf(call[P].block)] = mem[FrontOf(call[P].block)]
      BY <2>1, <2>2, <1>12, <1>15, <1>16 DEF Filling
    <2>4. NextB(TB)' = NextB(TB) /\ TailIx(TB)' = TailIx(TB)
      BY <1>7, <1>16
    <2> QED
      BY <2>2, <2>3, <2>4, <1>2, <1>5, <1>11, <1>12, <1>15, <1>16, <1>17 DEF ProducerInv
  <1>27. PosInv(pos)' /\ pos \in [Ring' -> 0 .. RingSize' - 1]
    BY <1>1, <1>17, <1>21, <1>22, <1>23, <1>24, <1>25, <1>26 DEF PosInv
  <1> QED
    BY <1>11, <1>18, <1>19, <1>20, <1>27 DEF Inv

\* The places of the blocks, counted from the block after frontBlock.
Turned(pos, q) ==
  q = [c \in Ring |-> IF pos[c] = 0 THEN RingSize - 1 ELSE pos[c] - 1]

LEMMA TurnedRing ==
  ASSUME TypeInv, NEW pos, RingInv(pos), NEW q, Turned(pos, q)
  PROVE  /\ RingSize \in Nat /\ RingSize >= 1
         /\ q \in [Ring -> 0 .. RingSize - 1]
         /\ \A c \in Ring : /\ pos[c] \in Nat /\ pos[c] <= RingSize - 1
                            /\ q[c] \in Nat /\ q[c] <= RingSize - 1
                            /\ pos[c] = 0 => q[c] = RingSize - 1
                            /\ pos[c] # 0 => q[c] = pos[c] - 1
         /\ \A c, d \in Ring : q[c] = q[d] => c = d
         /\ \A c \in Ring : /\ NextB(c) \in Ring
                            /\ q[NextB(c)] = IF q[c] = RingSize - 1 THEN 0 ELSE q[c] + 1
  <1>1. RingSize \in Nat /\ FB \in Ring
    BY RingBlocks DEF RingInv
  <1>2. RingSize >= 1
    BY <1>1 DEF Ring
  <1>3. ASSUME NEW c \in Ring
        PROVE  pos[c] \in 0 .. RingSize - 1 /\ q[c] = IF pos[c] = 0 THEN RingSize - 1 ELSE pos[c] - 1
    BY DEF RingInv, Turned
  <1>4. ASSUME NEW c \in Ring
        PROVE  /\ pos[c] \in Nat /\ pos[c] <= RingSize - 1
               /\ q[c] \in Nat /\ q[c] <= RingSize - 1 /\ q[c] \in 0 .. RingSize - 1
               /\ pos[c] = 0 => q[c] = RingSize - 1
               /\ pos[c] # 0 => q[c] = pos[c] - 1
    BY <1>1, <1>2, <1>3
  <1>5. q \in [Ring -> 0 .. RingSize - 1]
    BY <1>4 DEF Turned
  <1>6. ASSUME NEW c \in Ring, NEW d \in Ring, q[c] = q[d]
        PROVE  c = d
    <2>1. pos[c] = pos[d]
      BY <1>1, <1>4, <1>6
    <2> QED
      BY <2>1 DEF RingInv
  <1>7. ASSUME NEW c \in Ring
        PROVE  /\ NextB(c) \in Ring
               /\ q[NextB(c)] = IF q[c] = RingSize - 1 THEN 0 ELSE q[c] + 1
    <2>1. NextB(c) \in Ring /\ pos[NextB(c)] = IF pos[c] = RingSize - 1 THEN 0 ELSE pos[c] + 1
      BY DEF RingInv
    <2>2. PICK d : d = NextB(c)
      OBVIOUS
    <2>3. d \in Ring /\ pos[d] = IF pos[c] = RingSize - 1 THEN 0 ELSE pos[c] + 1
      BY <2>1, <2>2
    <2>4. q[d] = IF q[c] = RingSize - 1 THEN 0 ELSE q[c] + 1
      BY <2>3, <1>1, <1>2, <1>4
    <2> QED
      BY <2>2, <2>3, <2>4
  <1> QED
    BY <1>1, <1>2, <1>4, <1>5, <1>6, <1>7

LEMMA DequeueMoveFrontInv ==
  ASSUME Inv, Dequeue_MoveFront
  PROVE  Inv'
  <1>1. PICK pos \in [Ring -> 0 .. RingSize - 1] : PosInv(pos)
    BY DEF Inv
  <1>2. /\ MemInv /\ TypeInv /\ IndexInv /\ SlotInv /\ CallsTyped /\ RingInv(pos) /\ FrontBlockInv(pos)
        /\ TailBlockInv(pos) /\ EmptyInv(pos) /\ ProducerInv(pos) /\ ConsumerInv(pos)
    BY <1>1 DEF Inv, TypeInv, PosInv
  <1>3. P \in Threads /\ C \in Threads /\ P # C /\ "take" \in Labels
    BY Locs DEF Labels
  <1>4. PICK b, a, R, q : b = call[C].block /\ a = FB /\ R = RingSize /\ Turned(pos, q)
    BY DEF Turned
  <1>5. /\ pc[C] = "moveFront" /\ Leaving /\ sent' = sent
        /\ UNCHANGED <<allocated, largestBlockSize, size, slot, localFront, localTail>>
    BY DEF Dequeue_MoveFront, pVars, blockVars, cVars, Leaving
  <1>6. /\ b = NextB(a) /\ b \in Ring /\ pos[b] = 1 /\ pos[TB] > 0
        /\ FrontIx(a) = TailIx(a) /\ TailCopied(b) /\ FrontIx(b) # localTail[b]
        /\ a \in Ring /\ pos[a] = 0 /\ TB \in Ring
    BY <1>1, <1>2, <1>4, <1>5, LeavingReads DEF ConsumerInv, RingInv
  <1>7. /\ R \in Nat /\ R >= 1 /\ q \in [Ring -> 0 .. R - 1]
        /\ \A c \in Ring : /\ pos[c] \in Nat /\ pos[c] <= R - 1
                           /\ q[c] \in Nat /\ q[c] <= R - 1
                           /\ pos[c] = 0 => q[c] = R - 1
                           /\ pos[c] # 0 => q[c] = pos[c] - 1
        /\ \A c, d \in Ring : q[c] = q[d] => c = d
        /\ \A c \in Ring : /\ NextB(c) \in Ring
                           /\ q[NextB(c)] = IF q[c] = R - 1 THEN 0 ELSE q[c] + 1
    BY <1>2, <1>4, TurnedRing
  <1>8. /\ a \in Blocks /\ b \in Blocks /\ b \in Nat /\ TB \in Blocks /\ allocated \in Nat
        /\ \A c \in Ring : c \in Blocks
        /\ \A c \in Ring : pos[c] = 0 => c = a
    BY <1>2, <1>6, RingBlocks DEF RingInv
  <1>9. Stored(FrontBlock, b) /\ Released(C, FrontBlock) /\ MemInv' /\ seen' = seen
    <2>1. StoreReleased(C, FrontBlock, b)
      BY <1>4 DEF Dequeue_MoveFront
    <2> QED
      BY <2>1, <1>2, <1>3, <1>8, Locs, Owners, ReleasedStores DEF Stored
  <1>10. CallsTyped' /\ pc'[P] = pc[P] /\ call' = call /\ pc'[C] = "take"
    <2>1. GoOn(C, "take")
      BY DEF Dequeue_MoveFront
    <2> QED
      BY <2>1, <1>2, <1>3, GoOnMoves DEF Moves
  <1>11. /\ \A l \in Locations : l # FrontBlock => mem'[l] = mem[l] /\ Newest(l)' = Newest(l)
         /\ mem'[TailBlock] = mem[TailBlock]
         /\ \A c \in Blocks : /\ mem'[FrontOf(c)] = mem[FrontOf(c)] /\ mem'[NextOf(c)] = mem[NextOf(c)]
                              /\ mem'[TailOf(c)] = mem[TailOf(c)]
    BY <1>9, OthersKept, Locs
  <1>12. /\ FB' = b /\ TB' = TB
         /\ \A c \in Blocks : /\ FrontIx(c)' = FrontIx(c) /\ NextB(c)' = NextB(c)
                              /\ TailIx(c)' = TailIx(c)
    BY <1>9, <1>11, Locs DEF FB, TB, FrontIx, NextB, TailIx, Stored, Grown
  <1>13. RingSize' = R /\ Ring' = Ring /\ (Advancing' <=> Advancing) /\ (Filling' <=> Filling)
    BY <1>4, <1>5, <1>10 DEF RingSize, Ring, Advancing, Filling
  <1>14. TypeInv'
    <2>1. sent' \in Nat
      BY <1>2, <1>5 DEF TypeInv
    <2> QED
      BY <2>1, <1>2, <1>5, <1>9, <1>10, Locs, StoredTyped
  <1>15. \A c \in Blocks : TailCopied(c) => TailCopied(c)'
    BY <1>5, <1>11, <1>12 DEF TailCopied
  <1>16. IndexInv'
    <2>1. ASSUME NEW c \in 1 .. allocated
          PROVE  BlockInv(c)'
      <3>1. BlockInv(c) /\ c \in Blocks
        BY <1>2, RingBlocks DEF IndexInv
      <3> QED
        BY <3>1, <1>5, <1>11, <1>12 DEF BlockInv
    <2>2. TailCopied(b)'
      BY <1>6, <1>8, <1>15
    <2> QED
      BY <2>1, <2>2, <1>5, <1>12 DEF IndexInv
  <1>17. SlotInv'
    <2>1. ASSUME NEW c \in 1 .. allocated, NEW i \in 0 .. size[c] - 1
          PROVE  Occupied(c, i)' <=> Occupied(c, i)
      <3>1. c \in Blocks
        BY <1>2, RingBlocks
      <3> QED
        BY <3>1, <1>5, <1>10, <1>12 DEF Occupied
    <2> QED
      BY <2>1, <1>2, <1>5, SlotsSame
  <1>18. q[b] = 0 /\ q[TB] = pos[TB] - 1 /\ pos[TB] \in Nat /\ pos[TB] <= R - 1
    BY <1>6, <1>7
  <1>19. RingInv(q)'
    <2>1. \A c \in Ring : NextB(c)' = NextB(c)
      BY <1>8, <1>12
    <2> QED
      BY <2>1, <1>6, <1>7, <1>12, <1>13, <1>18 DEF RingInv
  <1>20. LastUsed(q)' = LastUsed(pos) - 1 /\ LastUsed(pos) \in Nat /\ LastUsed(pos) >= pos[TB]
         /\ (Advancing => pos[TB] + 1 < R)
    BY <1>2, <1>4, <1>12, <1>13, <1>18 DEF LastUsed, ProducerInv
  <1> DEFINE h == mem[FrontBlock]
             g == mem'[FrontBlock]
  <1>21. /\ Len(h) \in Nat /\ Len(h) >= 1 /\ Len(g) \in Nat /\ Len(g) >= 1 /\ g[Len(g)].val = b
         /\ h[Len(h)].val = a
    <2>1. Len(h) \in Nat /\ Len(h) >= 1 /\ h[Len(h)].val = a
      BY <1>2, <1>4, Locs, History DEF FB
    <2>2. Len(g) \in Nat /\ Len(g) >= 1
      BY <1>9, <2>1 DEF Stored, Grown
    <2>3. g[Len(g)].val = b
      BY <1>9 DEF Stored, Grown, Newest
    <2> QED
      BY <2>1, <2>2, <2>3
  <1>22. ASSUME NEW j \in 1 .. Len(g)
         PROVE  \/ j = Len(g)
                \/ j \in 1 .. Len(h) /\ g[j] = h[j] /\ Len(g) = Len(h) + 1
    <2>1. CASE Len(g) = Len(h) + 1 /\ \A i \in 1 .. Len(h) : g[i] = h[i]
      <3> HIDE DEF g, h
      <3>1. j = Len(g) \/ j \in 1 .. Len(h)
        BY <1>21, <2>1
      <3> QED
        BY <3>1, <2>1
    <2>2. CASE Len(g) = 1
      <3> HIDE DEF g
      <3> QED
        BY <2>2
    <2> QED
      BY <1>9, <2>1, <2>2 DEF Stored, Grown
  <1>23. FrontBlockInv(q)'
    <2> SUFFICES ASSUME NEW j \in 1 .. Len(g)
                 PROVE  LET d == Len(g) - j
                            s == g[j]
                        IN  /\ d > 0 => s.val \in Ring /\ q[s.val] = R - d
                            /\ R - d > LastUsed(pos) - 1
                            /\ \A c \in Ring : q[TB] < q[c] /\ q[c] < R - d =>
                                  Settled(mem[FrontOf(c)], s.at)
      BY <1>8, <1>11, <1>12, <1>13, <1>20 DEF FrontBlockInv
    <2>1. CASE j \in 1 .. Len(h) /\ g[j] = h[j] /\ Len(g) = Len(h) + 1
      <3>1. PICK s, d : s = h[j] /\ d = Len(h) - j
        OBVIOUS
      <3>2. /\ d > 0 => s.val \in Ring /\ pos[s.val] = R - d
            /\ R - d > LastUsed(pos)
            /\ \A c \in Ring : pos[TB] < pos[c] /\ pos[c] < R - d =>
                  Settled(mem[FrontOf(c)], s.at)
        BY <1>2, <1>4, <2>1, <3>1 DEF FrontBlockInv
      <3>3. d = 0 => s.val = a
        <4> HIDE DEF g, h
        <4> QED
          BY <1>21, <2>1, <3>1
      <3>4. d \in Nat /\ Len(g) - j = d + 1
        <4> HIDE DEF g, h
        <4> QED
          BY <1>21, <2>1, <3>1
      <3> HIDE DEF g, h
      <3>5. s.val \in Ring /\ q[s.val] = R - (d + 1)
        <4>1. CASE d = 0
          <5>1. s.val \in Ring /\ q[s.val] = R - 1
            BY <4>1, <3>3, <1>6, <1>7
          <5> QED
            BY <5>1, <4>1, <1>7
        <4>2. CASE d # 0
          <5>1. s.val \in Ring /\ pos[s.val] = R - d /\ R - d > LastUsed(pos)
            BY <3>2, <3>4, <4>2
          <5>2. pos[s.val] # 0
            BY <5>1, <3>4, <1>7, <1>20
          <5>3. q[s.val] = pos[s.val] - 1
            BY <5>1, <5>2, <1>7
          <5> QED
            BY <5>1, <5>3, <3>4, <1>7
        <4> QED
          BY <4>1, <4>2
      <3>6. R - (d + 1) > LastUsed(pos) - 1
        BY <3>2, <3>4, <1>7, <1>20
      <3>7. ASSUME NEW c \in Ring, q[TB] < q[c], q[c] < R - (d + 1)
            PROVE  Settled(mem[FrontOf(c)], s.at)
        <4>1. pos[TB] < pos[c] /\ pos[c] < R - d
          <5>1. /\ pos[c] \in Nat /\ pos[c] <= R - 1 /\ q[c] \in Nat
                /\ pos[c] = 0 => q[c] = R - 1
                /\ pos[c] # 0 => q[c] = pos[c] - 1
            BY <1>7
          <5>2. R \in Nat
            BY <1>7
          <5> QED
            BY <5>1, <5>2, <3>4, <3>7, <1>18
        <4> QED
          BY <4>1, <3>2
      <3> QED
        BY <3>1, <3>4, <3>5, <3>6, <3>7, <2>1
    <2>2. CASE j = Len(g)
      <3>1. PICK e : e = g[j].at
        OBVIOUS
      <3>2. ASSUME NEW c \in Ring
            PROVE  Settled(mem[FrontOf(c)], e)
        <4>1. /\ FrontOf(c) \in Locations /\ FrontOf(c) # FrontBlock /\ Owner(FrontOf(c)) = C
          BY <1>8, Locs, Owners
        <4> QED
          BY <4>1, <1>9, <2>2, <3>1 DEF Released
      <3> HIDE DEF g
      <3>3. Len(g) - j = 0 /\ R - (Len(g) - j) = R
        BY <1>21, <2>2, <1>7
      <3>4. R > LastUsed(pos) - 1
        BY <1>7, <1>18, <1>20 DEF LastUsed
      <3> QED
        BY <3>1, <3>2, <3>3, <3>4
    <2> QED
      BY <1>22, <2>1, <2>2
  <1>24. TailBlockInv(q)'
    <2> SUFFICES ASSUME NEW j \in 1 .. Len(mem[TailBlock])
                 PROVE  LET s == mem[TailBlock][j] IN
                        /\ s.val \in Ring /\ q[s.val] = q[TB] - (Len(mem[TailBlock]) - j)
                        /\ \A c \in Ring : q[c] < q[s.val] =>
                              Settled(mem[TailOf(c)], s.at) /\ Settled(mem[NextOf(c)], s.at)
                        /\ \A c \in Ring : 0 < q[c] /\ q[c] <= q[s.val] =>
                              Visible(mem[TailOf(c)], FrontIx(c), s.at)
      BY <1>8, <1>11, <1>12, <1>13 DEF TailBlockInv
    <2>1. PICK s, d : s = mem[TailBlock][j] /\ d = Len(mem[TailBlock]) - j
      OBVIOUS
    <2>2. /\ s.val \in Ring /\ pos[s.val] = pos[TB] - d
          /\ \A c \in Ring : pos[c] < pos[s.val] =>
                Settled(mem[TailOf(c)], s.at) /\ Settled(mem[NextOf(c)], s.at)
          /\ \A c \in Ring : 0 < pos[c] /\ pos[c] <= pos[s.val] =>
                Visible(mem[TailOf(c)], FrontIx(c), s.at)
      BY <1>2, <2>1 DEF TailBlockInv
    <2>3. s.val # a
      <3>1. mem[TailBlock][1].val # FB
        BY <1>2, <1>5 DEF ConsumerInv
      <3>2. 1 \in 1 .. Len(mem[TailBlock]) /\ j \in 1 .. Len(mem[TailBlock])
        BY <1>2, Locs, History
      <3> QED
        BY <3>1, <3>2, <1>2, <1>4, <2>1, LaterTail
    <2>4. Len(mem[TailBlock]) \in Nat
      BY <1>2, Locs, History
    <2>5. d \in Nat
      BY <2>1, <2>4
    <2>6. pos[s.val] # 0 /\ q[s.val] = pos[s.val] - 1 /\ pos[s.val] \in Nat /\ pos[s.val] <= R - 1
      BY <2>2, <2>3, <1>7, <1>8
    <2>7. q[s.val] = q[TB] - d
      BY <2>2, <2>5, <2>6, <1>18
    <2>8. ASSUME NEW c \in Ring, q[c] <= q[s.val]
          PROVE  pos[c] = q[c] + 1 /\ pos[c] <= pos[s.val] /\ (q[c] < q[s.val] => pos[c] < pos[s.val])
      <3>1. /\ pos[c] \in Nat /\ pos[c] <= R - 1 /\ q[c] \in Nat
            /\ pos[c] = 0 => q[c] = R - 1
            /\ pos[c] # 0 => q[c] = pos[c] - 1
        BY <1>7
      <3>2. R \in Nat
        BY <1>7
      <3> QED
        BY <3>1, <3>2, <2>6, <2>8
    <2>9. \A c \in Ring : q[c] < q[s.val] => q[c] <= q[s.val]
      BY <2>2, <1>7
    <2>10. \A c \in Ring : 0 < q[c] /\ pos[c] = q[c] + 1 => 0 < pos[c]
      BY <1>7
    <2> QED
      BY <2>1, <2>2, <2>7, <2>8, <2>9, <2>10
  <1>25. EmptyInv(q)'
    <2>1. ASSUME NEW c \in Ring
          PROVE  /\ q[c] > q[TB] /\ ~ (pc[P] = "publishBlock" /\ c = call[P].block) =>
                       FrontIx(c) = TailIx(c)
                 /\ 0 < q[c] /\ q[c] <= q[TB] => FrontIx(c) # TailIx(c)
      <3>1. CASE pos[c] = 0
        <4>1. c = a /\ ~ (q[c] <= q[TB])
          BY <3>1, <1>7, <1>8, <1>18
        <4> QED
          BY <4>1, <1>6
      <3>2. CASE pos[c] # 0
        <4>1. (q[c] > q[TB] => pos[c] > pos[TB]) /\ (0 < q[c] => 0 < pos[c])
              /\ (q[c] <= q[TB] => pos[c] <= pos[TB])
          BY <3>2, <1>7, <1>18
        <4> QED
          BY <4>1, <1>2 DEF EmptyInv
      <3> QED
        BY <3>1, <3>2
    <2>2. \A c \in Ring : FrontIx(c)' = FrontIx(c) /\ TailIx(c)' = TailIx(c)
      BY <1>8, <1>12
    <2>3. pc'[P] = pc[P] /\ call'[P].block = call[P].block
      BY <1>10
    <2> QED
      BY <2>1, <2>2, <2>3, <1>12, <1>13 DEF EmptyInv
  <1>26. ConsumerInv(q)'
    BY <1>4, <1>5, <1>6, <1>8, <1>10, <1>12 DEF ConsumerInv, Leaving
  <1>27. ProducerInv(q)'
    <2>1. pc[P] = "advance" => mem'[FrontBlock][1].at <= seen[P]
      <3> SUFFICES ASSUME pc[P] = "advance" PROVE g[1].at <= seen[P]
        OBVIOUS
      <3>1. h[1].at <= seen[P]
        BY <1>2 DEF ProducerInv
      <3>2. CASE Len(g) = Len(h) + 1 /\ \A i \in 1 .. Len(h) : g[i] = h[i]
        <4> HIDE DEF g, h
        <4>1. 1 \in 1 .. Len(h)
          BY <1>21
        <4> QED
          BY <3>1, <3>2, <4>1
      <3>3. CASE Len(g) = 1 /\ g[1].at = 0
        <4>1. seen[P] \in Nat
          BY <1>2, <1>3 DEF MemInv
        <4> HIDE DEF g
        <4> QED
          BY <4>1, <3>3
      <3> QED
        BY <1>9, <3>2, <3>3 DEF Stored, Grown
    <2>2. Advancing => q[TB] + 1 < R
      BY <1>7, <1>18, <1>20
    <2>3. pc[P] \in {"writeNext", "publishNext", "publishBlock", "link"} => call[P].block \in Blocks
      <3>1. NextB(TB) \in Blocks
        BY <1>6, <1>7, <1>8
      <3> QED
        BY <3>1, <1>2 DEF ProducerInv, Filling, TypeInv
    <2>4. pc[P] = "link" => NextB(allocated)' = NextB(allocated)
      BY <1>2, <1>5, <1>12 DEF TypeInv
    <2>5. NextB(TB)' = NextB(TB) /\ TailIx(TB)' = TailIx(TB)
      BY <1>8, <1>12
    <2>6. pc[P] \in {"writeNext", "publishNext", "publishBlock", "link"} =>
              /\ FrontIx(call[P].block)' = FrontIx(call[P].block)
              /\ TailIx(call[P].block)' = TailIx(call[P].block)
              /\ mem'[FrontOf(call[P].block)] = mem[FrontOf(call[P].block)]
      BY <2>3, <1>10, <1>11, <1>12
    <2> HIDE DEF g, h
    <2> QED
      BY <2>1, <2>2, <2>4, <2>5, <2>6, <1>2, <1>5, <1>9, <1>10, <1>12, <1>13 DEF ProducerInv
  <1>28. PosInv(q)' /\ q \in [Ring' -> 0 .. RingSize' - 1]
    BY <1>7, <1>13, <1>19, <1>23, <1>24, <1>25, <1>26, <1>27 DEF PosInv
  <1> QED
    BY <1>9, <1>14, <1>16, <1>17, <1>28 DEF Inv

LEMMA EnqueueAllocInv ==
  ASSUME Inv, Enqueue_Alloc
  PROVE  Inv'
  <1>1. PICK pos \in [Ring -> 0 .. RingSize - 1] : PosInv(pos)
    BY DEF Inv
  <1>2. /\ MemInv /\ TypeInv /\ IndexInv /\ SlotInv /\ CallsTyped /\ RingInv(pos) /\ FrontBlockInv(pos)
        /\ TailBlockInv(pos) /\ EmptyInv(pos) /\ ProducerInv(pos) /\ ConsumerInv(pos)
    BY <1>1 DEF Inv, TypeInv, PosInv
  <1>3. P \in Threads /\ C \in Threads /\ P # C /\ "link" \in Labels
    BY Locs DEF Labels
  <1>4. PICK b, n, e, a, x : /\ b = allocated + 1 /\ n = NewBlockSize /\ e = epoch[P]
                             /\ a = allocated /\ x = NextB(TB)
    OBVIOUS
  <1>5. /\ pc[P] = "alloc" /\ b \in Blocks /\ allocated' = b /\ largestBlockSize' = n
        /\ size' = [size EXCEPT ![b] = n]
        /\ slot' = [slot EXCEPT ![b] = [FreshSlots(n, e) EXCEPT ![0].val = sent + 1]]
        /\ localTail' = [localTail EXCEPT ![b] = 1]
        /\ mem' = [mem EXCEPT ![TailOf(b)] = Put(@, 1, e), ![NextOf(b)] = Put(@, x, e)]
        /\ GoOnWith(P, "link", b)
        /\ UNCHANGED <<epoch, acq, seen, localFront, sent>>
    BY <1>4 DEF Enqueue_Alloc, NextB, TB
  <1>6. /\ a \in Nat /\ a >= 1 /\ b \in Nat /\ b = a + 1 /\ b > allocated /\ Ring = 1 .. a
        /\ RingSize = a /\ sent \in Nat
        /\ \A c \in 1 .. a : c \in Blocks /\ c # b /\ size[c] \in Nat /\ size[c] >= 2
        /\ FB \in 1 .. a /\ TB \in 1 .. a /\ x \in 1 .. a /\ x \in Nat
    <2>1. a \in Nat /\ a >= 1 /\ \A c \in 1 .. a : c \in Blocks /\ size[c] \in Nat /\ size[c] >= 2
      <3>1. allocated \in Nat /\ allocated >= 1
        BY <1>2, RingBlocks DEF TypeInv, Blocks
      <3> QED
        BY <3>1, <1>2, <1>4, RingBlocks
    <2>2. Ring = 1 .. a /\ RingSize = a
      BY <1>4, <1>5 DEF Ring, RingSize
    <2>3. FB \in Ring /\ TB \in Ring /\ x \in Ring
      BY <1>2, <1>4 DEF RingInv
    <2>4. sent \in Nat
      BY <1>2 DEF TypeInv
    <2> QED
      BY <1>4, <2>1, <2>2, <2>3, <2>4
  <1>7. n \in Nat /\ n >= 2
    BY <1>2, <1>4, Sizes DEF NewBlockSize, TypeInv
  <1>8. CallsTyped' /\ pc'[P] = "link" /\ pc'[C] = pc[C] /\ call'[C] = call[C] /\ call'[P].block = b
    BY <1>2, <1>3, <1>5, GoOnWithMoves DEF Moves
  <1>9. /\ TailOf(b) \in Locations /\ NextOf(b) \in Locations /\ FrontOf(b) \in Locations
        /\ TailOf(b) # NextOf(b) /\ Owner(TailOf(b)) = P /\ Owner(NextOf(b)) = P
    BY <1>5, Locs, Owners
  <1>10. /\ MemInv' /\ seen' = seen
         /\ \A l \in Locations : l # TailOf(b) /\ l # NextOf(b) => mem'[l] = mem[l]
         /\ Grown(TailOf(b), 1) /\ Grown(NextOf(b), x)
    <2>1. PICK S, v : S = {TailOf(b), NextOf(b)} /\ v = [l \in S |-> IF l = TailOf(b) THEN 1 ELSE x]
      OBVIOUS
    <2>2. e \in Nat /\ e >= epoch[P] /\ epoch' \in [Threads -> Nat] /\ epoch'[P] >= e
          /\ \A u \in Threads : epoch'[u] >= epoch[u]
      BY <1>2, <1>3, <1>4, <1>5 DEF MemInv
    <2>3. mem' = [l \in Locations |-> IF l \in S THEN Put(mem[l], v[l], e) ELSE mem[l]]
      <3>1. mem = [l \in Locations |-> mem[l]]
        BY <1>2 DEF MemInv
      <3>2. v[TailOf(b)] = 1 /\ v[NextOf(b)] = x
        BY <2>1, <1>9
      <3> QED
        BY <3>1, <3>2, <2>1, <1>5, <1>9
    <2>4. PutAll(P, S, v, e)
      BY <2>1, <2>2, <2>3, <1>5, <1>6, <1>9 DEF PutAll
    <2>5. /\ MemInv' /\ seen' = seen
          /\ \A l \in Locations : l \notin S => mem'[l] = mem[l]
          /\ \A l \in S : Grown(l, v[l])
      BY <2>4, <1>2, <1>3, PutAllStores
    <2>6. TailOf(b) \in S /\ NextOf(b) \in S /\ v[TailOf(b)] = 1 /\ v[NextOf(b)] = x
      BY <2>1, <1>9
    <2>7. Grown(TailOf(b), v[TailOf(b)]) /\ Grown(NextOf(b), v[NextOf(b)])
      BY <2>5, <2>6
    <2> QED
      BY <2>1, <2>5, <2>6, <2>7
  <1>11. /\ mem'[FrontBlock] = mem[FrontBlock] /\ mem'[TailBlock] = mem[TailBlock]
         /\ \A c \in Blocks :
               /\ mem'[FrontOf(c)] = mem[FrontOf(c)]
               /\ c # b => mem'[NextOf(c)] = mem[NextOf(c)] /\ mem'[TailOf(c)] = mem[TailOf(c)]
    BY <1>10, Locs
  <1>12. /\ FB' = FB /\ TB' = TB /\ TailIx(b)' = 1 /\ NextB(b)' = x
         /\ \A c \in Blocks : /\ FrontIx(c)' = FrontIx(c)
                              /\ c # b => NextB(c)' = NextB(c) /\ TailIx(c)' = TailIx(c)
    <2>1. TailIx(b)' = 1 /\ NextB(b)' = x
      BY <1>10 DEF Grown, TailIx, NextB
    <2>2. \A l \in Locations : mem'[l] = mem[l] => Newest(l)' = Newest(l)
      BY DEF Newest
    <2> QED
      BY <2>1, <2>2, <1>11, Locs DEF FB, TB, FrontIx, NextB, TailIx
  <1>13. RingSize' = RingSize /\ Ring' = Ring /\ ~ Advancing /\ ~ Advancing' /\ ~ Filling'
    <2>1. RingSize' = a
      BY <1>5, <1>6, <1>8 DEF RingSize
    <2>2. RingSize' = RingSize /\ Ring' = Ring
      BY <2>1, <1>6 DEF Ring
    <2> QED
      BY <2>2, <1>5, <1>8 DEF Advancing, Filling
  <1>14. /\ size'[b] = n /\ localTail'[b] = 1 /\ localFront'[b] = 0
         /\ slot'[b] = [FreshSlots(n, e) EXCEPT ![0].val = sent + 1]
         /\ mem[FrontOf(b)] = <<[val |-> 0, at |-> 0]>> /\ mem[TailOf(b)] = <<[val |-> 0, at |-> 0]>>
         /\ \A c \in Blocks : c # b => size'[c] = size[c] /\ localTail'[c] = localTail[c] /\ slot'[c] = slot[c]
         /\ localFront' = localFront
         /\ size' \in [Blocks -> Nat] /\ localTail' \in [Blocks -> Nat] /\ DOMAIN slot' = Blocks
    <2>1. /\ size \in [Blocks -> Nat] /\ localTail \in [Blocks -> Nat] /\ DOMAIN slot = Blocks
          /\ mem[FrontOf(b)] = <<[val |-> 0, at |-> 0]>> /\ mem[TailOf(b)] = <<[val |-> 0, at |-> 0]>>
          /\ localFront[b] = 0
      BY <1>2, <1>5, <1>6 DEF TypeInv
    <2> QED
      BY <2>1, <1>5, <1>7
  <1>15. FrontIx(b)' = 0 /\ Len(mem'[FrontOf(b)]) = 1 /\ mem'[FrontOf(b)] = mem[FrontOf(b)]
    <2>1. Len(mem[FrontOf(b)]) = 1 /\ mem[FrontOf(b)][1].val = 0
      BY <1>14
    <2>2. mem'[FrontOf(b)] = mem[FrontOf(b)]
      BY <1>5, <1>11
    <2> QED
      BY <2>1, <2>2 DEF FrontIx, Newest
  <1>16. TypeInv'
    <2>1. \A c \in Blocks : c > b => c > a /\ c # b
      BY <1>6 DEF Blocks
    <2>2. \A c \in Blocks : c <= b => c \in 1 .. a \/ c = b
      BY <1>6 DEF Blocks
    <2>3. ASSUME NEW c \in Blocks
          PROVE  /\ c <= b => size'[c] >= 2
                 /\ c > b => /\ mem'[FrontOf(c)] = <<[val |-> 0, at |-> 0]>>
                             /\ mem'[TailOf(c)] = <<[val |-> 0, at |-> 0]>>
                             /\ localFront'[c] = 0
      <3>1. c <= b => size'[c] >= 2
        BY <2>2, <1>6, <1>7, <1>14
      <3>2. c > b => /\ mem'[FrontOf(c)] = <<[val |-> 0, at |-> 0]>>
                     /\ mem'[TailOf(c)] = <<[val |-> 0, at |-> 0]>>
                     /\ localFront'[c] = 0
        <4> SUFFICES ASSUME c > b PROVE <3>2!2
          OBVIOUS
        <4>1. c > a /\ c # b
          BY <2>1
        <4> QED
          BY <4>1, <1>2, <1>4, <1>11, <1>14 DEF TypeInv
      <3> QED
        BY <3>1, <3>2
    <2>4. localFront' \in [Blocks -> Nat] /\ sent' \in Nat
      BY <1>2, <1>5 DEF TypeInv
    <2> QED
      BY <2>3, <2>4, <1>5, <1>7, <1>8, <1>14 DEF TypeInv
  <1>17. BlockInv(b)'
    <2> DEFINE l == mem'[TailOf(b)]
               h == mem[FrontOf(b)]
    <2>1. \A i \in 1 .. Len(l) : l[i].val = 1 \/ (l[i].val = 0 /\ i = 1 /\ Len(l) = 2)
      <3>1. l[Len(l)].val = 1
        BY <1>10 DEF Grown, Newest
      <3>2. CASE Len(l) = 1
        <4> HIDE DEF l
        <4> QED
          BY <3>1, <3>2
      <3>3. CASE Len(l) = Len(mem[TailOf(b)]) + 1 /\ \A j \in 1 .. Len(mem[TailOf(b)]) : l[j] = mem[TailOf(b)][j]
        <4>1. Len(mem[TailOf(b)]) = 1 /\ mem[TailOf(b)][1].val = 0
          BY <1>14
        <4>2. Len(l) = 2 /\ l[1].val = 0
          BY <3>3, <4>1
        <4> HIDE DEF l
        <4> QED
          BY <3>1, <4>2
      <3> QED
        BY <3>2, <3>3, <1>10 DEF Grown
    <2>2. Len(h) = 1 /\ h[1].val = 0
      BY <1>14
    <2>3. Dist(0, 0, n) = 0 /\ Dist(0, 1, n) = 1
      BY <1>7 DEF Dist
    <2>4. 0 \in 0 .. n - 1 /\ 1 \in 0 .. n - 1 /\ 0 + 1 < n
      BY <1>7
    <2> HIDE DEF l, h
    <2>5. \A i \in 1 .. Len(h) : h[i].val = 0
      BY <2>2
    <2>6. /\ \A i \in 1 .. Len(l) : l[i].val \in 0 .. n - 1
          /\ \A i, j \in 1 .. Len(l) : i <= j => Dist(0, l[i].val, n) <= Dist(0, l[j].val, n)
      <3>1. \A i \in 1 .. Len(l) : l[i].val \in 0 .. n - 1
        BY <2>1, <2>4
      <3>2. ASSUME NEW i \in 1 .. Len(l), NEW j \in 1 .. Len(l), i <= j
            PROVE  Dist(0, l[i].val, n) <= Dist(0, l[j].val, n)
        <4>1. CASE l[j].val = 1
          <5>1. Dist(0, l[i].val, n) \in {0, 1}
            BY <2>1, <2>3
          <5> QED
            BY <4>1, <5>1, <2>3
        <4>2. CASE l[j].val = 0 /\ j = 1
          <5>1. i = 1
            BY <3>2, <4>2
          <5> QED
            BY <4>2, <5>1, <2>3
        <4> QED
          BY <4>1, <4>2, <2>1
      <3> QED
        BY <3>1, <3>2
    <2>7. \A i, j \in 1 .. Len(h) : Dist(0, h[i].val, n) <= Dist(0, h[j].val, n)
      BY <2>3, <2>5
    <2> QED
      BY <2>3, <2>4, <2>5, <2>6, <2>7, <1>12, <1>14, <1>15 DEF BlockInv, h, l
  <1>18. \A c \in 1 .. a : TailCopied(c)' <=> TailCopied(c)
    BY <1>6, <1>11, <1>12, <1>14 DEF TailCopied
  <1>19. IndexInv'
    <2>1. ASSUME NEW c \in 1 .. b
          PROVE  BlockInv(c)'
      <3>1. CASE c = b
        BY <3>1, <1>17
      <3>2. CASE c # b
        <4>1. c \in 1 .. a
          BY <3>2, <1>6
        <4>2. BlockInv(c) /\ c \in Blocks
          BY <4>1, <1>2, <1>4, <1>6 DEF IndexInv
        <4> QED
          BY <4>2, <3>2, <1>11, <1>12, <1>14 DEF BlockInv
      <3> QED
        BY <3>1, <3>2
    <2>2. TailCopied(FB)
      BY <1>2 DEF IndexInv
    <2>3. ASSUME NEW c \in 1 .. a, c = FB PROVE TailCopied(c)'
      BY <2>2, <2>3, <1>18
    <2> QED
      BY <2>1, <2>3, <1>5, <1>6, <1>12 DEF IndexInv
  <1>20. SlotInv'
    <2> SUFFICES ASSUME NEW c \in 1 .. b
                 PROVE  /\ DOMAIN slot'[c] = 0 .. size'[c] - 1
                        /\ \A i \in 0 .. size'[c] - 1 : /\ DOMAIN slot'[c][i] = {"val", "by", "at"}
                                                        /\ slot'[c][i].val # Empty <=> Occupied(c, i)'
      BY <1>5 DEF SlotInv
    <2>1. CASE c = b
      <3>1. /\ DOMAIN slot'[b] = 0 .. n - 1
            /\ \A i \in 0 .. n - 1 : /\ DOMAIN slot'[b][i] = {"val", "by", "at"}
                                     /\ slot'[b][i].val = IF i = 0 THEN sent + 1 ELSE Empty
        <4>1. PICK f : f = FreshSlots(n, e)
          OBVIOUS
        <4>2. /\ DOMAIN f = 0 .. n - 1
              /\ \A i \in 0 .. n - 1 : f[i] = [val |-> Empty, by |-> P, at |-> e]
          BY <4>1 DEF FreshSlots
        <4>3. slot'[b] = [f EXCEPT ![0] = [f[0] EXCEPT !.val = sent + 1]]
          BY <4>1, <1>14
        <4>4. 0 \in 0 .. n - 1
          BY <1>7
        <4>5. DOMAIN slot'[b] = 0 .. n - 1
          BY <4>2, <4>3
        <4>6. ASSUME NEW i \in 0 .. n - 1
              PROVE  /\ DOMAIN slot'[b][i] = {"val", "by", "at"}
                     /\ slot'[b][i].val = IF i = 0 THEN sent + 1 ELSE Empty
          <5>1. CASE i = 0
            <6>1. slot'[b][i] = [f[0] EXCEPT !.val = sent + 1] /\ f[0] = [val |-> Empty, by |-> P, at |-> e]
              BY <4>2, <4>3, <4>4, <5>1
            <6> QED
              BY <6>1, <5>1
          <5>2. CASE i # 0
            <6>1. slot'[b][i] = [val |-> Empty, by |-> P, at |-> e]
              BY <4>2, <4>3, <5>2
            <6> QED
              BY <6>1, <5>2
          <5> QED
            BY <5>1, <5>2
        <4> QED
          BY <4>5, <4>6
      <3>2. ASSUME NEW i \in 0 .. n - 1
            PROVE  Occupied(b, i)' <=> i = 0
        <4>1. Dist(0, i, n) = i /\ Dist(0, 1, n) = 1
          BY <1>7 DEF Dist
        <4>2. b # FB'
          BY <1>6, <1>12
        <4>3. Occupied(b, i)' <=> Dist(0, i, n) < Dist(0, 1, n)
          BY <4>2, <1>8, <1>12, <1>14, <1>15 DEF Occupied
        <4> QED
          BY <4>1, <4>3
      <3>3. sent + 1 # Empty
        BY <1>6 DEF Empty
      <3> QED
        BY <2>1, <3>1, <3>2, <3>3, <1>14
    <2>2. CASE c # b
      <3>1. c \in 1 .. a /\ c \in 1 .. allocated
        BY <2>2, <1>4, <1>6
      <3>2. c \in Blocks /\ slot'[c] = slot[c] /\ size'[c] = size[c]
        BY <2>2, <3>1, <1>6, <1>14
      <3>3. \A i : Occupied(c, i)' <=> Occupied(c, i)
        BY <2>2, <3>2, <1>5, <1>8, <1>12 DEF Occupied
      <3> QED
        BY <3>1, <3>2, <3>3, <1>2 DEF SlotInv
    <2> QED
      BY <2>1, <2>2
  <1>21. \A c \in Ring : /\ c \in Blocks /\ c # b /\ NextB(c)' = NextB(c)
                         /\ FrontIx(c)' = FrontIx(c) /\ TailIx(c)' = TailIx(c)
                         /\ mem'[FrontOf(c)] = mem[FrontOf(c)] /\ mem'[TailOf(c)] = mem[TailOf(c)]
                         /\ mem'[NextOf(c)] = mem[NextOf(c)]
                         /\ size'[c] = size[c] /\ localTail'[c] = localTail[c]
    BY <1>6, <1>11, <1>12, <1>14
  <1>22. RingInv(pos)'
    BY <1>2, <1>12, <1>13, <1>21 DEF RingInv
  <1>23. FrontBlockInv(pos)'
    <2>1. LastUsed(pos)' = LastUsed(pos)
      BY <1>12, <1>13 DEF LastUsed
    <2> QED
      BY <2>1, <1>2, <1>11, <1>12, <1>13, <1>21 DEF FrontBlockInv
  <1>24. TailBlockInv(pos)'
    BY <1>2, <1>11, <1>12, <1>13, <1>21 DEF TailBlockInv
  <1>25. EmptyInv(pos)'
    <2>1. pc[P] # "publishBlock"
      BY <1>5
    <2> QED
      BY <2>1, <1>2, <1>12, <1>13, <1>21 DEF EmptyInv
  <1>26. ConsumerInv(pos)'
    <2>1. pc[C] = "moveFront" => TailCopied(call[C].block)' /\ call[C].block \in Ring
      <3> SUFFICES ASSUME pc[C] = "moveFront" PROVE TailCopied(call[C].block)' /\ call[C].block \in Ring
        OBVIOUS
      <3>1. TailCopied(call[C].block) /\ call[C].block = NextB(FB) /\ NextB(FB) \in Ring
        BY <1>2 DEF ConsumerInv, RingInv
      <3>2. ASSUME NEW c \in 1 .. a, c = call[C].block PROVE TailCopied(c)'
        BY <3>1, <3>2, <1>18
      <3> QED
        BY <3>1, <3>2, <1>6, <1>8
    <2>2. FB \in Ring
      BY <1>6
    <2> QED
      BY <2>1, <2>2, <1>2, <1>8, <1>10, <1>11, <1>12, <1>13, <1>21 DEF ConsumerInv, Leaving
  <1>27. ProducerInv(pos)'
    <2>1. NextB(TB)' = x
      BY <1>4, <1>6, <1>12
    <2> QED
      BY <2>1, <1>5, <1>6, <1>8, <1>12, <1>13, <1>15 DEF ProducerInv
  <1>28. PosInv(pos)' /\ pos \in [Ring' -> 0 .. RingSize' - 1]
    BY <1>1, <1>13, <1>22, <1>23, <1>24, <1>25, <1>26, <1>27 DEF PosInv
  <1> QED
    BY <1>10, <1>16, <1>19, <1>20, <1>28 DEF Inv

\* The places of the blocks with block b after tailBlock.
Inserted(pos, b, q) ==
  q = [c \in 1 .. b |-> IF c = b THEN pos[TB] + 1
                        ELSE IF pos[c] <= pos[TB] THEN pos[c] ELSE pos[c] + 1]

LEMMA LinkStep ==
  ASSUME Inv, Enqueue_Link, NEW pos, PosInv(pos), NEW q, Inserted(pos, allocated, q)
  PROVE  Inv' /\ RingInv(q)'
  <1>2. /\ MemInv /\ TypeInv /\ IndexInv /\ SlotInv /\ CallsTyped /\ RingInv(pos) /\ FrontBlockInv(pos)
        /\ TailBlockInv(pos) /\ EmptyInv(pos) /\ ProducerInv(pos) /\ ConsumerInv(pos)
    BY DEF Inv, TypeInv, PosInv
  <1>3. P \in Threads /\ C \in Threads /\ P # C /\ "publishBlock" \in Labels
    BY Locs DEF Labels
  <1>4. PICK b, r, p, T : b = allocated /\ r = RingSize /\ p = pos[TB] /\ T = TB /\ Inserted(pos, b, q)
    OBVIOUS
  <1>5. /\ pc[P] = "link" /\ sent' = sent /\ ~ Advancing
        /\ UNCHANGED <<allocated, largestBlockSize, size, slot, localFront, localTail>>
    BY DEF Enqueue_Link, pVars, blockVars, cVars, Advancing
  <1>6. /\ call[P].block = b /\ NextB(b) = NextB(T) /\ b > 1
        /\ FrontIx(b) # TailIx(b) /\ Len(mem[FrontOf(b)]) = 1
    BY <1>2, <1>4, <1>5 DEF ProducerInv
  <1>7. /\ b \in Nat /\ b \in Blocks /\ r \in Nat /\ r = b - 1 /\ r >= 1 /\ Ring = 1 .. r
        /\ \A c \in 1 .. b : c \in Blocks
        /\ \A c \in Ring : c \in 1 .. b /\ c \in Blocks /\ c # b
    <2>1. b \in Nat /\ b \in Blocks /\ \A c \in 1 .. b : c \in Blocks
      BY <1>2, <1>4, RingBlocks DEF TypeInv
    <2>2. r = b - 1 /\ Ring = 1 .. r
      BY <1>4, <1>5 DEF Ring, RingSize
    <2> QED
      BY <2>1, <2>2, <1>6
  <1>8. /\ FB \in Ring /\ T \in Ring /\ T # b /\ FB # b
        /\ \A c \in Ring : pos[c] \in Nat /\ pos[c] <= r - 1
        /\ p \in Nat /\ p <= r - 1 /\ pos[T] = p /\ pos[FB] = 0
        /\ \A c, d \in Ring : pos[c] = pos[d] => c = d
        /\ \A c \in Ring : /\ NextB(c) \in Ring
                           /\ pos[NextB(c)] = IF pos[c] = r - 1 THEN 0 ELSE pos[c] + 1
    <2>1. FB \in Ring /\ T \in Ring /\ pos[FB] = 0 /\ \A c, d \in Ring : pos[c] = pos[d] => c = d
      BY <1>2, <1>4 DEF RingInv
    <2>2. \A c \in Ring : /\ NextB(c) \in Ring
                          /\ pos[NextB(c)] = IF pos[c] = r - 1 THEN 0 ELSE pos[c] + 1
      BY <1>2, <1>4 DEF RingInv
    <2>3. \A c \in Ring : pos[c] \in 0 .. r - 1
      BY <1>2, <1>4 DEF RingInv
    <2>4. \A c \in Ring : pos[c] \in Nat /\ pos[c] <= r - 1
      BY <2>3, <1>7
    <2> QED
      BY <2>1, <2>2, <2>4, <1>4, <1>7
  <1>a. p \in Nat /\ p <= r - 1 /\ r \in Nat /\ r = b - 1 /\ r >= 1 /\ b \in Nat
    BY <1>7, <1>8
  <1>9. CallsTyped' /\ pc'[C] = pc[C] /\ call' = call /\ pc'[P] = "publishBlock"
    <2>1. GoOn(P, "publishBlock")
      BY DEF Enqueue_Link
    <2> QED
      BY <2>1, <1>2, <1>3, GoOnMoves DEF Moves
  <1>10. Stored(NextOf(T), b) /\ MemInv' /\ seen' = seen
    <2>1. Store(P, NextOf(T), b)
      BY <1>4, <1>6 DEF Enqueue_Link, TB
    <2>2. NextOf(T) \in Locations /\ Owner(NextOf(T)) = P
      BY <1>7, <1>8, Locs, Owners
    <2> QED
      BY <2>1, <2>2, <1>2, <1>3, <1>7, StoreStores DEF Stored
  <1>11. /\ mem'[FrontBlock] = mem[FrontBlock] /\ mem'[TailBlock] = mem[TailBlock]
         /\ \A c \in Blocks : /\ mem'[FrontOf(c)] = mem[FrontOf(c)] /\ mem'[TailOf(c)] = mem[TailOf(c)]
                              /\ c # T => mem'[NextOf(c)] = mem[NextOf(c)]
    BY <1>10, OthersKept, Locs
  <1>12. /\ FB' = FB /\ TB' = T /\ NextB(T)' = b
         /\ \A c \in Blocks : /\ FrontIx(c)' = FrontIx(c) /\ TailIx(c)' = TailIx(c)
                              /\ c # T => NextB(c)' = NextB(c)
    <2>1. \A l \in Locations : mem'[l] = mem[l] => Newest(l)' = Newest(l)
      BY DEF Newest
    <2>2. NextB(T)' = b
      BY <1>10 DEF Stored, Grown, NextB
    <2> QED
      BY <2>1, <2>2, <1>4, <1>11, Locs DEF FB, TB, FrontIx, NextB, TailIx
  <1>13. RingSize' = b /\ Ring' = 1 .. b /\ Advancing' /\ Filling'
    BY <1>4, <1>5, <1>9 DEF RingSize, Ring, Advancing, Filling
  <1>14. TypeInv'
    <2>1. sent' \in Nat
      BY <1>2, <1>5 DEF TypeInv
    <2> QED
      BY <2>1, <1>2, <1>5, <1>9, <1>10, Locs, StoredTyped
  <1>15. \A c \in Blocks : TailCopied(c) => TailCopied(c)'
    BY <1>5, <1>11, <1>12 DEF TailCopied
  <1>16. IndexInv'
    <2>1. ASSUME NEW c \in 1 .. allocated
          PROVE  BlockInv(c)'
      <3>1. BlockInv(c) /\ c \in Blocks
        BY <1>2, RingBlocks DEF IndexInv
      <3> QED
        BY <3>1, <1>5, <1>11, <1>12 DEF BlockInv
    <2>2. TailCopied(FB)
      BY <1>2 DEF IndexInv
    <2>3. ASSUME NEW c \in Blocks, c = FB PROVE TailCopied(c)'
      BY <2>2, <2>3, <1>15
    <2> QED
      BY <2>1, <2>3, <1>5, <1>7, <1>8, <1>12 DEF IndexInv
  <1>17. SlotInv'
    <2>1. ASSUME NEW c \in 1 .. allocated, NEW i \in 0 .. size[c] - 1
          PROVE  Occupied(c, i)' <=> Occupied(c, i)
      <3>1. c \in Blocks
        BY <1>2, RingBlocks
      <3> QED
        BY <3>1, <1>5, <1>9, <1>12 DEF Occupied
    <2> QED
      BY <2>1, <1>2, <1>5, SlotsSame
  <1>18. /\ q[b] = p + 1
         /\ \A c \in Ring : q[c] = IF pos[c] <= p THEN pos[c] ELSE pos[c] + 1
         /\ DOMAIN q = 1 .. b /\ q = [c \in 1 .. b |-> q[c]]
    <2>1. b \in 1 .. b
      BY <1>7
    <2> QED
      BY <2>1, <1>4, <1>7, <1>8 DEF Inserted
  <1>19. \A c \in 1 .. b : c = b \/ c \in Ring
    BY <1>7
  <1>20. ASSUME NEW c \in Ring
         PROVE  /\ q[c] \in Nat /\ q[c] <= r /\ q[c] # p + 1
                /\ pos[c] <= p <=> q[c] <= p
                /\ q[c] <= p => q[c] = pos[c]
                /\ q[c] > p => q[c] = pos[c] + 1 /\ pos[c] > p
    <2>1. q[c] = IF pos[c] <= p THEN pos[c] ELSE pos[c] + 1
      BY <1>18
    <2>2. pos[c] \in Nat /\ pos[c] <= r - 1
      BY <1>8
    <2> QED
      BY <2>1, <2>2, <1>a
  <1>21. q \in [1 .. b -> 0 .. b - 1]
    <2>1. \A c \in 1 .. b : q[c] \in 0 .. b - 1
      <3>1. p + 1 \in 0 .. b - 1
        BY <1>a
      <3>2. ASSUME NEW c \in Ring PROVE q[c] \in 0 .. b - 1
        <4>1. q[c] \in Nat /\ q[c] <= r
          BY <1>20
        <4> QED
          BY <4>1, <1>a
      <3> QED
        BY <3>1, <3>2, <1>18, <1>19
    <2> QED
      BY <2>1, <1>18
  <1>22. RingInv(q)'
    <2>1. ASSUME NEW c \in 1 .. b, NEW d \in 1 .. b, q[c] = q[d] PROVE c = d
      <3>1. CASE c \in Ring /\ d \in Ring
        <4>1. pos[c] \in Nat /\ pos[d] \in Nat
          BY <3>1, <1>8
        <4>2. pos[c] = pos[d]
          BY <2>1, <3>1, <4>1, <1>8, <1>20
        <4> QED
          BY <3>1, <4>2, <1>8
      <3>2. CASE c = b \/ d = b
        BY <2>1, <3>2, <1>18, <1>19, <1>20
      <3> QED
        BY <3>1, <3>2, <1>19
    <2>2. ASSUME NEW c \in 1 .. b
          PROVE  /\ NextB(c)' \in 1 .. b
                 /\ q[NextB(c)'] = IF q[c] = b - 1 THEN 0 ELSE q[c] + 1
      <3>1. CASE c = T
        <4>1. NextB(c)' = b /\ q[b] = p + 1 /\ q[c] = p
          BY <3>1, <1>8, <1>12, <1>18, <1>20
        <4> QED
          BY <4>1, <1>7, <1>8
      <3>2. CASE c = b
        <4>1. PICK d : d = NextB(T)
          OBVIOUS
        <4>2. NextB(c)' = d
          BY <3>2, <4>1, <1>6, <1>7, <1>8, <1>12
        <4>3. d \in Ring /\ pos[d] = IF p = r - 1 THEN 0 ELSE p + 1
          BY <4>1, <1>8
        <4>4. q[d] = IF pos[d] <= p THEN pos[d] ELSE pos[d] + 1
          BY <4>3, <1>18
        <4>5. q[d] = IF p + 1 = b - 1 THEN 0 ELSE p + 2
          BY <4>3, <4>4, <1>7, <1>8
        <4>6. d \in 1 .. b /\ q[c] = p + 1
          BY <4>3, <3>2, <1>7, <1>18
        <4> QED
          BY <4>2, <4>5, <4>6, <1>8
      <3>3. CASE c \in Ring /\ c # T
        <4>1. PICK d : d = NextB(c)
          OBVIOUS
        <4>2. NextB(c)' = d
          BY <3>3, <4>1, <1>7, <1>12
        <4>3. d \in Ring /\ pos[d] = IF pos[c] = r - 1 THEN 0 ELSE pos[c] + 1
          BY <3>3, <4>1, <1>8
        <4>4. /\ q[d] = IF pos[d] <= p THEN pos[d] ELSE pos[d] + 1
              /\ q[c] = IF pos[c] <= p THEN pos[c] ELSE pos[c] + 1
          BY <4>3, <3>3, <1>18
        <4>5. pos[c] # p /\ pos[c] \in Nat /\ pos[c] <= r - 1
          BY <3>3, <1>8
        <4>6. q[d] = IF q[c] = b - 1 THEN 0 ELSE q[c] + 1
          BY <4>3, <4>4, <4>5, <1>a
        <4>7. d \in 1 .. b
          BY <4>3, <1>7
        <4> QED
          BY <4>2, <4>6, <4>7
      <3> QED
        BY <3>1, <3>2, <3>3, <1>19
    <2>3. q[FB] = 0 /\ FB \in 1 .. b /\ T \in 1 .. b
      <3>1. q[FB] = IF pos[FB] <= p THEN pos[FB] ELSE pos[FB] + 1
        BY <1>8, <1>18
      <3>2. pos[FB] = 0 /\ FB \in 1 .. b /\ T \in 1 .. b
        BY <1>7, <1>8
      <3> QED
        BY <3>1, <3>2, <1>a
    <2> QED
      BY <2>1, <2>2, <2>3, <1>12, <1>13, <1>21 DEF RingInv
  <1>23. q[T] = p
    <2>1. q[T] = IF pos[T] <= p THEN pos[T] ELSE pos[T] + 1
      BY <1>8, <1>18
    <2>2. pos[T] = p
      BY <1>8
    <2> QED
      BY <2>1, <2>2, <1>a
  <1>24. FrontBlockInv(q)'
    <2>1. LastUsed(pos) = p /\ LastUsed(q)' = p + 1
      BY <1>4, <1>5, <1>12, <1>13, <1>23 DEF LastUsed
    <2> SUFFICES ASSUME NEW j \in 1 .. Len(mem[FrontBlock])
                 PROVE  LET d == Len(mem[FrontBlock]) - j
                            s == mem[FrontBlock][j]
                        IN  /\ d > 0 => s.val \in 1 .. b /\ q[s.val] = b - d
                            /\ b - d > p + 1
                            /\ \A c \in 1 .. b : p < q[c] /\ q[c] < b - d =>
                                  Settled(mem[FrontOf(c)], s.at)
      BY <2>1, <1>7, <1>11, <1>12, <1>13, <1>23 DEF FrontBlockInv
    <2>2. PICK s, d : s = mem[FrontBlock][j] /\ d = Len(mem[FrontBlock]) - j
      OBVIOUS
    <2>3. /\ d > 0 => s.val \in Ring /\ pos[s.val] = r - d
          /\ r - d > p
          /\ \A c \in Ring : p < pos[c] /\ pos[c] < r - d => Settled(mem[FrontOf(c)], s.at)
      BY <2>1, <2>2, <1>2, <1>4 DEF FrontBlockInv
    <2>4. Len(mem[FrontBlock]) \in Nat
      BY <1>2, Locs, History
    <2>5. d \in Nat
      BY <2>2, <2>4
    <2>6. b - d > p + 1
      BY <2>3, <2>5, <1>7, <1>8
    <2>7. d > 0 => s.val \in 1 .. b /\ q[s.val] = b - d
      <3> SUFFICES ASSUME d > 0 PROVE s.val \in 1 .. b /\ q[s.val] = b - d
        OBVIOUS
      <3>1. s.val \in Ring /\ pos[s.val] = r - d
        BY <2>3
      <3>2. q[s.val] = IF pos[s.val] <= p THEN pos[s.val] ELSE pos[s.val] + 1
        BY <3>1, <1>18
      <3>3. q[s.val] = b - d
        BY <3>1, <3>2, <2>3, <2>5, <1>7, <1>8
      <3> QED
        BY <3>1, <3>3, <1>7
    <2>8. ASSUME NEW c \in 1 .. b, p < q[c], q[c] < b - d
          PROVE  Settled(mem[FrontOf(c)], s.at)
      <3>1. CASE c = b
        BY <3>1, <1>6 DEF Settled
      <3>2. CASE c \in Ring
        <4>1. q[c] \in Nat /\ (q[c] > p => q[c] = pos[c] + 1 /\ pos[c] > p) /\ pos[c] \in Nat
          BY <3>2, <1>8, <1>20
        <4>2. p < pos[c] /\ pos[c] < r - d
          BY <4>1, <2>5, <2>8, <1>a
        <4> QED
          BY <3>2, <4>2, <2>3
      <3> QED
        BY <3>1, <3>2, <1>19
    <2> QED
      BY <2>2, <2>6, <2>7, <2>8
  <1>25. TailBlockInv(q)'
    <2> SUFFICES ASSUME NEW j \in 1 .. Len(mem[TailBlock])
                 PROVE  LET s == mem[TailBlock][j] IN
                        /\ s.val \in 1 .. b /\ q[s.val] = p - (Len(mem[TailBlock]) - j)
                        /\ \A c \in 1 .. b : q[c] < q[s.val] =>
                              Settled(mem[TailOf(c)], s.at) /\ Settled(mem'[NextOf(c)], s.at)
                        /\ \A c \in 1 .. b : 0 < q[c] /\ q[c] <= q[s.val] =>
                              Visible(mem[TailOf(c)], FrontIx(c), s.at)
      BY <1>7, <1>11, <1>12, <1>13, <1>23 DEF TailBlockInv
    <2>1. PICK s, d : s = mem[TailBlock][j] /\ d = Len(mem[TailBlock]) - j
      OBVIOUS
    <2>2. /\ s.val \in Ring /\ pos[s.val] = p - d
          /\ \A c \in Ring : pos[c] < pos[s.val] =>
                Settled(mem[TailOf(c)], s.at) /\ Settled(mem[NextOf(c)], s.at)
          /\ \A c \in Ring : 0 < pos[c] /\ pos[c] <= pos[s.val] =>
                Visible(mem[TailOf(c)], FrontIx(c), s.at)
      BY <1>2, <1>4, <2>1 DEF TailBlockInv
    <2>3. Len(mem[TailBlock]) \in Nat
      BY <1>2, Locs, History
    <2>4. d \in Nat
      BY <2>1, <2>3
    <2>5. q[s.val] = p - d /\ q[s.val] = pos[s.val] /\ q[s.val] <= p /\ q[s.val] \in Nat
      <3>1. pos[s.val] \in Nat /\ q[s.val] = IF pos[s.val] <= p THEN pos[s.val] ELSE pos[s.val] + 1
        BY <2>2, <1>8, <1>18
      <3> QED
        BY <2>2, <2>4, <3>1, <1>8
    <2>6. ASSUME NEW c \in 1 .. b, q[c] <= q[s.val]
          PROVE  c \in Ring /\ pos[c] = q[c]
      <3>1. c # b
        BY <2>5, <2>6, <1>8, <1>18
      <3>2. c \in Ring
        BY <3>1, <1>19
      <3>3. q[c] \in Nat /\ (q[c] <= p => q[c] = pos[c])
        BY <3>2, <1>20
      <3> QED
        BY <3>2, <3>3, <2>5, <2>6, <1>8
    <2>7. ASSUME NEW c \in 1 .. b, q[c] < q[s.val]
          PROVE  Settled(mem[TailOf(c)], s.at) /\ Settled(mem'[NextOf(c)], s.at)
      <3>0. q[c] \in 0 .. b - 1
        BY <1>21
      <3>1. q[c] <= q[s.val]
        BY <3>0, <2>5, <2>7
      <3>2. c \in Ring /\ pos[c] = q[c]
        BY <3>1, <2>6
      <3>3. pos[c] < pos[s.val] /\ c # T
        BY <3>0, <3>2, <2>5, <2>7, <1>8
      <3> QED
        BY <3>2, <3>3, <2>2, <1>7, <1>11
    <2>8. ASSUME NEW c \in 1 .. b, 0 < q[c], q[c] <= q[s.val]
          PROVE  Visible(mem[TailOf(c)], FrontIx(c), s.at)
      <3>1. c \in Ring /\ pos[c] = q[c]
        BY <2>6, <2>8
      <3> QED
        BY <3>1, <2>2, <2>5, <2>8
    <2> QED
      BY <2>1, <2>2, <2>5, <2>7, <2>8, <1>7
  <1>26. EmptyInv(q)'
    <2>1. ASSUME NEW c \in 1 .. b
          PROVE  /\ q[c] > p /\ c # b => FrontIx(c) = TailIx(c)
                 /\ 0 < q[c] /\ q[c] <= p => FrontIx(c) # TailIx(c)
      <3>1. CASE c = b
        BY <3>1, <1>8, <1>18
      <3>2. CASE c \in Ring
        <4>1. /\ pos[c] > p => FrontIx(c) = TailIx(c)
              /\ 0 < pos[c] /\ pos[c] <= p => FrontIx(c) # TailIx(c)
          BY <3>2, <1>2, <1>4, <1>5 DEF EmptyInv
        <4>2. (q[c] > p => pos[c] > p) /\ (q[c] <= p => q[c] = pos[c])
          BY <3>2, <1>20
        <4> QED
          BY <4>1, <4>2
      <3> QED
        BY <3>1, <3>2, <1>19
    <2>2. \A c \in 1 .. b : FrontIx(c)' = FrontIx(c) /\ TailIx(c)' = TailIx(c)
      BY <1>7, <1>12
    <2>3. pc'[P] = "publishBlock" /\ call'[P].block = b
      BY <1>6, <1>9
    <2> QED
      BY <2>1, <2>2, <2>3, <1>12, <1>13, <1>23 DEF EmptyInv
  <1>27. ConsumerInv(q)'
    <2>1. Leaving => NextB(FB)' = NextB(FB)
      <3> SUFFICES ASSUME Leaving PROVE FB # T
        BY <1>7, <1>8, <1>12
      <3>1. pos[TB] > 0
        BY <1>2, LeavingReads
      <3> QED
        BY <3>1, <1>4, <1>8
    <2>2. pc[C] = "moveFront" => TailCopied(call[C].block)' /\ call[C].block \in Blocks
      <3> SUFFICES ASSUME pc[C] = "moveFront" PROVE TailCopied(call[C].block)' /\ call[C].block \in Blocks
        OBVIOUS
      <3>1. TailCopied(call[C].block) /\ call[C].block = NextB(FB) /\ NextB(FB) \in Ring
        BY <1>2, <1>8 DEF ConsumerInv
      <3>2. ASSUME NEW c \in Blocks, c = call[C].block PROVE TailCopied(c)'
        BY <3>1, <3>2, <1>15
      <3> QED
        BY <3>1, <3>2, <1>7, <1>9
    <2>3. call[C].block \in Ring /\ pos[call[C].block] = 1 /\ p > 0 => q[call[C].block] = 1
      <3> SUFFICES ASSUME NEW c \in Ring, pos[c] = 1, p > 0 PROVE q[c] = 1
        OBVIOUS
      <3>1. q[c] = IF pos[c] <= p THEN pos[c] ELSE pos[c] + 1
        BY <1>18
      <3> QED
        BY <3>1, <1>a
    <2>4. p = pos[TB] /\ q[T] = p /\ FB \in Blocks
      BY <1>4, <1>7, <1>8, <1>23
    <2>5. FrontIx(FB)' = FrontIx(FB) /\ TailIx(FB)' = TailIx(FB)
      BY <2>4, <1>12
    <2>6. pc'[C] \in {"take", "release"} =>
              \/ call'[C].block = FB' /\ FrontIx(FB)' # localTail'[FB']
              \/ /\ pc'[C] = "take" /\ call'[C].op = "peek"
                 /\ call'[C].block \in 1 .. b /\ q[call'[C].block] = 1 /\ q[T] > 0
      BY <2>3, <2>4, <2>5, <1>2, <1>5, <1>7, <1>9, <1>12 DEF ConsumerInv
    <2>7. Leaving' => mem'[TailBlock][1].val # FB' /\ mem'[TailBlock][1].at <= seen'[C]
      BY <1>2, <1>9, <1>10, <1>11, <1>12 DEF ConsumerInv, Leaving
    <2>8. /\ pc'[C] \in {"checkTail", "recheck"} => call'[C].block = FB'
          /\ pc'[C] \in {"readNext", "checkNext", "moveFront"} => FrontIx(FB)' = TailIx(FB)'
          /\ pc'[C] \in {"checkNext", "moveFront"} => call'[C].block = NextB(FB)'
          /\ pc'[C] \in {"count", "follow"} => call'[C].block \in 1 .. b
      BY <2>1, <2>5, <1>2, <1>7, <1>9, <1>12 DEF ConsumerInv, Leaving
    <2>9. pc'[C] = "moveFront" => /\ call'[C].op # "peek"
                                  /\ TailCopied(call[C].block)'
                                  /\ FrontIx(call[C].block)' # localTail'[call'[C].block]
      BY <2>2, <1>2, <1>5, <1>9, <1>12 DEF ConsumerInv
    <2> QED
      BY <2>6, <2>7, <2>8, <2>9, <1>12, <1>13 DEF ConsumerInv
  <1>28. ProducerInv(q)'
    <2>1. q[T] + 1 < b
      BY <1>7, <1>8, <1>23
    <2>2. FrontIx(b)' # TailIx(b)'
      BY <1>6, <1>7, <1>12
    <2>3. call'[P].block = b /\ NextB(TB)' = b /\ pc'[P] = "publishBlock"
      BY <1>6, <1>9, <1>12
    <2> QED
      BY <2>1, <2>2, <2>3, <1>12, <1>13 DEF ProducerInv
  <1>29. PosInv(q)' /\ q \in [Ring' -> 0 .. RingSize' - 1]
    BY <1>13, <1>21, <1>22, <1>24, <1>25, <1>26, <1>27, <1>28 DEF PosInv
  <1> QED
    BY <1>10, <1>14, <1>16, <1>17, <1>22, <1>29 DEF Inv

LEMMA EnqueueLinkInv ==
  ASSUME Inv, Enqueue_Link
  PROVE  Inv'
  <1>1. PICK pos, q : PosInv(pos) /\ Inserted(pos, allocated, q)
    BY DEF Inv, Inserted
  <1> QED
    BY <1>1, LinkStep

-------------------------------------------------------------------------------
(***************************************************************************)
(* The place of a block in the ring is determined.                           *)
(***************************************************************************)

\* The place after x in a ring of R.
Place(x, R) == IF x = R - 1 THEN 0 ELSE x + 1

\* f counts the R places of a ring from a, along nx.
Counts(R, f, a, nx) ==
    /\ R \in Nat /\ f \in [1 .. R -> 0 .. R - 1] /\ a \in 1 .. R /\ f[a] = 0
    /\ \A b, c \in 1 .. R : f[b] = f[c] => b = c
    /\ \A b \in 1 .. R : nx[b] \in 1 .. R /\ f[nx[b]] = Place(f[b], R)

LEMMA RingReached ==
  ASSUME NEW R, NEW f, NEW a, NEW nx, Counts(R, f, a, nx), NEW k \in 0 .. R - 1
  PROVE  \E b \in 1 .. R : f[b] = k
  <1> DEFINE T == {i \in 0 .. R - 1 : ~ \E b \in 1 .. R : f[b] = i}
  <1> SUFFICES ASSUME T # {} PROVE FALSE
    OBVIOUS
  <1> USE DEF Counts
  <1>1. T \subseteq Nat
    OBVIOUS
  <1>2. PICK x \in T : \A y \in T : x <= y
    <2> HIDE DEF T
    <2> QED
      BY <1>1, LeastNat
  <1>3. x \in 0 .. R - 1 /\ ~ \E b \in 1 .. R : f[b] = x
    OBVIOUS
  <1>4. x # 0
    BY <1>3
  <1>5. x - 1 \in 0 .. R - 1 /\ x - 1 # R - 1 /\ ~ (x <= x - 1) /\ x - 1 + 1 = x
    BY <1>3, <1>4
  <1>6. x - 1 \notin T
    BY <1>2, <1>5
  <1>7. PICK b \in 1 .. R : f[b] = x - 1
    BY <1>5, <1>6
  <1>8. nx[b] \in 1 .. R /\ f[nx[b]] = x
    BY <1>5, <1>7 DEF Place
  <1> QED
    BY <1>3, <1>8

LEMMA PlaceUnique ==
  ASSUME NEW R, NEW f, NEW g, NEW a, NEW nx, Counts(R, f, a, nx), Counts(R, g, a, nx)
  PROVE  f = g
  <1> DEFINE T == {i \in 0 .. R - 1 : \E b \in 1 .. R : f[b] = i /\ g[b] # i}
  <1>1. ASSUME T # {} PROVE FALSE
    <2>1. T \subseteq Nat
      OBVIOUS
    <2>2. PICK x \in T : \A y \in T : x <= y
      <3> HIDE DEF T
      <3> QED
        BY <1>1, <2>1, LeastNat
    <2>3. PICK b \in 1 .. R : x \in 0 .. R - 1 /\ f[b] = x /\ g[b] # x
      OBVIOUS
    <2>4. x # 0
      BY <2>3 DEF Counts
    <2>5. x - 1 \in 0 .. R - 1 /\ x - 1 # R - 1 /\ ~ (x <= x - 1) /\ x - 1 + 1 = x
      BY <2>3, <2>4 DEF Counts
    <2>6. x - 1 \notin T
      BY <2>2, <2>5
    <2>7. PICK c \in 1 .. R : f[c] = x - 1
      BY <2>5, RingReached
    <2>8. g[c] = x - 1
      BY <2>5, <2>6, <2>7
    <2>9. nx[c] \in 1 .. R /\ f[nx[c]] = x /\ g[nx[c]] = x
      BY <2>5, <2>7, <2>8 DEF Place, Counts
    <2> QED
      BY <2>3, <2>9 DEF Counts
  <1>2. \A b \in 1 .. R : f[b] = g[b]
    BY <1>1 DEF Counts
  <1> QED
    BY <1>2 DEF Counts

LEMMA RingUnique ==
  ASSUME TypeInv, NEW p, NEW q, RingInv(p), RingInv(q)
  PROVE  p = q
  <1>1. PICK R, a, nx : R = RingSize /\ a = FB /\ nx = [b \in Ring |-> NextB(b)]
    OBVIOUS
  <1>2. Ring = 1 .. R /\ R \in Nat
    BY <1>1, RingBlocks DEF Ring
  <1>3. Counts(R, p, a, nx) /\ Counts(R, q, a, nx)
    BY <1>1, <1>2 DEF RingInv, Place, Counts
  <1> QED
    BY <1>3, PlaceUnique

-------------------------------------------------------------------------------
(***************************************************************************)
(* The invariant holds, and what follows from it.                           *)
(***************************************************************************)

LEMMA InitialValues ==
  /\ InitialValue(FrontBlock) = 1 /\ InitialValue(TailBlock) = 1
  /\ \A b \in Blocks : /\ InitialValue(FrontOf(b)) = 0 /\ InitialValue(TailOf(b)) = 0
                       /\ b < InitialBlocks => InitialValue(NextOf(b)) = b + 1
                       /\ b = InitialBlocks => InitialValue(NextOf(b)) = 1
  /\ \A loc \in Locations : InitialValue(loc) \in Nat
  <1>1. InitialValue(FrontBlock) = 1 /\ InitialValue(TailBlock) = 1
    BY DEF InitialValue, FrontBlock, TailBlock
  <1>2. ASSUME NEW b \in Blocks
        PROVE  /\ InitialValue(FrontOf(b)) = 0 /\ InitialValue(TailOf(b)) = 0
               /\ b < InitialBlocks => InitialValue(NextOf(b)) = b + 1
               /\ b = InitialBlocks => InitialValue(NextOf(b)) = 1
               /\ InitialValue(NextOf(b)) \in Nat
    <2>1. b \in Nat /\ InitialBlocks \in Nat
      BY Sizes DEF Blocks
    <2>2. InitialValue(FrontOf(b)) = 0 /\ InitialValue(TailOf(b)) = 0
      BY DEF InitialValue, FrontOf, TailOf
    <2>3. NextOf(b)[1] = "next" /\ NextOf(b)[2] = b
      BY DEF NextOf
    <2>4. CASE b < InitialBlocks
      BY <2>1, <2>2, <2>3, <2>4 DEF InitialValue
    <2>5. CASE b = InitialBlocks
      BY <2>1, <2>2, <2>3, <2>5 DEF InitialValue
    <2>6. CASE b > InitialBlocks
      BY <2>1, <2>2, <2>3, <2>6 DEF InitialValue
    <2> QED
      BY <2>1, <2>4, <2>5, <2>6
  <1>3. ASSUME NEW loc \in Locations
        PROVE  InitialValue(loc) \in Nat
    <2>1. \/ loc = FrontBlock \/ loc = TailBlock
          \/ \E b \in Blocks : loc = FrontOf(b) \/ loc = TailOf(b) \/ loc = NextOf(b)
      BY DEF Locations, FrontOf, TailOf, NextOf
    <2> QED
      BY <2>1, <1>1, <1>2
  <1> QED
    BY <1>1, <1>2, <1>3

LEMMA InitInv ==
  ASSUME Init
  PROVE  Inv
  <1>1. PICK N, n : N = InitialBlocks /\ n = InitialSize
    OBVIOUS
  <1>2. /\ N \in Nat /\ N >= 1 /\ N <= MaxBlocks /\ MaxBlocks \in Nat /\ n \in Nat /\ n >= 2
        /\ N \in Blocks /\ 1 \in Blocks /\ Blocks = 1 .. MaxBlocks
    BY <1>1, Sizes DEF Blocks
  <1>3. /\ allocated = N /\ largestBlockSize = n
        /\ size = [b \in Blocks |-> IF b <= N THEN n ELSE 0]
        /\ slot = [b \in Blocks |-> FreshSlots(size[b], 0)]
        /\ localFront = [b \in Blocks |-> 0] /\ localTail = [b \in Blocks |-> 0]
        /\ pc = [t \in Threads |-> "idle"] /\ call = [t \in Threads |-> NoCall] /\ sent = 0
        /\ epoch = [t \in Threads |-> 1] /\ acq = [t \in Threads |-> 1] /\ seen = [t \in Threads |-> 1]
        /\ mem = [loc \in Locations |-> <<[val |-> InitialValue(loc), at |-> 0]>>]
    BY <1>1 DEF Init, Threads
  <1>4. P \in Threads /\ C \in Threads /\ "idle" \in Labels
    BY Locs DEF Labels
  <1>5. ASSUME NEW loc \in Locations
        PROVE  /\ Len(mem[loc]) = 1 /\ mem[loc][1] = [val |-> InitialValue(loc), at |-> 0]
               /\ mem[loc] = <<[val |-> InitialValue(loc), at |-> 0]>>
               /\ mem[loc] \in Seq(Stores) /\ mem[loc] # <<>>
               /\ Newest(loc) = InitialValue(loc)
               /\ mem[loc][1].val = InitialValue(loc) /\ mem[loc][1].at = 0
    <2>1. mem[loc] = <<[val |-> InitialValue(loc), at |-> 0]>>
      BY <1>3
    <2>2. [val |-> InitialValue(loc), at |-> 0] \in Stores
      BY InitialValues DEF Stores
    <2>3. Len(mem[loc]) = 1 /\ mem[loc][1] = [val |-> InitialValue(loc), at |-> 0]
          /\ mem[loc] \in Seq(Stores) /\ mem[loc] # <<>>
      BY <2>1, <2>2
    <2>4. mem[loc][1].val = InitialValue(loc) /\ mem[loc][1].at = 0
      BY <2>3
    <2> QED
      BY <2>1, <2>3, <2>4 DEF Newest
  <1>6. /\ FB = 1 /\ TB = 1
        /\ \A b \in Blocks : /\ FrontIx(b) = 0 /\ TailIx(b) = 0
                             /\ b < N => NextB(b) = b + 1
                             /\ b = N => NextB(b) = 1
    <2>1. \A loc \in Locations : Newest(loc) = InitialValue(loc)
      BY <1>5
    <2> QED
      BY <2>1, <1>1, Locs, InitialValues DEF FB, TB, FrontIx, TailIx, NextB
  <1>7. MemInv
    <2>1. mem \in [Locations -> Seq(Stores)]
      BY <1>3, <1>5
    <2>2. ASSUME NEW loc \in Locations
          PROVE  /\ mem[loc] # <<>>
                 /\ ~ Relaxed => Len(mem[loc]) = 1
                 /\ \A i \in 1 .. Len(mem[loc]) : mem[loc][i].at <= epoch[Owner(loc)]
                 /\ \A i \in 2 .. Len(mem[loc]) : mem[loc][i].at >= seen[Reader(loc)]
      <3>1. Len(mem[loc]) = 1 /\ mem[loc] # <<>> /\ mem[loc][1].at = 0
        BY <1>5
      <3>2. epoch[Owner(loc)] = 1
        BY <1>3, Owners
      <3>3. \A i \in 1 .. Len(mem[loc]) : i = 1
        BY <3>1
      <3>4. 2 .. Len(mem[loc]) = {}
        BY <3>1
      <3> QED
        BY <3>1, <3>2, <3>3, <3>4
    <2> QED
      BY <2>1, <2>2, <1>3, <1>4 DEF MemInv
  <1>8. TypeInv
    <2>1. CallsTyped
      BY <1>3, <1>4 DEF CallsTyped
    <2>2. ASSUME NEW b \in Blocks
          PROVE  /\ b <= allocated => size[b] >= 2
                 /\ b > allocated => /\ mem[FrontOf(b)] = <<[val |-> 0, at |-> 0]>>
                                     /\ mem[TailOf(b)] = <<[val |-> 0, at |-> 0]>>
                                     /\ localFront[b] = 0
      BY <1>2, <1>3, <1>5, Locs, InitialValues
    <2> QED
      BY <2>1, <2>2, <1>2, <1>3 DEF TypeInv
  <1>9. ASSUME NEW b \in 1 .. N
        PROVE  /\ b \in Blocks /\ size[b] = n /\ localFront[b] = 0 /\ localTail[b] = 0
               /\ FrontIx(b) = 0 /\ TailIx(b) = 0
               /\ Len(mem[FrontOf(b)]) = 1 /\ mem[FrontOf(b)][1].val = 0
               /\ Len(mem[TailOf(b)]) = 1 /\ mem[TailOf(b)][1].val = 0
    <2>1. b \in Blocks /\ b <= N
      BY <1>2
    <2> QED
      BY <2>1, <1>3, <1>5, <1>6, Locs, InitialValues
  <1>10. IndexInv
    <2>1. Dist(0, 0, n) = 0 /\ 0 \in 0 .. n - 1 /\ 0 + 0 < n
      BY <1>2 DEF Dist
    <2>2. ASSUME NEW b \in 1 .. N
          PROVE  BlockInv(b) /\ TailCopied(b)
      <3>1. (\A i \in 1 .. Len(mem[FrontOf(b)]) : i = 1) /\ \A i \in 1 .. Len(mem[TailOf(b)]) : i = 1
        <4>1. Len(mem[FrontOf(b)]) = 1 /\ Len(mem[TailOf(b)]) = 1
          BY <1>9
        <4> QED
          BY <4>1
      <3>2. BlockInv(b)
        <4>1. /\ \A i \in 1 .. Len(mem[FrontOf(b)]) : mem[FrontOf(b)][i].val = 0
              /\ \A i \in 1 .. Len(mem[TailOf(b)]) : mem[TailOf(b)][i].val = 0
          BY <3>1, <1>9
        <4>2. /\ size[b] = n /\ localFront[b] = 0 /\ localTail[b] = 0
              /\ FrontIx(b) = 0 /\ TailIx(b) = 0
          BY <1>9
        <4> QED
          <5>1. \A i, j \in 1 .. Len(mem[FrontOf(b)]) :
                  Dist(0, mem[FrontOf(b)][i].val, n) <= Dist(0, mem[FrontOf(b)][j].val, n)
            BY <2>1, <4>1
          <5>2. \A i, j \in 1 .. Len(mem[TailOf(b)]) :
                  Dist(0, mem[TailOf(b)][i].val, n) <= Dist(0, mem[TailOf(b)][j].val, n)
            BY <2>1, <4>1
          <5>3. Dist(0, 0, n) + Dist(0, 0, n) < n
            BY <2>1
          <5> QED
            BY <2>1, <4>1, <4>2, <5>1, <5>2, <5>3 DEF BlockInv
      <3>3. TailCopied(b)
        BY <2>1, <3>1, <1>9 DEF TailCopied
      <3> QED
        BY <3>2, <3>3
    <2>3. 1 \in 1 .. N
      BY <1>2
    <2> QED
      BY <2>2, <2>3, <1>3, <1>6 DEF IndexInv
  <1>11. SlotInv
    <2> SUFFICES ASSUME NEW b \in 1 .. N
                 PROVE  /\ DOMAIN slot[b] = 0 .. size[b] - 1
                        /\ \A i \in 0 .. size[b] - 1 : /\ DOMAIN slot[b][i] = {"val", "by", "at"}
                                                       /\ slot[b][i].val # Empty <=> Occupied(b, i)
      BY <1>3 DEF SlotInv
    <2>1. slot[b] = [i \in 0 .. n - 1 |-> [val |-> Empty, by |-> P, at |-> 0]] /\ size[b] = n
      BY <1>3, <1>9 DEF FreshSlots
    <2>2. ASSUME NEW i \in 0 .. n - 1
          PROVE  ~ Occupied(b, i)
      <3>1. Dist(0, i, n) = i /\ Dist(0, 0, n) = 0
        BY <1>2 DEF Dist
      <3>2. ~ (Dist(0, i, n) < Dist(0, 0, n))
        BY <3>1
      <3> QED
        BY <3>2, <1>3, <1>4, <1>9 DEF Occupied
    <2> QED
      BY <2>1, <2>2
  <1>12. Ring = 1 .. N /\ RingSize = N
    BY <1>3, <1>4 DEF Ring, RingSize
  <1>13. PICK pos : pos = [b \in 1 .. N |-> b - 1]
    OBVIOUS
  <1>14. pos \in [1 .. N -> 0 .. N - 1] /\ pos[1] = 0 /\ 1 \in 1 .. N /\ \A b \in 1 .. N : pos[b] = b - 1
    BY <1>2, <1>13
  <1>15. RingInv(pos)
    <2>1. ASSUME NEW b \in 1 .. N
          PROVE  /\ NextB(b) \in 1 .. N
                 /\ pos[NextB(b)] = IF pos[b] = N - 1 THEN 0 ELSE pos[b] + 1
      <3>1. b \in Blocks
        BY <1>9
      <3>2. CASE b = N
        BY <3>1, <3>2, <1>2, <1>6, <1>14
      <3>3. CASE b # N
        <4>1. b < N /\ b + 1 \in 1 .. N /\ b \in Nat
          BY <3>3, <1>2
        <4>2. NextB(b) = b + 1
          BY <3>1, <4>1, <1>6
        <4>3. pos[b + 1] = (b + 1) - 1 /\ pos[b] = b - 1
          BY <4>1, <1>14
        <4> QED
          BY <4>1, <4>2, <4>3, <1>2
      <3> QED
        BY <3>2, <3>3
    <2>2. \A b, c \in 1 .. N : pos[b] = pos[c] => b = c
      BY <1>2, <1>14
    <2> QED
      BY <2>1, <2>2, <1>6, <1>12, <1>14 DEF RingInv
  <1>16. ~ Advancing /\ ~ Filling /\ ~ Leaving
    BY <1>3, <1>4 DEF Advancing, Filling, Leaving
  <1>17. FrontBlockInv(pos)
    <2>1. Len(mem[FrontBlock]) = 1 /\ LastUsed(pos) = 0
      BY <1>5, <1>6, <1>14, <1>16, Locs DEF LastUsed
    <2>2. ASSUME NEW b \in Ring PROVE Settled(mem[FrontOf(b)], mem[FrontBlock][1].at)
      BY <1>9, <1>12 DEF Settled
    <2>3. \A j \in 1 .. Len(mem[FrontBlock]) : j = 1
      BY <2>1
    <2>4. RingSize - 0 > 0
      BY <1>2, <1>12
    <2> QED
      BY <2>1, <2>2, <2>3, <2>4 DEF FrontBlockInv
  <1>18. TailBlockInv(pos)
    <2>1. Len(mem[TailBlock]) = 1 /\ mem[TailBlock][1].val = 1
      BY <1>5, Locs, InitialValues
    <2>2. \A j \in 1 .. Len(mem[TailBlock]) : j = 1
      BY <2>1
    <2>3. \A b \in 1 .. N : ~ (pos[b] < 0) /\ ~ (0 < pos[b] /\ pos[b] <= 0)
      BY <1>2, <1>14
    <2>4. pos[TB] = 0 /\ pos[TB] - (1 - 1) = 0
      BY <1>6, <1>14
    <2> QED
      BY <2>1, <2>2, <2>3, <2>4, <1>12, <1>14 DEF TailBlockInv
  <1>19. EmptyInv(pos)
    <2>1. \A b \in 1 .. N : ~ (0 < pos[b] /\ pos[b] <= 0)
      BY <1>2, <1>14
    <2> QED
      BY <2>1, <1>6, <1>9, <1>12, <1>14 DEF EmptyInv
  <1>20. ProducerInv(pos)
    BY <1>3, <1>4, <1>16 DEF ProducerInv
  <1>21. ConsumerInv(pos)
    BY <1>3, <1>4, <1>16 DEF ConsumerInv
  <1>22. PosInv(pos) /\ pos \in [Ring -> 0 .. RingSize - 1]
    BY <1>12, <1>14, <1>15, <1>17, <1>18, <1>19, <1>20, <1>21 DEF PosInv
  <1> QED
    BY <1>7, <1>8, <1>10, <1>11, <1>22 DEF Inv

LEMMA NextInv ==
  ASSUME ~ Relaxed \/ C \notin SizeCallers, Inv, [Next]_vars
  PROVE  Inv'
  <1>1. CASE Enqueue_Start
    BY <1>1, EnqueueStartInv
  <1>2. CASE ProducerStep
    BY <1>2, EnqueueWriteInv, EnqueuePublishInv, EnqueueFullInv, EnqueueAdvanceInv,
       EnqueueAllocInv, EnqueueNoMemoryInv, EnqueueLinkInv, EnqueuePublishBlockInv DEF ProducerStep
  <1>3. CASE Dequeue_Start
    BY <1>3, DequeueStartInv
  <1>4. CASE ConsumerStep
    BY <1>4, DequeueTakeInv, DequeueReleaseInv, DequeueCheckTailInv, DequeueRecheckInv,
       DequeueReadNextInv, DequeueCheckNextInv, DequeueMoveFrontInv DEF ConsumerStep
  <1>5. CASE SizeStep
    <2>1. PICK t \in SizeCallers : Size_Start(t) \/ Size_Count(t) \/ Size_Follow(t)
      BY <1>5 DEF SizeStep
    <2>2. CASE t = P
      BY <2>1, <2>2, SizeProducerInv
    <2>3. CASE t = C
      BY <2>1, <2>3, SizeConsumerInv
    <2> QED
      BY <2>2, <2>3, SizeCallersAssumption DEF P, C
  <1>6. CASE UNCHANGED vars
    <2>1. PICK pos \in [Ring -> 0 .. RingSize - 1] : PosInv(pos)
      BY DEF Inv
    <2>2. /\ MemInv /\ TypeInv /\ IndexInv /\ SlotInv /\ CallsTyped /\ RingInv(pos) /\ ConsumerInv(pos)
      BY <2>1 DEF Inv, TypeInv, PosInv
    <2>3. /\ UNCHANGED memVars /\ pc' = pc /\ call' = call
          /\ UNCHANGED <<allocated, largestBlockSize, size, slot, sent, localFront, localTail>>
      BY <1>6 DEF vars, pVars, cVars, blockVars
    <2>4. Looks(P)
      BY <2>2, <2>3, Locs, StillLooks
    <2>5. RingSize' = RingSize
      BY <2>3 DEF RingSize
    <2>6. ConsumerInv(pos)'
      BY <2>2, <2>3, <2>4, <2>5, ConsumerKeeps
    <2>7. CallsTyped'
      BY <2>2, <2>3 DEF CallsTyped
    <2>8. localTail' \in [Blocks -> Nat] /\ Looks(C)
      BY <2>2, <2>3, Locs, StillLooks DEF TypeInv
    <2> QED
      BY <2>1, <2>2, <2>3, <2>6, <2>7, <2>8, ConsumerLooks
  <1> QED
    BY <1>1, <1>2, <1>3, <1>4, <1>5, <1>6 DEF Next

\* The invariant holds with one memory, and with relaxed atomics as long as the
\* consumer does not call size_approx, whose loads follow blocks that it may not
\* have seen constructed.
THEOREM Invariance ==
  ASSUME ~ Relaxed \/ C \notin SizeCallers
  PROVE  Spec => []Inv
  <1>1. Init => Inv
    BY InitInv
  <1>2. Inv /\ [Next]_vars => Inv'
    BY NextInv
  <1> QED
    BY <1>1, <1>2, PTL DEF Spec

\* An element is constructed only in a slot that holds none, and taken only from
\* one that holds one, although each thread works with copies of the other's
\* indices that may be out of date.
THEOREM SlotsAreUsedProperly ==
  ASSUME ~ Relaxed \/ C \notin SizeCallers
  PROVE  Spec => []SlotsUsedProperly
  <1>1. ASSUME Inv
        PROVE  SlotsUsedProperly
    <2>1. PICK pos : PosInv(pos)
      BY <1>1 DEF Inv
    <2>2. /\ MemInv /\ TypeInv /\ IndexInv /\ SlotInv /\ RingInv(pos) /\ EmptyInv(pos)
          /\ ProducerInv(pos) /\ ConsumerInv(pos)
      BY <1>1, <2>1 DEF Inv, PosInv
    <2>3. ASSUME NEW b \in Ring
          PROVE  /\ b \in 1 .. allocated /\ b \in Blocks /\ size[b] \in Nat
                 /\ FrontIx(b) \in 0 .. size[b] - 1 /\ TailIx(b) \in 0 .. size[b] - 1
                 /\ \A i \in 0 .. size[b] - 1 : slot[b][i].val # Empty <=> Occupied(b, i)
      <3>1. b \in 1 .. allocated /\ b \in Blocks /\ size[b] \in Nat
        BY <2>2, RingBlocks
      <3>2. FrontIx(b) \in 0 .. size[b] - 1 /\ TailIx(b) \in 0 .. size[b] - 1
        BY <3>1, <2>2, Indices DEF IndexInv
      <3> QED
        BY <3>1, <3>2, <2>2 DEF SlotInv
    <2>4. ASSUME NEW b \in Ring, pc[P] \in {"write", "writeNext"}
          PROVE  slot[b][TailIx(b)].val = Empty
      <3>1. Dist(FrontIx(b), TailIx(b), size[b]) \in Nat
        BY <2>3, DistNat
      <3>2. ~ (Dist(FrontIx(b), TailIx(b), size[b]) < Dist(FrontIx(b), TailIx(b), size[b]))
        BY <3>1
      <3>3. ~ Occupied(b, TailIx(b))
        BY <3>2, <2>4 DEF Occupied
      <3> QED
        BY <3>3, <2>3
    <2>5. \A s \in PSlot : slot[s[1]][s[2]].val = Empty
      <3>1. TB \in Ring /\ NextB(TB) \in Ring
        BY <2>2 DEF RingInv
      <3>2. CASE pc[P] = "write"
        <4>1. PSlot = {<<TB, TailIx(TB)>>}
          BY <3>2 DEF PSlot, TB, TailIx
        <4> QED
          BY <4>1, <3>1, <3>2, <2>4
      <3>3. CASE pc[P] = "writeNext"
        <4>1. PSlot = {<<call[P].block, TailIx(call[P].block)>>}
          BY <3>3 DEF PSlot, TailIx
        <4>2. call[P].block \in Ring
          BY <3>1, <3>3, <2>2 DEF ProducerInv, Filling
        <4> QED
          BY <4>1, <4>2, <3>3, <2>4
      <3>4. CASE pc[P] \notin {"write", "writeNext"}
        BY <3>4 DEF PSlot
      <3> QED
        BY <3>2, <3>3, <3>4
    <2>6. \A s \in CSlot : slot[s[1]][s[2]].val # Empty
      <3>1. CASE pc[C] = "take"
        <4>1. PICK b, F, T, n : b = call[C].block /\ F = FrontIx(b) /\ T = TailIx(b) /\ n = size[b]
          OBVIOUS
        <4>2. CSlot = {<<b, F>>}
          BY <3>1, <4>1 DEF CSlot, FrontIx
        <4>3. b \in Ring /\ F # T
          BY <3>1, <4>1, <2>1, <2>2, FrontNotEmpty
        <4>4. n \in Nat /\ F \in 0 .. n - 1 /\ T \in 0 .. n - 1
          BY <4>1, <4>3, <2>3
        <4>5. Dist(F, F, n) = 0 /\ Dist(F, T, n) \in Nat /\ Dist(F, T, n) # 0
          BY <4>3, <4>4, DistNat
        <4>6. Dist(F, F, n) < Dist(F, T, n)
          BY <4>5
        <4>7. Occupied(b, F)
          BY <3>1, <4>1, <4>6 DEF Occupied
        <4> QED
          BY <4>1, <4>2, <4>3, <4>4, <4>7, <2>3
      <3>2. CASE pc[C] # "take"
        BY <3>2 DEF CSlot
      <3> QED
        BY <3>1, <3>2
    <2> QED
      BY <2>5, <2>6 DEF SlotsUsedProperly
  <1> QED
    BY <1>1, Invariance, PTL

\* The assertions of the code hold, whatever of the other thread's stores the loads
\* in them return.
THEOREM CodeAssertionsHold ==
  ASSUME ~ Relaxed \/ C \notin SizeCallers
  PROVE  Spec => []AssertionsHold
  <1>1. ASSUME Inv
        PROVE  AssertionsHold
    <2>1. PICK pos : PosInv(pos)
      BY <1>1 DEF Inv
    <2>2. /\ MemInv /\ TypeInv /\ RingInv(pos) /\ ProducerInv(pos) /\ ConsumerInv(pos)
      BY <1>1, <2>1 DEF Inv, PosInv
    <2>3. ASSUME pc[C] = "checkNext"
          PROVE  /\ call[C].block # None
                 /\ Newest(FrontOf(call[C].block)) \notin Readable(TailOf(call[C].block))
      <3>1. PICK b : b = call[C].block
        OBVIOUS
      <3>2. Leaving /\ b = NextB(FB)
        BY <3>1, <2>2, <2>3 DEF Leaving, ConsumerInv
      <3>3. b \in Ring /\ \A i \in 1 .. Len(mem[TailOf(b)]) : mem[TailOf(b)][i].val # FrontIx(b)
        BY <3>2, <2>1, <2>2, LeavingReads
      <3>4. b # None /\ b \in Blocks
        BY <3>3, <2>2, RingBlocks DEF None, Ring
      <3>5. DOMAIN mem[TailOf(b)] = 1 .. Len(mem[TailOf(b)])
        BY <3>4, <2>2, Locs, History
      <3> QED
        BY <3>1, <3>3, <3>4, <3>5 DEF Readable, FrontIx
    <2>4. ASSUME pc[P] = "advance"
          PROVE  LET b == Newest(NextOf(Newest(TailBlock)))
                 IN  b # Newest(FrontBlock) /\ Readable(FrontOf(b)) = {Newest(TailOf(b))}
      <3>1. PICK b : b = NextB(TB)
        OBVIOUS
      <3>2. b \in Ring /\ Len(mem[FrontOf(b)]) = 1 /\ FrontIx(b) = TailIx(b)
        BY <3>1, <2>1, <2>2, <2>4, AdvanceReads
      <3>3. Advancing
        BY <2>4 DEF Advancing
      <3>4. b # FB
        BY <3>1, <3>3, <2>2, FillingPlace
      <3>5. b \in Blocks
        BY <3>2, <2>2, RingBlocks
      <3>6. DOMAIN mem[FrontOf(b)] = 1 .. 1 /\ mem[FrontOf(b)][1].val = FrontIx(b)
        BY <3>2, <3>5, <2>2, Locs, History DEF FrontIx
      <3>7. Readable(FrontOf(b)) = {TailIx(b)}
        <4>1. 1 .. 1 = {1}
          OBVIOUS
        <4> QED
          BY <4>1, <3>2, <3>6 DEF Readable
      <3> QED
        BY <3>1, <3>4, <3>7 DEF NextB, TB, FB, TailIx
    <2> QED
      BY <2>3, <2>4 DEF AssertionsHold
  <1> QED
    BY <1>1, Invariance, PTL

===============================================================================
