----------------------- MODULE ReaderWriterQueueContents -----------------------
(***************************************************************************)
(* Proofs about what is in ReaderWriterQueue: the blocks that a walk from    *)
(* frontBlock reaches, the slots of each that hold elements, and which       *)
(* elements these are.  From the order of the elements along the ring follow *)
(* what the destructor destroys, what peek shows, when a dequeue may say     *)
(* "empty", and that the queue implements SpscFifo.                         *)
(***************************************************************************)
EXTENDS ReaderWriterQueueProofs

\* The walk along next reaches the block at place k in k steps.
LEMMA HopPlace ==
  ASSUME TypeInv, NEW pos, RingInv(pos), NEW k \in 0 .. RingSize - 1
  PROVE  Hop(Newest, k) \in Ring /\ pos[Hop(Newest, k)] = k
  <1>1. PICK R, a, nx : R = RingSize /\ a = FB /\ nx = [b \in Ring |-> NextB(b)]
    OBVIOUS
  <1>2. Ring = 1 .. R /\ R \in Nat /\ k \in 0 .. R - 1 /\ k \in Nat
    BY <1>1, RingBlocks DEF Ring
  <1>3. Counts(R, pos, a, nx)
    BY <1>1, <1>2 DEF RingInv, Place, Counts
  <1> DEFINE w == [i \in 0 .. k |-> CHOOSE b \in 1 .. R : pos[b] = i]
             Walk(h) == h = [i \in 0 .. k |-> IF i = 0 THEN FB ELSE NextB(h[i - 1])]
  <1>4. \A i \in 0 .. k : w[i] \in 1 .. R /\ pos[w[i]] = i
    <2>1. ASSUME NEW i \in 0 .. k
          PROVE  w[i] \in 1 .. R /\ pos[w[i]] = i
      <3>1. i \in 0 .. R - 1
        BY <1>2
      <3>2. \E b \in 1 .. R : pos[b] = i
        BY <1>3, <3>1, RingReached
      <3> QED
        BY <3>2
    <2> QED
      BY <2>1
  <1>5. ASSUME NEW i \in 0 .. k
        PROVE  w[i] = IF i = 0 THEN FB ELSE NextB(w[i - 1])
    <2> HIDE DEF w
    <2>1. CASE i = 0
      BY <1>1, <1>3, <1>4, <2>1 DEF Counts
    <2>2. CASE i # 0
      <3>1. i - 1 \in 0 .. k /\ i - 1 # R - 1 /\ (i - 1) + 1 = i
        BY <1>2, <2>2
      <3>2. w[i - 1] \in 1 .. R /\ pos[w[i - 1]] = i - 1
        BY <1>4, <3>1
      <3>3. nx[w[i - 1]] \in 1 .. R /\ pos[nx[w[i - 1]]] = i
        BY <1>3, <3>1, <3>2 DEF Counts, Place
      <3>4. nx[w[i - 1]] = w[i]
        BY <1>3, <1>4, <3>3 DEF Counts
      <3> QED
        BY <1>1, <1>2, <2>2, <3>2, <3>4
    <2> QED
      BY <2>1, <2>2
  <1>6. Walk(w)
    <2>1. w = [i \in 0 .. k |-> w[i]]
      OBVIOUS
    <2> HIDE DEF w
    <2>2. [i \in 0 .. k |-> w[i]] = [i \in 0 .. k |-> IF i = 0 THEN FB ELSE NextB(w[i - 1])]
      BY <1>5
    <2> QED
      BY <2>1, <2>2
  <1>7. PICK h : Walk(h) /\ Hop(Newest, k) = h[k]
    <2>1. Hop(Newest, k) = (CHOOSE h : Walk(h))[k]
      BY DEF Hop, FB, NextB
    <2> HIDE DEF Walk
    <2> QED
      BY <1>6, <2>1
  <1>8. k \in 0 .. k
    BY <1>2
  <1> DEFINE T == {i \in 0 .. k : ~ (h[i] \in 1 .. R /\ pos[h[i]] = i)}
  <1>9. ASSUME T # {} PROVE FALSE
    <2>1. T \subseteq Nat
      OBVIOUS
    <2>2. PICK x \in T : \A y \in T : x <= y
      <3> HIDE DEF T
      <3> QED
        BY <1>9, <2>1, LeastNat
    <2>3. x \in 0 .. k /\ ~ (h[x] \in 1 .. R /\ pos[h[x]] = x)
      OBVIOUS
    <2>4. h[x] = IF x = 0 THEN FB ELSE NextB(h[x - 1])
      BY <1>7, <2>3
    <2>5. x # 0
      BY <1>1, <1>3, <2>3, <2>4 DEF Counts
    <2>6. x - 1 \in 0 .. k /\ x - 1 # R - 1 /\ ~ (x <= x - 1) /\ (x - 1) + 1 = x
      BY <1>2, <2>3, <2>5
    <2>7. x - 1 \notin T
      BY <2>2, <2>6
    <2>8. h[x - 1] \in 1 .. R /\ pos[h[x - 1]] = x - 1
      BY <2>6, <2>7
    <2>9. nx[h[x - 1]] \in 1 .. R /\ pos[nx[h[x - 1]]] = x
      BY <1>3, <2>6, <2>8 DEF Counts, Place
    <2> QED
      BY <1>1, <1>2, <2>3, <2>4, <2>5, <2>8, <2>9
  <1>10. h[k] \in 1 .. R /\ pos[h[k]] = k
    BY <1>8, <1>9
  <1> QED
    BY <1>2, <1>7, <1>10

-------------------------------------------------------------------------------
(***************************************************************************)
(* The destructor.                                                          *)
(***************************************************************************)

\* The indices that the code computes with sizeMask.
LEMMA Masked ==
  ASSUME NEW n \in Nat, n >= 2, NEW x \in 0 .. n - 1, NEW y \in 0 .. n - 1
  PROVE  (y - x) % n = Dist(x, y, n)
  <1>1. CASE x <= y
    BY <1>1 DEF Dist
  <1>2. CASE ~ (x <= y)
    <2>1. y - x + n \in 0 .. n - 1
      BY <1>2
    <2>2. (y - x) % n = y - x + n
      BY <2>1
    <2> QED
      BY <1>2, <2>2 DEF Dist
  <1> QED
    BY <1>1, <1>2

LEMMA MaskedSum ==
  ASSUME NEW n \in Nat, n >= 2, NEW x \in 0 .. n - 1, NEW i \in 1 .. n
  PROVE  /\ (x + i - 1) % n \in 0 .. n - 1
         /\ Dist(x, (x + i - 1) % n, n) = i - 1
  <1>1. CASE x + i - 1 < n
    <2>1. (x + i - 1) % n = x + i - 1
      BY <1>1
    <2> QED
      BY <1>1, <2>1 DEF Dist
  <1>2. CASE ~ (x + i - 1 < n)
    <2>1. (x + i - 1) % n = x + i - 1 - n
      BY <1>2
    <2> QED
      BY <1>2, <2>1 DEF Dist
  <1> QED
    BY <1>1, <1>2

\* In a block the destructor visits the slots from front to tail.
LEMMA DestroyedSlots ==
  ASSUME NEW b, size[b] \in Nat, size[b] >= 2,
         FrontIx(b) \in 0 .. size[b] - 1, TailIx(b) \in 0 .. size[b] - 1
  PROVE  Destroyed(b) =
            {<<b, j>> : j \in {j \in 0 .. size[b] - 1 :
                Dist(FrontIx(b), j, size[b]) < Dist(FrontIx(b), TailIx(b), size[b])}}
  <1>1. PICK n, F, T, d : n = size[b] /\ F = FrontIx(b) /\ T = TailIx(b) /\ d = Dist(F, T, n)
    OBVIOUS
  <1>2. n \in Nat /\ n >= 2 /\ F \in 0 .. n - 1 /\ T \in 0 .. n - 1
    BY <1>1
  <1>3. d \in Nat /\ d <= n - 1 /\ (T - F) % n = d
    BY <1>1, <1>2, DistNat, Masked
  <1>4. Live(Newest, b) = [i \in 1 .. d |-> <<b, (F + i - 1) % n>>]
    BY <1>1, <1>3 DEF Live, FrontIx, TailIx
  <1>5. Destroyed(b) = {<<b, (F + i - 1) % n>> : i \in 1 .. d}
    BY <1>4 DEF Destroyed
  <1>6. ASSUME NEW i \in 1 .. d
        PROVE  (F + i - 1) % n \in 0 .. n - 1 /\ Dist(F, (F + i - 1) % n, n) < d
    <2>1. i \in 1 .. n
      BY <1>2, <1>3
    <2>2. (F + i - 1) % n \in 0 .. n - 1 /\ Dist(F, (F + i - 1) % n, n) = i - 1
      BY <1>2, <2>1, MaskedSum
    <2>3. i - 1 < d
      BY <1>3
    <2> QED
      BY <2>2, <2>3
  <1>7. ASSUME NEW j \in 0 .. n - 1, Dist(F, j, n) < d
        PROVE  \E i \in 1 .. d : (F + i - 1) % n = j
    <2>1. PICK e : e = Dist(F, j, n)
      OBVIOUS
    <2>2. e \in Nat /\ e < d
      BY <1>2, <1>7, <2>1, DistNat
    <2>3. e + 1 \in 1 .. d /\ e + 1 \in 1 .. n /\ (e + 1) - 1 = e
      BY <1>2, <1>3, <2>2
    <2>4. (F + (e + 1) - 1) % n \in 0 .. n - 1 /\ Dist(F, (F + (e + 1) - 1) % n, n) = e
      BY <1>2, <2>3, MaskedSum
    <2>5. (F + (e + 1) - 1) % n = j
      BY <1>2, <2>1, <2>4, DistEqual
    <2> QED
      BY <2>3, <2>5
  <1>8. {(F + i - 1) % n : i \in 1 .. d} = {j \in 0 .. n - 1 : Dist(F, j, n) < d}
    BY <1>6, <1>7
  <1>9. Destroyed(b) = {<<b, j>> : j \in {(F + i - 1) % n : i \in 1 .. d}}
    BY <1>5
  <1> QED
    BY <1>1, <1>8, <1>9

\* The destructor follows next through every block, and only through blocks.
LEMMA VisitedBlocks ==
  ASSUME TypeInv, NEW pos, RingInv(pos), RingSize = allocated
  PROVE  {Hop(Newest, k) : k \in 0 .. allocated - 1} = 1 .. allocated
  <1>1. ASSUME NEW k \in 0 .. allocated - 1
        PROVE  Hop(Newest, k) \in 1 .. allocated /\ pos[Hop(Newest, k)] = k
    BY HopPlace DEF Ring
  <1>2. ASSUME NEW b \in 1 .. allocated
        PROVE  \E k \in 0 .. allocated - 1 : Hop(Newest, k) = b
    <2>1. b \in Ring /\ pos[b] \in 0 .. allocated - 1
      BY DEF Ring, RingInv
    <2>2. PICK k \in 0 .. allocated - 1 : k = pos[b]
      BY <2>1
    <2>3. Hop(Newest, k) \in Ring /\ pos[Hop(Newest, k)] = pos[b]
      BY <1>1, <2>2 DEF Ring
    <2>4. Hop(Newest, k) = b
      BY <2>1, <2>3 DEF RingInv
    <2> QED
      BY <2>4
  <1> QED
    BY <1>1, <1>2

\* Between calls the destructor, which walks the ring from frontBlock and in every
\* block from front to tail, destroys exactly the elements that are in the slots:
\* none is leaked and none is destroyed that a dequeue has destroyed already.
THEOREM DestructorExact ==
  ASSUME ~ Relaxed \/ C \notin SizeCallers
  PROVE  Spec => []DestructorIsExact
  <1>1. ASSUME Inv, pc = [t \in {P, C} |-> "idle"]
        PROVE  DestructorVisits =
                 {s \in UNION {{b} \X (0 .. size[b] - 1) : b \in 1 .. allocated} :
                     slot[s[1]][s[2]].val # Empty}
    <2>1. PICK pos : PosInv(pos)
      BY <1>1 DEF Inv
    <2>2. MemInv /\ TypeInv /\ IndexInv /\ SlotInv /\ RingInv(pos)
      BY <1>1, <2>1 DEF Inv, PosInv
    <2>3. pc[P] = "idle" /\ pc[C] = "idle"
      BY <1>1 DEF P, C
    <2>4. RingSize = allocated
      BY <2>3 DEF RingSize
    <2>5. {Hop(Newest, k) : k \in 0 .. allocated - 1} = 1 .. allocated
      BY <2>2, <2>4, VisitedBlocks
    <2>6. DestructorVisits = UNION {Destroyed(b) : b \in 1 .. allocated}
      <3>1. DestructorVisits = UNION {Destroyed(b) : b \in {Hop(Newest, k) : k \in 0 .. allocated - 1}}
        BY DEF DestructorVisits
      <3> QED
        BY <3>1, <2>5
    <2>7. ASSUME NEW b \in 1 .. allocated
          PROVE  Destroyed(b) = {s \in {b} \X (0 .. size[b] - 1) : slot[s[1]][s[2]].val # Empty}
      <3>1. b \in Blocks /\ size[b] \in Nat /\ size[b] >= 2
        BY <2>2, RingBlocks
      <3>2. FrontIx(b) \in 0 .. size[b] - 1 /\ TailIx(b) \in 0 .. size[b] - 1
        BY <3>1, <2>2, Indices DEF IndexInv
      <3>3. Destroyed(b) =
              {<<b, j>> : j \in {j \in 0 .. size[b] - 1 :
                  Dist(FrontIx(b), j, size[b]) < Dist(FrontIx(b), TailIx(b), size[b])}}
        BY <3>1, <3>2, DestroyedSlots
      <3>4. ASSUME NEW j \in 0 .. size[b] - 1
            PROVE  slot[b][j].val # Empty <=>
                     Dist(FrontIx(b), j, size[b]) < Dist(FrontIx(b), TailIx(b), size[b])
        BY <2>2, <2>3 DEF SlotInv, Occupied
      <3>5. {j \in 0 .. size[b] - 1 :
                Dist(FrontIx(b), j, size[b]) < Dist(FrontIx(b), TailIx(b), size[b])}
              = {j \in 0 .. size[b] - 1 : slot[b][j].val # Empty}
        BY <3>4
      <3>6. Destroyed(b) = {<<b, j>> : j \in {j \in 0 .. size[b] - 1 : slot[b][j].val # Empty}}
        BY <3>3, <3>5
      <3> QED
        BY <3>6
    <2>8. \A s : s \in DestructorVisits <=>
              s \in UNION {{b} \X (0 .. size[b] - 1) : b \in 1 .. allocated}
              /\ slot[s[1]][s[2]].val # Empty
      BY <2>6, <2>7
    <2> QED
      BY <2>8
  <1> QED
    BY <1>1, Invariance, PTL DEF DestructorIsExact

-------------------------------------------------------------------------------
(***************************************************************************)
(* The order of the elements.                                               *)
(***************************************************************************)

\* How many elements a block holds, by its indices.
Fill(b) == Dist(FrontIx(b), TailIx(b), size[b])

\* The elements whose slots the consumer has given back.
Handed == IF pc[C] = "release" THEN Len(received) - 1 ELSE Len(received)

\* From front on, the slots of a block hold the elements that follow number k.
InOrderBy(n, f, t, s, k) ==
    \A i \in 0 .. n - 1 :
        s[i].val # Empty /\ Dist(f, i, n) < Dist(f, t, n) => s[i].val = k + Dist(f, i, n) + 1
InOrder(b, k) == InOrderBy(size[b], FrontIx(b), TailIx(b), slot[b], k)

\* base: the number of the last element before those in a block.  It is what has
\* been handed out for frontBlock, what the blocks before it hold for the others,
\* and the last block in use ends with the last element sent.
Numbers(pos, base) ==
    /\ base[FB] = Handed
    /\ base[TB] + Fill(TB) = sent
    /\ \A b \in Ring :
        /\ pos[b] < pos[TB] => base[NextB(b)] = base[b] + Fill(b)
        /\ pos[b] <= pos[TB] => InOrder(b, base[b]) /\ base[b] + Fill(b) <= sent

\* The element that the producer has constructed but not published.
Pending ==
    /\ pc[P] = "publish" => slot[TB][TailIx(TB)].val = sent + 1
    /\ pc[P] = "publishNext" => slot[call[P].block][TailIx(call[P].block)].val = sent + 1
    /\ pc[P] \in {"link", "publishBlock"} =>
          /\ Fill(call[P].block) = 1
          /\ slot[call[P].block][FrontIx(call[P].block)].val = sent + 1

\* What the consumer has got, and where a peek goes on to the second block.
Given ==
    /\ received \in Seq(Nat) /\ received = [i \in 1 .. Len(received) |-> i]
    /\ peeked # Empty => peeked = Len(received) + 1 /\ Len(received) < sent
    /\ pc[C] = "take" /\ call[C].block # FB => FrontIx(FB) = TailIx(FB)

OrderInv ==
    /\ \E pos \in [Ring -> 0 .. RingSize - 1], base \in [Blocks -> Nat] :
          RingInv(pos) /\ Numbers(pos, base)
    /\ Pending /\ Given

LEMMA OrderPlace ==
  ASSUME Inv, OrderInv
  PROVE  \E pos, base : /\ pos \in [Ring -> 0 .. RingSize - 1] /\ base \in [Blocks -> Nat]
                        /\ PosInv(pos) /\ Numbers(pos, base)
  <1>1. PICK p \in [Ring -> 0 .. RingSize - 1] : PosInv(p)
    BY DEF Inv
  <1>2. PICK q \in [Ring -> 0 .. RingSize - 1], base \in [Blocks -> Nat] :
            RingInv(q) /\ Numbers(q, base)
    BY DEF OrderInv
  <1>3. p = q
    BY <1>1, <1>2, RingUnique DEF Inv, PosInv
  <1> QED
    BY <1>1, <1>2, <1>3

\* A step that leaves the used blocks their elements, whatever becomes of the others.
LEMMA NumbersStay ==
  ASSUME NEW pos, NEW base, Numbers(pos, base), NEW q,
         FB' = FB, TB' = TB, Handed' = Handed, sent' = sent,
         \A b \in Ring' : q[b] <= q[TB] =>
             b \in Ring /\ pos[b] <= pos[TB] /\ (q[b] < q[TB] => pos[b] < pos[TB]),
         \A b \in Ring : pos[b] <= pos[TB] => Fill(b)' = Fill(b) /\ InOrder(b, base[b])',
         \A b \in Ring : pos[b] < pos[TB] => NextB(b)' = NextB(b),
         q \in [Ring' -> 0 .. RingSize' - 1], TB \in Ring'
  PROVE  Numbers(q, base)'
  <1>1. base[FB'] = Handed'
    BY DEF Numbers
  <1>2. Fill(TB)' = Fill(TB)
    <2>1. PICK b : b = TB
      OBVIOUS
    <2>2. Fill(b)' = Fill(b)
      BY <2>1
    <2>3. b = TB'
      BY <2>1
    <2> QED
      BY <2>1, <2>2, <2>3 DEF Fill, FrontIx, TailIx
  <1>3. base[TB'] + Fill(TB)' = sent'
    BY <1>2 DEF Numbers
  <1>4. ASSUME NEW b \in Ring'
        PROVE  /\ q[b] < q[TB'] => base[NextB(b)'] = base[b] + Fill(b)'
               /\ q[b] <= q[TB'] => InOrder(b, base[b])' /\ base[b] + Fill(b)' <= sent'
    <2>1. ASSUME q[b] <= q[TB]
          PROVE  InOrder(b, base[b])' /\ base[b] + Fill(b)' <= sent'
      BY <2>1 DEF Numbers
    <2>2. ASSUME q[b] < q[TB], q[b] <= q[TB]
          PROVE  base[NextB(b)'] = base[b] + Fill(b)'
      BY <2>2 DEF Numbers
    <2>3. q[b] \in Int /\ q[TB] \in Int
      OBVIOUS
    <2> QED
      BY <2>1, <2>2, <2>3
  <1> QED
    BY <1>1, <1>3, <1>4 DEF Numbers


\* The producer's block that is not yet linked or published is another one than
\* those at the two ends.
LEMMA PendingBlock ==
  ASSUME Inv
  PROVE  /\ FB \in Ring /\ FB \in 1 .. allocated /\ FB \in Blocks
         /\ TB \in Ring /\ TB \in 1 .. allocated /\ TB \in Blocks
         /\ pc[P] \in {"writeNext", "publishNext", "publishBlock", "link"} =>
               /\ call[P].block \in 1 .. allocated /\ call[P].block \in Blocks
               /\ call[P].block # FB /\ call[P].block # TB
  <1>1. PICK pos : PosInv(pos)
    BY DEF Inv
  <1>2. TypeInv /\ RingInv(pos) /\ ProducerInv(pos)
    BY <1>1 DEF Inv, PosInv
  <1>3. FB \in Ring /\ TB \in Ring
    BY <1>2 DEF RingInv
  <1>4. CASE pc[P] = "link"
    <2>1. call[P].block = allocated /\ allocated \in Blocks /\ Ring = 1 .. allocated - 1
      BY <1>2, <1>4 DEF ProducerInv, TypeInv, Ring, RingSize
    <2>2. allocated \in Nat /\ allocated \in 1 .. allocated
      BY <2>1, <1>2, RingBlocks DEF Blocks
    <2> QED
      BY <1>2, <1>3, <2>1, <2>2, RingBlocks
  <1>5. CASE pc[P] \in {"writeNext", "publishNext", "publishBlock"}
    <2>1. Advancing /\ Filling
      BY <1>5 DEF Advancing, Filling
    <2>2. call[P].block = NextB(TB) /\ NextB(TB) \in Ring /\ NextB(TB) # FB /\ NextB(TB) # TB
      BY <1>2, <2>1, FillingPlace DEF ProducerInv
    <2> QED
      BY <1>2, <1>3, <1>5, <2>2, RingBlocks
  <1> QED
    BY <1>2, <1>3, <1>4, <1>5, RingBlocks

\* The consumer changes nothing that the producer has pending.
LEMMA PendingStays ==
  ASSUME Inv, Pending, pc'[P] = pc[P], call'[P] = call[P], sent' = sent, TB' = TB,
         \A b \in Blocks : TailIx(b)' = TailIx(b) /\ size'[b] = size[b],
         \A b \in Blocks : b # FB => FrontIx(b)' = FrontIx(b) /\ slot'[b] = slot[b],
         \/ slot'[FB] = slot[FB]
         \/ /\ FrontIx(FB) # TailIx(FB)
            /\ \A i \in 0 .. size[FB] - 1 : i # FrontIx(FB) => slot'[FB][i] = slot[FB][i]
  PROVE  Pending'
  <1>1. CASE pc[P] = "publish"
    <2>1. PICK b : b = TB
      OBVIOUS
    <2>2. b \in 1 .. allocated /\ b \in Blocks
      BY <2>1, PendingBlock
    <2>3. TailIx(b)' = TailIx(b) /\ TailIx(b) \in 0 .. size[b] - 1
      BY <2>2, BlockFacts
    <2>4. slot'[b][TailIx(b)] = slot[b][TailIx(b)]
      BY <2>1, <2>2, <2>3
    <2>5. slot[b][TailIx(b)].val = sent + 1
      BY <1>1, <2>1 DEF Pending
    <2>6. TailIx(TB)' = TailIx(b)'
      BY <2>1 DEF TailIx
    <2> QED
      BY <1>1, <2>1, <2>3, <2>4, <2>5, <2>6 DEF Pending
  <1>2. CASE pc[P] = "publishNext"
    <2>1. PICK b : b = call[P].block
      OBVIOUS
    <2>2. b \in Blocks /\ b # FB
      BY <1>2, <2>1, PendingBlock
    <2>3. TailIx(b)' = TailIx(b) /\ slot'[b] = slot[b]
      BY <2>2
    <2>4. TailIx(call[P].block)' = TailIx(b)'
      BY <2>1 DEF TailIx
    <2> QED
      BY <1>2, <2>1, <2>3, <2>4 DEF Pending
  <1>3. CASE pc[P] \in {"link", "publishBlock"}
    <2>1. PICK b : b = call[P].block
      OBVIOUS
    <2>2. b \in Blocks /\ b # FB
      BY <1>3, <2>1, PendingBlock
    <2>3. TailIx(b)' = TailIx(b) /\ slot'[b] = slot[b] /\ FrontIx(b)' = FrontIx(b) /\ size'[b] = size[b]
      BY <2>2
    <2>4. TailIx(call[P].block)' = TailIx(b)' /\ FrontIx(call[P].block)' = FrontIx(b)'
      BY <2>1 DEF TailIx, FrontIx
    <2>5. Fill(b)' = Fill(b)
      BY <2>3 DEF Fill
    <2>6. Fill(call[P].block)' = Fill(b)'
      BY <2>1 DEF Fill, TailIx, FrontIx
    <2> QED
      BY <1>3, <2>1, <2>3, <2>4, <2>5, <2>6 DEF Pending
  <1>4. CASE pc[P] \notin {"publish", "publishNext", "link", "publishBlock"}
    BY <1>4 DEF Pending
  <1> QED
    BY <1>1, <1>2, <1>3, <1>4

\* A step that stores nothing that is shared.
LEMMA LookOrder ==
  ASSUME Inv, OrderInv, NEW t \in Threads, Looks(t), RingSize' = RingSize,
         UNCHANGED <<size, slot, sent, received>>,
         (pc'[C] = "release") <=> (pc[C] = "release"),
         \/ pc'[P] = pc[P] /\ call'[P] = call[P]
         \/ pc'[P] \notin {"publish", "publishNext", "link", "publishBlock"},
         \/ pc'[C] = pc[C] /\ call'[C] = call[C]
         \/ pc'[C] = "take" => call'[C].block = FB \/ FrontIx(FB) = TailIx(FB),
         \/ peeked' = peeked
         \/ peeked' = Len(received) + 1 /\ Len(received) < sent
  PROVE  OrderInv'
  <1>1. PICK pos, base : /\ pos \in [Ring -> 0 .. RingSize - 1] /\ base \in [Blocks -> Nat]
                         /\ PosInv(pos) /\ Numbers(pos, base)
    BY OrderPlace
  <1>2. MemInv /\ TypeInv /\ RingInv(pos) /\ Pending /\ Given
    BY <1>1 DEF Inv, PosInv, OrderInv
  <1>3. Same
    BY <1>2, TrimSame DEF Looks
  <1>4. RingInv(pos)' /\ Ring' = Ring
    BY <1>2, <1>3, KeepsRing
  <1>5. /\ FB \in Ring /\ FB \in Blocks /\ TB \in Ring /\ TB \in Blocks
        /\ \A b \in Ring : b \in Blocks
    BY <1>2, PendingBlock, RingBlocks
  <1>6. \A b \in Blocks : Fill(b)' = Fill(b) /\ \A k : InOrder(b, k)' <=> InOrder(b, k)
    BY <1>3 DEF Same, Fill, InOrder
  <1>7. Handed' = Handed
    BY DEF Handed
  <1>8. Numbers(pos, base)'
    <2>1. \A b \in Ring : pos[b] <= pos[TB] => Fill(b)' = Fill(b) /\ InOrder(b, base[b])'
      BY <1>1, <1>5, <1>6 DEF Numbers
    <2>2. FB' = FB /\ TB' = TB /\ \A b \in Ring : NextB(b)' = NextB(b)
      BY <1>3, <1>5 DEF Same
    <2> QED
      BY <1>1, <1>4, <1>5, <1>7, <2>1, <2>2, NumbersStay
  <1>9. Pending'
    <2>1. CASE pc'[P] = pc[P] /\ call'[P] = call[P]
      BY <1>2, <1>3, <2>1, PendingStays DEF Same
    <2>2. CASE pc'[P] \notin {"publish", "publishNext", "link", "publishBlock"}
      BY <2>2 DEF Pending
    <2> QED
      BY <2>1, <2>2
  <1>10. Given'
    <2>1. received' \in Seq(Nat) /\ received' = [i \in 1 .. Len(received') |-> i]
      BY <1>2 DEF Given
    <2>2. peeked' # Empty => peeked' = Len(received') + 1 /\ Len(received') < sent'
      BY <1>2 DEF Given
    <2>3. pc'[C] = "take" /\ call'[C].block # FB => FrontIx(FB) = TailIx(FB)
      BY <1>2 DEF Given
    <2>4. FB' = FB /\ FrontIx(FB)' = FrontIx(FB) /\ TailIx(FB)' = TailIx(FB)
      <3>1. PICK b : b = FB
        OBVIOUS
      <3>2. FrontIx(b)' = FrontIx(b) /\ TailIx(b)' = TailIx(b) /\ FB' = b
        BY <3>1, <1>3, <1>5 DEF Same
      <3> QED
        BY <3>1, <3>2 DEF FrontIx, TailIx
    <2> QED
      BY <2>1, <2>2, <2>3, <2>4 DEF Given
  <1> QED
    BY <1>1, <1>4, <1>8, <1>9, <1>10 DEF OrderInv


-------------------------------------------------------------------------------
(***************************************************************************)
(* The steps that store nothing, one by one.                                *)
(***************************************************************************)

LEMMA ProducerLookOrder ==
  ASSUME Inv, OrderInv, Looks(P), pc[P] # "link",
         pc'[P] \notin {"publish", "publishNext", "link", "publishBlock"},
         pc'[C] = pc[C], call'[C] = call[C],
         UNCHANGED <<allocated, size, slot, sent, received, peeked>>
  PROVE  OrderInv'
  <1>1. RingSize' = RingSize
    BY DEF RingSize
  <1> QED
    BY <1>1, Locs, LookOrder

LEMMA EnqueueStartLooks ==
  ASSUME Inv, Enqueue_Start
  PROVE  /\ Looks(P) /\ pc[P] = "idle" /\ pc'[P] \in {"full", "write"}
         /\ pc'[C] = pc[C] /\ call'[C] = call[C]
  <1>1. MemInv /\ TypeInv /\ CallsTyped
    BY DEF Inv, TypeInv
  <1>2. PICK b, l : b = TB /\ l = IF Full(TB, localFront'[TB]) THEN "full" ELSE "write"
    OBVIOUS
  <1>3. PICK op : Begin(P, op, None) /\ Goto(P, l)
    BY <1>2 DEF Enqueue_Start, TB
  <1>4. l \in Labels /\ l \in {"full", "write"} /\ P \in Threads /\ C \in Threads /\ P # C
    BY <1>2, Locs DEF Labels
  <1>5. pc[P] = "idle" /\ pc'[P] = l /\ pc'[C] = pc[C] /\ call'[C] = call[C]
    BY <1>1, <1>3, <1>4, BeginMoves DEF Moves
  <1>7. FrontOf(b) \in Locations /\ Owner(FrontOf(b)) # P
    BY <1>2, <1>4, PendingBlock, Locs, Owners
  <1>8. Fence(P) \/ \E i \in DOMAIN mem[FrontOf(b)] : Load(P, FrontOf(b), i, TRUE)
    BY <1>2 DEF Enqueue_Start, TB
  <1>9. Looks(P)
    BY <1>1, <1>4, <1>7, <1>8, FenceLooks, LoadLooks
  <1> QED
    BY <1>4, <1>5, <1>9

LEMMA EnqueueStartOrder ==
  ASSUME Inv, OrderInv, Enqueue_Start
  PROVE  OrderInv'
  <1>1. UNCHANGED <<allocated, size, slot, sent, received, peeked>>
    BY DEF Enqueue_Start, blockVars, cVars
  <1> QED
    BY <1>1, EnqueueStartLooks, ProducerLookOrder

LEMMA EnqueueFullLooks ==
  ASSUME Inv, Enqueue_Full
  PROVE  /\ Looks(P) /\ pc[P] = "full" /\ pc'[P] \in {"advance", "alloc", "idle"}
         /\ pc'[C] = pc[C] /\ call'[C] = call[C]
  <1>1. MemInv /\ TypeInv /\ CallsTyped /\ P \in Threads /\ C \in Threads /\ P # C
    BY Locs DEF Inv, TypeInv
  <1>2. pc[P] = "full"
    BY DEF Enqueue_Full
  <1>3. PICK i \in DOMAIN mem[FrontBlock] :
            /\ Load(P, FrontBlock, i, BlockAhead(mem[FrontBlock][i].val))
            /\ GoOn(P, "advance") \/ GoOn(P, "alloc") \/ Return(P)
    BY DEF Enqueue_Full
  <1>4. PICK ahead \in BOOLEAN : ahead = BlockAhead(mem[FrontBlock][i].val)
    BY DEF BlockAhead
  <1>5. Looks(P)
    BY <1>1, <1>3, <1>4, Locs, Owners, LoadLooks
  <1>6. /\ pc'[C] = pc[C] /\ call'[C] = call[C]
        /\ pc'[P] \in {"advance", "alloc", "idle"}
    <2>1. "advance" \in Labels /\ "alloc" \in Labels
      BY DEF Labels
    <2> QED
      BY <1>1, <1>3, <2>1, GoOnMoves, ReturnMoves DEF Moves
  <1> QED
    BY <1>2, <1>5, <1>6

LEMMA EnqueueFullOrder ==
  ASSUME Inv, OrderInv, Enqueue_Full
  PROVE  OrderInv'
  <1>1. UNCHANGED <<allocated, size, slot, sent, received, peeked>>
    BY DEF Enqueue_Full, pVars, blockVars, cVars
  <1> QED
    BY <1>1, EnqueueFullLooks, ProducerLookOrder

LEMMA EnqueueAdvanceLooks ==
  ASSUME Inv, Enqueue_Advance
  PROVE  /\ Looks(P) /\ pc[P] = "advance" /\ pc'[P] = "writeNext"
         /\ pc'[C] = pc[C] /\ call'[C] = call[C]
  <1>1. PICK pos : PosInv(pos)
    BY DEF Inv
  <1>2. MemInv /\ TypeInv /\ CallsTyped
    BY DEF Inv, TypeInv
  <1>3. P \in Threads /\ C \in Threads /\ P # C /\ "writeNext" \in Labels
    BY Locs DEF Labels
  <1>4. PICK b : b = NextB(TB)
    OBVIOUS
  <1>5. pc[P] = "advance" /\ GoOnWith(P, "writeNext", b)
    BY <1>4 DEF Enqueue_Advance, NextB, TB
  <1>6. PICK i \in DOMAIN mem[FrontOf(b)] : Load(P, FrontOf(b), i, TRUE)
    BY <1>4 DEF Enqueue_Advance, NextB, TB
  <1>7. b \in 1 .. allocated
    BY <1>1, <1>2, <1>4, RingBlocks DEF PosInv, RingInv
  <1>8. FrontOf(b) \in Locations /\ Owner(FrontOf(b)) # P
    BY <1>3, <1>7, BlockFacts, Owners
  <1>9. pc'[P] = "writeNext" /\ pc'[C] = pc[C] /\ call'[C] = call[C]
    BY <1>2, <1>3, <1>5, GoOnWithMoves DEF Moves
  <1>10. Looks(P)
    BY <1>2, <1>3, <1>6, <1>8, LoadLooks
  <1> QED
    BY <1>5, <1>9, <1>10

LEMMA EnqueueAdvanceOrder ==
  ASSUME Inv, OrderInv, Enqueue_Advance
  PROVE  OrderInv'
  <1>1. UNCHANGED <<allocated, size, slot, sent, received, peeked>>
    BY DEF Enqueue_Advance, blockVars, cVars
  <1> QED
    BY <1>1, EnqueueAdvanceLooks, ProducerLookOrder

\* The producer gives up, or is in size_approx.
LEMMA ProducerStaysOrder ==
  ASSUME Inv, OrderInv, Looks(P), NEW l \in Outside, Moves(P, l),
         pc[P] \in Outside \cup {"alloc"}, UNCHANGED <<slot, pVars, cVars>>
  PROVE  OrderInv'
  <1>1. UNCHANGED <<allocated, size, slot, sent, received, peeked>>
    BY DEF pVars, blockVars, cVars
  <1>2. pc'[P] = l /\ pc'[C] = pc[C] /\ call'[C] = call[C]
    BY Locs DEF Moves
  <1>3. pc[P] # "link" /\ l \notin {"publish", "publishNext", "link", "publishBlock"}
    BY DEF Outside
  <1> QED
    BY <1>1, <1>2, <1>3, ProducerLookOrder

LEMMA EnqueueNoMemoryOrder ==
  ASSUME Inv, OrderInv, Enqueue_NoMemory
  PROVE  OrderInv'
  <1>1. MemInv /\ CallsTyped /\ P \in Threads /\ "idle" \in Outside
    BY Locs DEF Inv, TypeInv, Outside
  <1>2. pc[P] = "alloc" /\ Return(P) /\ UNCHANGED memVars /\ UNCHANGED <<slot, pVars, cVars>>
    BY DEF Enqueue_NoMemory
  <1>3. Looks(P) /\ Moves(P, "idle")
    BY <1>1, <1>2, StillLooks, ReturnMoves
  <1> QED
    BY <1>1, <1>2, <1>3, ProducerStaysOrder

\* size_approx looks, whoever calls it.
LEMMA SizeLooks ==
  ASSUME Inv, NEW t \in Threads, Size_Start(t) \/ Size_Count(t) \/ Size_Follow(t)
  PROVE  /\ Looks(t) /\ pc[t] \in Outside /\ \E l \in Outside : Moves(t, l)
         /\ UNCHANGED <<slot, pVars, cVars>>
  <1>1. PICK pos : PosInv(pos)
    BY DEF Inv
  <1>2. MemInv /\ TypeInv /\ CallsTyped /\ RingInv(pos) /\ ProducerInv(pos) /\ ConsumerInv(pos)
    BY <1>1 DEF Inv, TypeInv, PosInv
  <1>3. /\ P # C /\ t \in {P, C}
        /\ "idle" \in Outside /\ "count" \in Outside /\ "follow" \in Outside
        /\ "idle" \in Labels /\ "count" \in Labels /\ "follow" \in Labels
    BY Locs DEF Outside, Labels
  <1>4. UNCHANGED <<slot, pVars, cVars>>
    BY DEF Size_Start, Size_Count, Size_Follow
  <1>5. CASE Size_Start(t)
    <2>1. PICK i \in DOMAIN mem[FrontBlock] :
            /\ IF t = P THEN Load(P, FrontBlock, i, TRUE) ELSE Fence(C)
            /\ Begin(t, "size_approx", mem[FrontBlock][i].val)
      BY <1>5 DEF Size_Start
    <2>2. Goto(t, "count")
      BY <1>5 DEF Size_Start
    <2>3. Looks(t)
      BY <1>2, <1>3, <2>1, Locs, Owners, FenceLooks, LoadLooks
    <2>4. Moves(t, "count") /\ pc[t] = "idle"
      BY <1>2, <1>3, <2>1, <2>2, BeginMoves
    <2> QED
      BY <1>3, <1>4, <2>3, <2>4
  <1>6. CASE Size_Count(t)
    <2>1. PICK b, loc : b = call[t].block /\ loc = IF t = P THEN FrontOf(b) ELSE TailOf(b)
      OBVIOUS
    <2>2. PICK i \in DOMAIN mem[loc] :
            /\ Load(t, loc, i, FALSE)
            /\ \E r : call' = [call EXCEPT ![t] = [call[t] EXCEPT !.result = r]]
      BY <1>6, <2>1 DEF Size_Count
    <2>3. pc[t] = "count" /\ Goto(t, "follow")
      BY <1>6 DEF Size_Count
    <2>4. b \in Ring
      BY <1>2, <1>3, <2>1, <2>3 DEF ProducerInv, ConsumerInv
    <2>5. loc \in Locations /\ Owner(loc) # t
      BY <1>2, <1>3, <2>1, <2>4, Locs, Owners, RingBlocks
    <2>6. Looks(t)
      BY <1>2, <2>2, <2>5, LoadLooks
    <2>7. Moves(t, "follow")
      BY <1>2, <1>3, <2>2, <2>3, CountMoves
    <2> QED
      BY <1>3, <1>4, <2>3, <2>6, <2>7
  <1>7. CASE Size_Follow(t)
    <2>1. pc[t] = "follow"
      BY <1>7 DEF Size_Follow
    <2>2. PICK loc : loc = NextOf(call[t].block)
      OBVIOUS
    <2>3. PICK i, fenced, c :
            /\ i \in DOMAIN mem[loc] /\ fenced \in BOOLEAN
            /\ \/ t = C /\ Load(C, loc, i, fenced)
               \/ t = P /\ (Fence(P) \/ UNCHANGED memVars)
            /\ Return(t) \/ GoOnWith(t, "count", c)
      <3>1. \E i \in DOMAIN mem[loc] :
              /\ CASE t = C -> Load(C, loc, i, ~ (mem[loc][i].val = call[t].first))
                   [] t = P /\ ~ (mem[loc][i].val = call[t].first) -> Fence(P)
                   [] OTHER -> UNCHANGED memVars
              /\ IF mem[loc][i].val = call[t].first THEN Return(t)
                                                   ELSE GoOnWith(t, "count", mem[loc][i].val)
        BY <1>7, <2>2 DEF Size_Follow
      <3>2. PICK i \in DOMAIN mem[loc] :
              /\ CASE t = C -> Load(C, loc, i, ~ (mem[loc][i].val = call[t].first))
                   [] t = P /\ ~ (mem[loc][i].val = call[t].first) -> Fence(P)
                   [] OTHER -> UNCHANGED memVars
              /\ IF mem[loc][i].val = call[t].first THEN Return(t)
                                                   ELSE GoOnWith(t, "count", mem[loc][i].val)
        BY <3>1
      <3>3. PICK fenced \in BOOLEAN : fenced = ~ (mem[loc][i].val = call[t].first)
        OBVIOUS
      <3>4. \/ t = C /\ Load(C, loc, i, fenced)
            \/ t = P /\ (Fence(P) \/ UNCHANGED memVars)
        BY <1>3, <3>2, <3>3
      <3>5. Return(t) \/ GoOnWith(t, "count", mem[loc][i].val)
        BY <3>2
      <3> QED
        BY <3>4, <3>5
    <2>4. call[t].block \in Ring
      BY <1>2, <1>3, <2>1 DEF ProducerInv, ConsumerInv
    <2>5. loc \in Locations /\ Owner(loc) = P
      BY <1>2, <2>2, <2>4, Locs, Owners, RingBlocks
    <2>6. Looks(t)
      <3>1. CASE t = C /\ Load(C, loc, i, fenced)
        BY <3>1, <1>2, <1>3, <2>3, <2>5, LoadLooks
      <3>2. CASE t = P /\ (Fence(P) \/ UNCHANGED memVars)
        BY <3>2, <1>2, FenceLooks, StillLooks
      <3> QED
        BY <2>3, <3>1, <3>2
    <2>7. Moves(t, "idle") \/ Moves(t, "count")
      BY <1>2, <1>3, <2>3, ReturnMoves, GoOnWithMoves
    <2> QED
      BY <1>3, <1>4, <2>1, <2>6, <2>7
  <1> QED
    BY <1>5, <1>6, <1>7

LEMMA SizeOrder ==
  ASSUME Inv, OrderInv, NEW t \in Threads, Size_Start(t) \/ Size_Count(t) \/ Size_Follow(t)
  PROVE  OrderInv'
  <1>1. Looks(t) /\ pc[t] \in Outside /\ UNCHANGED <<slot, pVars, cVars>>
    BY SizeLooks
  <1>2. PICK l \in Outside : Moves(t, l)
    BY SizeLooks
  <1>3. CASE t = P
    BY <1>1, <1>2, <1>3, ProducerStaysOrder
  <1>4. CASE t = C
    <2>1. pc'[C] = l /\ pc'[P] = pc[P] /\ call'[P] = call[P]
      BY <1>2, <1>4, Locs DEF Moves
    <2>2. UNCHANGED <<allocated, size, slot, sent, received, peeked>>
      BY <1>1 DEF pVars, blockVars, cVars
    <2>3. RingSize' = RingSize /\ pc'[C] # "take" /\ pc'[C] # "release" /\ pc[C] # "release"
      BY <1>1, <1>4, <2>1, <2>2 DEF RingSize, Outside
    <2> QED
      BY <1>1, <1>4, <2>1, <2>2, <2>3, LookOrder
  <1> QED
    BY <1>3, <1>4, Locs


LEMMA ConsumerLookOrder ==
  ASSUME Inv, OrderInv, Looks(C), pc'[P] = pc[P], call'[P] = call[P],
         pc[C] # "release", pc'[C] # "release",
         pc'[C] = "take" => call'[C].block = FB \/ FrontIx(FB) = TailIx(FB),
         UNCHANGED <<allocated, size, slot, sent, received, peeked>>
  PROVE  OrderInv'
  <1>1. RingSize' = RingSize
    BY DEF RingSize
  <1> QED
    BY <1>1, Locs, LookOrder

LEMMA DequeueStartLooks ==
  ASSUME Inv, Dequeue_Start
  PROVE  /\ Looks(C) /\ pc[C] = "idle" /\ pc'[C] \in {"checkTail", "take"}
         /\ pc'[P] = pc[P] /\ call'[P] = call[P] /\ call'[C].block = FB
         /\ pc'[C] = "checkTail" => FrontIx(FB) = localTail'[FB]
  <1>1. MemInv /\ TypeInv /\ CallsTyped
    BY DEF Inv, TypeInv
  <1>2. PICK b, l : b = FB /\ l = IF FrontIx(FB) = localTail'[FB] THEN "checkTail" ELSE "take"
    OBVIOUS
  <1>3. PICK op : Begin(C, op, b) /\ Goto(C, l)
    BY <1>2 DEF Dequeue_Start, FB, FrontIx
  <1>4. l \in Labels /\ l \in {"checkTail", "take"} /\ P \in Threads /\ C \in Threads /\ P # C
    BY <1>2, Locs DEF Labels
  <1>5. /\ pc[C] = "idle" /\ pc'[C] = l /\ call'[C].block = b
        /\ pc'[P] = pc[P] /\ call'[P] = call[P]
    BY <1>1, <1>3, <1>4, BeginMoves DEF Moves
  <1>7. TailOf(b) \in Locations /\ Owner(TailOf(b)) # C
    BY <1>2, <1>4, PendingBlock, Locs, Owners
  <1>8. \/ Fence(C)
        \/ \E i \in DOMAIN mem[TailOf(b)], fenced \in BOOLEAN : Load(C, TailOf(b), i, fenced)
    BY <1>2 DEF Dequeue_Start, FB
  <1>9. Looks(C)
    BY <1>1, <1>4, <1>7, <1>8, FenceLooks, LoadLooks
  <1> QED
    BY <1>2, <1>4, <1>5, <1>9

LEMMA DequeueStartOrder ==
  ASSUME Inv, OrderInv, Dequeue_Start
  PROVE  OrderInv'
  <1>1. UNCHANGED <<allocated, size, slot, sent, received, peeked>>
    BY DEF Dequeue_Start, pVars, blockVars
  <1> QED
    BY <1>1, DequeueStartLooks, ConsumerLookOrder

LEMMA DequeueCheckTailOrder ==
  ASSUME Inv, OrderInv, Dequeue_CheckTail
  PROVE  OrderInv'
  <1>1. MemInv /\ CallsTyped
    BY DEF Inv, TypeInv
  <1>2. P \in Threads /\ C \in Threads /\ P # C /\ "recheck" \in Labels
    BY Locs DEF Labels
  <1>3. pc[C] = "checkTail" /\ UNCHANGED <<allocated, size, slot, sent, received, peeked>>
    BY DEF Dequeue_CheckTail, pVars, blockVars, cVars
  <1>4. PICK i \in DOMAIN mem[TailBlock] :
            /\ Load(C, TailBlock, i, ~ AtTail(mem[TailBlock][i].val))
            /\ Return(C) \/ GoOn(C, "recheck")
    BY DEF Dequeue_CheckTail
  <1>5. PICK fenced \in BOOLEAN : fenced = ~ AtTail(mem[TailBlock][i].val)
    BY DEF AtTail
  <1>6. Looks(C)
    BY <1>1, <1>2, <1>4, <1>5, Locs, Owners, LoadLooks
  <1>7. pc'[P] = pc[P] /\ call'[P] = call[P] /\ pc'[C] \in {"idle", "recheck"}
    BY <1>1, <1>2, <1>4, GoOnMoves, ReturnMoves DEF Moves
  <1> QED
    BY <1>3, <1>6, <1>7, ConsumerLookOrder

LEMMA DequeueRecheckOrder ==
  ASSUME Inv, OrderInv, Dequeue_Recheck
  PROVE  OrderInv'
  <1>1. PICK pos : PosInv(pos)
    BY DEF Inv
  <1>2. MemInv /\ TypeInv /\ CallsTyped /\ ConsumerInv(pos)
    BY <1>1 DEF Inv, TypeInv, PosInv
  <1>3. P \in Threads /\ C \in Threads /\ P # C
    BY Locs
  <1>4. pc[C] = "recheck" /\ UNCHANGED <<allocated, size, slot, sent, received, peeked>>
    BY DEF Dequeue_Recheck, pVars, blockVars
  <1>5. PICK b, l : b = FB /\ l = IF FrontIx(FB) # localTail'[FB] THEN "take" ELSE "readNext"
    OBVIOUS
  <1>6. GoOn(C, l) /\ l \in Labels /\ l \in {"take", "readNext"}
    BY <1>5 DEF Dequeue_Recheck, AfterRecheck, FB, FrontIx, Labels
  <1>7. PICK i \in DOMAIN mem[TailOf(b)] : Load(C, TailOf(b), i, TRUE)
    BY <1>5 DEF Dequeue_Recheck, FB
  <1>8. TailOf(b) \in Locations /\ Owner(TailOf(b)) # C
    BY <1>3, <1>5, PendingBlock, Locs, Owners
  <1>9. Looks(C)
    BY <1>2, <1>3, <1>7, <1>8, LoadLooks
  <1>10. pc'[C] = l /\ pc'[P] = pc[P] /\ call' = call
    BY <1>2, <1>3, <1>6, GoOnMoves DEF Moves
  <1>11. call[C].block = FB
    BY <1>2, <1>4 DEF ConsumerInv
  <1> QED
    BY <1>4, <1>6, <1>9, <1>10, <1>11, ConsumerLookOrder

LEMMA DequeueReadNextOrder ==
  ASSUME Inv, OrderInv, Dequeue_ReadNext
  PROVE  OrderInv'
  <1>1. MemInv /\ TypeInv /\ CallsTyped
    BY DEF Inv, TypeInv
  <1>2. P \in Threads /\ C \in Threads /\ P # C /\ "checkNext" \in Labels
    BY Locs DEF Labels
  <1>3. pc[C] = "readNext" /\ UNCHANGED <<allocated, size, slot, sent, received, peeked>>
    BY DEF Dequeue_ReadNext, pVars, blockVars, cVars
  <1>4. PICK loc : loc = NextOf(FB)
    OBVIOUS
  <1>5. PICK i \in DOMAIN mem[loc] :
            Load(C, loc, i, FALSE) /\ GoOnWith(C, "checkNext", mem[loc][i].val)
    BY <1>4 DEF Dequeue_ReadNext, FB
  <1>6. loc \in Locations /\ Owner(loc) # C
    BY <1>2, <1>4, PendingBlock, Locs, Owners
  <1>7. Looks(C)
    BY <1>1, <1>2, <1>5, <1>6, LoadLooks
  <1>8. pc'[C] = "checkNext" /\ pc'[P] = pc[P] /\ call'[P] = call[P]
    BY <1>1, <1>2, <1>5, GoOnWithMoves DEF Moves
  <1> QED
    BY <1>3, <1>7, <1>8, ConsumerLookOrder

LEMMA DequeueCheckNextOrder ==
  ASSUME Inv, OrderInv, Dequeue_CheckNext
  PROVE  OrderInv'
  <1>1. PICK pos : PosInv(pos)
    BY DEF Inv
  <1>2. MemInv /\ TypeInv /\ CallsTyped /\ ConsumerInv(pos)
    BY <1>1 DEF Inv, TypeInv, PosInv
  <1>3. P \in Threads /\ C \in Threads /\ P # C /\ "take" \in Labels /\ "moveFront" \in Labels
    BY Locs DEF Labels
  <1>4. pc[C] = "checkNext" /\ UNCHANGED <<allocated, size, slot, sent, received, peeked>>
    BY DEF Dequeue_CheckNext, pVars, blockVars
  <1>5. FrontIx(FB) = TailIx(FB)
    BY <1>2, <1>4 DEF ConsumerInv
  <1>6. PICK loc : loc = TailOf(call[C].block)
    OBVIOUS
  <1>7. loc \in Locations /\ Owner(loc) # C
    BY <1>3, <1>4, <1>6, CallBlock, Locs, Owners
  <1>8. /\ Fence(C) \/ \E i \in DOMAIN mem[loc] : Load(C, loc, i, TRUE)
        /\ GoOn(C, "take") \/ GoOn(C, "moveFront")
    BY <1>6 DEF Dequeue_CheckNext
  <1>9. Looks(C)
    BY <1>2, <1>3, <1>7, <1>8, FenceLooks, LoadLooks
  <1>10. pc'[C] \in {"take", "moveFront"} /\ pc'[P] = pc[P] /\ call'[P] = call[P]
    BY <1>2, <1>3, <1>8, GoOnMoves DEF Moves
  <1> QED
    BY <1>4, <1>5, <1>9, <1>10, ConsumerLookOrder

-------------------------------------------------------------------------------
(***************************************************************************)
(* The steps that write a slot.                                             *)
(***************************************************************************)

\* A block whose slot k is written: if it is empty afterwards, or is not among
\* those that hold elements, the order of the block stays.
LEMMA SlotOrder ==
  ASSUME NEW n \in Nat, NEW f, NEW t, NEW s, NEW r, NEW k, NEW j, InOrderBy(n, f, t, s, k),
         \A i \in 0 .. n - 1 : i # j => r[i] = s[i],
         r[j].val = Empty \/ ~ (Dist(f, j, n) < Dist(f, t, n))
  PROVE  InOrderBy(n, f, t, r, k)
  BY DEF InOrderBy

LEMMA EnqueueWriteOrder ==
  ASSUME Inv, OrderInv, Enqueue_Write \/ Enqueue_WriteNext
  PROVE  OrderInv'
  <1>1. PICK pos, base : /\ pos \in [Ring -> 0 .. RingSize - 1] /\ base \in [Blocks -> Nat]
                         /\ PosInv(pos) /\ Numbers(pos, base)
    BY OrderPlace
  <1>2. /\ MemInv /\ TypeInv /\ SlotInv /\ CallsTyped /\ RingInv(pos) /\ ProducerInv(pos)
        /\ Pending /\ Given
    BY <1>1 DEF Inv, TypeInv, PosInv, OrderInv
  <1>3. P \in Threads /\ C \in Threads /\ P # C /\ "publish" \in Labels /\ "publishNext" \in Labels
    BY Locs DEF Labels
  <1>4. PICK b, k, r, l :
            /\ b = IF pc[P] = "write" THEN TB ELSE call[P].block
            /\ k = TailIx(b)
            /\ r = [val |-> sent + 1, by |-> P, at |-> epoch[P]]
            /\ l = IF pc[P] = "write" THEN "publish" ELSE "publishNext"
    OBVIOUS
  <1>5. /\ pc[P] \in {"write", "writeNext"} /\ GoOn(P, l) /\ UNCHANGED <<memVars, pVars, cVars>>
        /\ slot' = [slot EXCEPT ![b] = [slot[b] EXCEPT ![k] = r]]
    BY <1>4 DEF Enqueue_Write, Enqueue_WriteNext, Construct, TailIx, TB
  <1>6. UNCHANGED <<memVars, allocated, size, sent, received, peeked>>
    BY <1>5 DEF pVars, blockVars, cVars
  <1>7. pc'[P] = l /\ pc'[C] = pc[C] /\ call' = call
    BY <1>2, <1>3, <1>4, <1>5, GoOnMoves DEF Moves
  <1>8. b \in 1 .. allocated /\ b \in Blocks
    BY <1>4, <1>5, PendingBlock
  <1>9. k \in 0 .. size[b] - 1
    BY <1>4, <1>8, BlockFacts
  <1>10. /\ slot'[b][k] = r /\ \A c \in Blocks : c # b => slot'[c] = slot[c]
         /\ \A i \in 0 .. size[b] - 1 : i # k => slot'[b][i] = slot[b][i]
    <2>1. DOMAIN slot = Blocks /\ DOMAIN slot[b] = 0 .. size[b] - 1
      BY <1>2, <1>8 DEF TypeInv, SlotInv
    <2> QED
      BY <2>1, <1>5, <1>8, <1>9
  <1>11. Same /\ RingSize' = RingSize
    BY <1>4, <1>5, <1>6, <1>7 DEF Same, FB, TB, FrontIx, TailIx, NextB, Newest, memVars, RingSize
  <1>12. RingInv(pos)' /\ Ring' = Ring
    BY <1>2, <1>11, KeepsRing
  <1>13. TB \in Ring /\ \A c \in Ring : c \in Blocks /\ c \in 1 .. allocated
    BY <1>2, RingBlocks DEF RingInv
  <1>14. ASSUME NEW c \in Ring, pos[c] <= pos[TB]
         PROVE  Fill(c)' = Fill(c) /\ InOrder(c, base[c])'
    <2>1. /\ c \in Blocks /\ FrontIx(c)' = FrontIx(c) /\ TailIx(c)' = TailIx(c)
          /\ size'[c] = size[c]
      BY <1>6, <1>11, <1>13 DEF Same
    <2>2. PICK n, f, t, s, u : /\ n = size[c] /\ f = FrontIx(c) /\ t = TailIx(c)
                               /\ s = slot[c] /\ u = slot'[c]
      OBVIOUS
    <2>3. InOrderBy(n, f, t, s, base[c]) /\ n \in Nat
      BY <1>1, <1>13, <1>14, <2>2, BlockFacts DEF Numbers, InOrder
    <2>4. InOrderBy(n, f, t, u, base[c])
      <3>1. CASE c = b
        <4>1. k = t /\ \A i \in 0 .. n - 1 : i # k => u[i] = s[i]
          BY <1>4, <1>10, <2>2, <3>1
        <4>2. t \in 0 .. n - 1 /\ f \in 0 .. n - 1
          BY <1>13, <2>2, BlockFacts
        <4>3. ~ (Dist(f, k, n) < Dist(f, t, n))
          <5>1. Dist(f, t, n) \in Nat
            BY <2>3, <4>2, DistNat
          <5> QED
            BY <4>1, <5>1
        <4> QED
          BY <2>3, <4>1, <4>3, SlotOrder
      <3>2. CASE c # b
        BY <1>10, <2>1, <2>2, <2>3, <3>2
      <3> QED
        BY <3>1, <3>2
    <2> QED
      BY <2>1, <2>2, <2>4 DEF InOrder, Fill
  <1>15. Numbers(pos, base)'
    <2>1. Handed' = Handed
      BY <1>6, <1>7 DEF Handed
    <2>2. FB' = FB /\ TB' = TB /\ \A c \in Ring : NextB(c)' = NextB(c)
      BY <1>11, <1>13 DEF Same
    <2> QED
      BY <1>1, <1>6, <1>11, <1>12, <1>13, <1>14, <2>1, <2>2, NumbersStay
  <1>16. Pending'
    <2>1. TailIx(b)' = k
      BY <1>4, <1>8, <1>11 DEF Same
    <2>2. slot'[b][k].val = sent' + 1
      BY <1>4, <1>6, <1>10
    <2>3. CASE pc[P] = "write"
      <3>1. TB' = b /\ pc'[P] = "publish"
        BY <1>4, <1>7, <1>11, <2>3 DEF Same
      <3>2. TailIx(TB)' = k
        BY <2>1, <3>1 DEF TailIx
      <3> QED
        BY <2>2, <3>1, <3>2 DEF Pending
    <2>4. CASE pc[P] = "writeNext"
      <3>1. call'[P].block = b /\ pc'[P] = "publishNext"
        BY <1>4, <1>7, <2>4
      <3>2. TailIx(call[P].block)' = k
        BY <2>1, <3>1 DEF TailIx
      <3> QED
        BY <2>2, <3>1, <3>2 DEF Pending
    <2> QED
      BY <1>5, <2>3, <2>4
  <1>17. Given'
    <2>1. FB' = FB /\ FrontIx(FB)' = FrontIx(FB) /\ TailIx(FB)' = TailIx(FB)
      BY <1>6 DEF FB, FrontIx, TailIx, Newest, memVars
    <2> QED
      BY <2>1, <1>2, <1>6, <1>7 DEF Given
  <1> QED
    BY <1>1, <1>11, <1>12, <1>15, <1>16, <1>17 DEF OrderInv


\* The next element is the one that the consumer is about to take, or to show.
LEMMA TakenElement ==
  ASSUME Inv, OrderInv, pc[C] = "take"
  PROVE  /\ slot[call[C].block][FrontIx(call[C].block)].val = Len(received) + 1
         /\ Len(received) \in Nat /\ Len(received) < sent
  <1>1. PICK pos, base : /\ pos \in [Ring -> 0 .. RingSize - 1] /\ base \in [Blocks -> Nat]
                         /\ PosInv(pos) /\ Numbers(pos, base)
    BY OrderPlace
  <1>2. /\ MemInv /\ TypeInv /\ IndexInv /\ SlotInv /\ RingInv(pos) /\ ConsumerInv(pos) /\ Given
    BY <1>1 DEF Inv, PosInv, OrderInv
  <1>3. PICK b, n, f, t, a : /\ b = call[C].block /\ n = size[b] /\ f = FrontIx(b) /\ t = TailIx(b)
                             /\ a = FB
    OBVIOUS
  <1>4. b \in Ring /\ b \in 1 .. allocated /\ b \in Blocks /\ f # t
    BY <1>1, <1>2, <1>3, CallBlock, FrontNotEmpty
  <1>5. n \in Nat /\ f \in 0 .. n - 1 /\ t \in 0 .. n - 1
    BY <1>3, <1>4, BlockFacts
  <1>6. Dist(f, f, n) = 0 /\ Dist(f, t, n) \in Nat /\ Dist(f, t, n) > 0
    <2>1. Dist(f, t, n) \in Nat /\ Dist(f, t, n) # 0 /\ Dist(f, f, n) = 0
      BY <1>4, <1>5, DistNat
    <2> QED
      BY <2>1
  <1>7. a \in Ring /\ a \in Blocks /\ a \in 1 .. allocated /\ TB \in Ring
        /\ pos[a] = 0 /\ pos[TB] \in Nat /\ pos[b] \in Nat
    BY <1>2, <1>3, <1>4, PendingBlock DEF RingInv
  <1>8. Len(received) \in Nat /\ base[a] = Len(received) /\ base[b] \in Nat /\ sent \in Nat
    <2>1. base[a] = Len(received)
      BY <1>1, <1>3 DEF Numbers, Handed
    <2> QED
      BY <2>1, <1>1, <1>2, <1>4, <1>7 DEF TypeInv
  <1>9. pos[b] <= pos[TB] /\ base[b] = Len(received)
    <2>1. CASE b = a
      BY <2>1, <1>7, <1>8
    <2>2. CASE b # a
      <3>1. pos[b] = 1 /\ pos[TB] > 0
        BY <2>2, <1>2, <1>3 DEF ConsumerInv
      <3>2. FrontIx(a) = TailIx(a)
        BY <2>2, <1>2, <1>3 DEF Given
      <3>3. Fill(a) = 0
        <4>1. size[a] \in Nat /\ FrontIx(a) \in 0 .. size[a] - 1 /\ TailIx(a) \in 0 .. size[a] - 1
          BY <1>7, BlockFacts
        <4> QED
          BY <3>2, <4>1, DistNat DEF Fill
      <3>4. base[NextB(a)] = base[a] + 0
        <4>1. pos[a] < pos[TB]
          BY <3>1, <1>7
        <4> QED
          BY <3>3, <4>1, <1>1, <1>7 DEF Numbers
      <3>5. NextB(a) = b
        <4>1. NextB(a) \in Ring /\ pos[NextB(a)] = IF pos[a] = RingSize - 1 THEN 0 ELSE pos[a] + 1
          BY <1>2, <1>7 DEF RingInv
        <4>2. RingSize \in Nat /\ pos[b] <= RingSize - 1
          BY <1>1, <1>2, <1>4, RingBlocks
        <4>3. pos[NextB(a)] = 1
          BY <3>1, <4>1, <4>2, <1>7
        <4>4. \A c, d \in Ring : pos[c] = pos[d] => c = d
          BY <1>2 DEF RingInv
        <4> QED
          BY <3>1, <4>1, <4>3, <4>4, <1>4
      <3> QED
        BY <3>1, <3>4, <3>5, <1>7, <1>8
    <2> QED
      BY <2>1, <2>2
  <1>10. slot[b][f].val # Empty
    BY <1>2, <1>3, <1>4, <1>5, <1>6 DEF SlotInv, Occupied
  <1>11. InOrderBy(n, f, t, slot[b], base[b]) /\ base[b] + Dist(f, t, n) <= sent
    BY <1>1, <1>3, <1>4, <1>9 DEF Numbers, InOrder, Fill
  <1>12. slot[b][f].val = base[b] + 0 + 1
    BY <1>5, <1>6, <1>10, <1>11 DEF InOrderBy
  <1>13. slot[b][f].val = Len(received) + 1
    BY <1>8, <1>9, <1>12
  <1>14. Len(received) < sent
    BY <1>6, <1>8, <1>9, <1>11
  <1> QED
    BY <1>3, <1>8, <1>13, <1>14

\* Taking the next number keeps the count.
LEMMA CountUp ==
  ASSUME NEW s \in Seq(Nat), s = [i \in 1 .. Len(s) |-> i]
  PROVE  LET t == Append(s, Len(s) + 1) IN
         t \in Seq(Nat) /\ Len(t) = Len(s) + 1 /\ t = [i \in 1 .. Len(t) |-> i]
  <1> DEFINE t == Append(s, Len(s) + 1)
             n == Len(s) + 1
  <1>1. Len(s) \in Nat /\ n \in Nat
    BY LenProperties
  <1>2. /\ t \in Seq(Nat) /\ Len(t) = n /\ t[n] = n
        /\ \A i \in 1 .. Len(s) : t[i] = s[i]
    BY <1>1, AppendProperties
  <1>3. t = [i \in 1 .. n |-> t[i]]
    BY <1>2, LenProperties
  <1>4. \A i \in 1 .. Len(s) : s[i] = i
    <2>1. PICK m : m = Len(s)
      OBVIOUS
    <2>2. s = [i \in 1 .. m |-> i]
      BY <2>1
    <2> QED
      BY <2>1, <2>2
  <1>5. \A i \in 1 .. n : t[i] = i
    BY <1>1, <1>2, <1>4
  <1> HIDE DEF t, n
  <1>6. t = [i \in 1 .. n |-> i]
    BY <1>3, <1>5
  <1> QED
    BY <1>2, <1>6 DEF t, n

LEMMA DequeueTakeOrder ==
  ASSUME Inv, OrderInv, Dequeue_Take
  PROVE  OrderInv'
  <1>1. PICK pos, base : /\ pos \in [Ring -> 0 .. RingSize - 1] /\ base \in [Blocks -> Nat]
                         /\ PosInv(pos) /\ Numbers(pos, base)
    BY OrderPlace
  <1>2. /\ MemInv /\ TypeInv /\ IndexInv /\ SlotInv /\ CallsTyped /\ RingInv(pos) /\ ConsumerInv(pos)
        /\ Pending /\ Given
    BY <1>1 DEF Inv, TypeInv, PosInv, OrderInv
  <1>3. P \in Threads /\ C \in Threads /\ P # C /\ "release" \in Labels
    BY Locs DEF Labels
  <1>4. pc[C] = "take" /\ UNCHANGED <<memVars, allocated, size, sent>>
    BY DEF Dequeue_Take, pVars, blockVars
  <1>5. PICK b, f, m : b = call[C].block /\ f = FrontIx(b) /\ m = Len(received)
    OBVIOUS
  <1>6. slot[b][f].val = m + 1 /\ m \in Nat /\ m < sent
    BY <1>4, <1>5, TakenElement
  <1>7. CASE call[C].op = "peek"
    <2>1. Return(C) /\ UNCHANGED <<slot, received>> /\ peeked' = slot[b][f].val
      BY <1>5, <1>7 DEF Dequeue_Take, FrontIx
    <2>2. pc'[C] = "idle" /\ pc'[P] = pc[P] /\ call'[P] = call[P]
      BY <1>2, <1>3, <2>1, ReturnMoves DEF Moves
    <2>3. Looks(C)
      BY <1>2, <1>3, <1>4, StillLooks
    <2>4. RingSize' = RingSize
      BY <1>4, <2>2 DEF RingSize
    <2> QED
      BY <1>3, <1>4, <1>5, <1>6, <2>1, <2>2, <2>3, <2>4, LookOrder
  <1>8. CASE call[C].op # "peek"
    <2>1. PICK r : r = [val |-> Empty, by |-> C, at |-> epoch[C]]
      OBVIOUS
    <2>2. /\ GoOn(C, "release") /\ slot' = [slot EXCEPT ![b] = [slot[b] EXCEPT ![f] = r]]
          /\ received' = Append(received, slot[b][f].val) /\ peeked' = Empty
      BY <1>5, <1>8, <2>1 DEF Dequeue_Take, FrontIx
    <2>3. pc'[C] = "release" /\ pc'[P] = pc[P] /\ call' = call
      BY <1>2, <1>3, <2>2, GoOnMoves DEF Moves
    <2>4. b = FB /\ b \in Ring /\ b \in 1 .. allocated /\ b \in Blocks /\ f # TailIx(b)
      BY <1>1, <1>2, <1>4, <1>5, <1>8, CallBlock, FrontNotEmpty DEF ConsumerInv
    <2>5. f \in 0 .. size[b] - 1 /\ size[b] \in Nat
      BY <1>5, <2>4, BlockFacts
    <2>6. /\ slot'[b][f] = r /\ \A c \in Blocks : c # b => slot'[c] = slot[c]
          /\ \A i \in 0 .. size[b] - 1 : i # f => slot'[b][i] = slot[b][i]
      <3>1. DOMAIN slot = Blocks /\ DOMAIN slot[b] = 0 .. size[b] - 1
        BY <1>2, <2>4 DEF TypeInv, SlotInv
      <3> QED
        BY <3>1, <2>2, <2>4, <2>5
    <2>7. Same /\ RingSize' = RingSize
      BY <1>4, <2>3 DEF Same, FB, TB, FrontIx, TailIx, NextB, Newest, memVars, RingSize
    <2>8. RingInv(pos)' /\ Ring' = Ring
      BY <1>2, <2>7, KeepsRing
    <2>9. TB \in Ring /\ \A c \in Ring : c \in Blocks /\ c \in 1 .. allocated
      BY <1>2, RingBlocks DEF RingInv
    <2>10. ASSUME NEW c \in Ring, pos[c] <= pos[TB]
           PROVE  Fill(c)' = Fill(c) /\ InOrder(c, base[c])'
      <3>1. /\ c \in Blocks /\ FrontIx(c)' = FrontIx(c) /\ TailIx(c)' = TailIx(c)
            /\ size'[c] = size[c]
        BY <1>4, <2>7, <2>9 DEF Same
      <3>2. PICK n, x, t, s, u : /\ n = size[c] /\ x = FrontIx(c) /\ t = TailIx(c)
                                 /\ s = slot[c] /\ u = slot'[c]
        OBVIOUS
      <3>3. InOrderBy(n, x, t, s, base[c]) /\ n \in Nat
        BY <1>1, <2>9, <2>10, <3>2, BlockFacts DEF Numbers, InOrder
      <3>4. InOrderBy(n, x, t, u, base[c])
        <4>1. CASE c = b
          <5>1. u[f].val = Empty /\ \A i \in 0 .. n - 1 : i # f => u[i] = s[i]
            BY <2>1, <2>6, <3>2, <4>1
          <5> QED
            BY <3>3, <5>1, SlotOrder
        <4>2. CASE c # b
          BY <2>6, <3>1, <3>2, <3>3, <4>2
        <4> QED
          BY <4>1, <4>2
      <3> QED
        BY <3>1, <3>2, <3>4 DEF InOrder, Fill
    <2>11. /\ received' \in Seq(Nat) /\ Len(received') = m + 1
           /\ received' = [i \in 1 .. Len(received') |-> i]
      <3>1. received' = Append(received, m + 1)
        BY <1>6, <2>2
      <3> QED
        BY <3>1, <1>2, <1>5, CountUp DEF Given
    <2>12. Numbers(pos, base)'
      <3>1. Handed' = Handed
        BY <1>4, <1>5, <1>6, <2>3, <2>11 DEF Handed
      <3>2. FB' = FB /\ TB' = TB /\ \A c \in Ring : NextB(c)' = NextB(c)
        BY <2>7, <2>9 DEF Same
      <3> QED
        BY <1>1, <1>4, <2>7, <2>8, <2>9, <2>10, <3>1, <3>2, NumbersStay
    <2>13. Pending'
      <3>1. \A c \in Blocks : c # FB => FrontIx(c)' = FrontIx(c) /\ slot'[c] = slot[c]
        BY <2>4, <2>6, <2>7 DEF Same
      <3>2. \A c \in Blocks : TailIx(c)' = TailIx(c) /\ size'[c] = size[c]
        BY <1>4, <2>7 DEF Same
      <3>3. /\ FrontIx(FB) # TailIx(FB)
            /\ \A i \in 0 .. size[FB] - 1 : i # FrontIx(FB) => slot'[FB][i] = slot[FB][i]
        BY <1>5, <2>4, <2>6
      <3> QED
        BY <1>2, <1>4, <2>3, <2>7, <3>1, <3>2, <3>3, PendingStays DEF Same
    <2>14. Given'
      BY <2>2, <2>3, <2>11 DEF Given
    <2> QED
      BY <1>1, <2>7, <2>8, <2>12, <2>13, <2>14 DEF OrderInv
  <1> QED
    BY <1>7, <1>8


-------------------------------------------------------------------------------
(***************************************************************************)
(* The steps that store.                                                    *)
(***************************************************************************)

\* The tail of a block moves over the slot of the next element.
LEMMA TailOrder ==
  ASSUME NEW n \in Nat, NEW f \in 0 .. n - 1, NEW t \in 0 .. n - 1, NEW u \in 0 .. n - 1,
         NEW s, NEW k \in Nat, InOrderBy(n, f, t, s, k),
         Dist(f, u, n) = Dist(f, t, n) + 1, s[t].val = k + Dist(f, t, n) + 1
  PROVE  InOrderBy(n, f, u, s, k)
  <1>1. ASSUME NEW i \in 0 .. n - 1, s[i].val # Empty, Dist(f, i, n) < Dist(f, u, n)
        PROVE  s[i].val = k + Dist(f, i, n) + 1
    <2>1. CASE i = t
      BY <2>1
    <2>2. CASE i # t
      <3>1. Dist(f, i, n) \in Nat /\ Dist(f, t, n) \in Nat /\ Dist(f, i, n) # Dist(f, t, n)
        BY <2>2, DistNat, DistEqual
      <3>2. Dist(f, i, n) < Dist(f, t, n)
        BY <1>1, <3>1
      <3> QED
        BY <1>1, <3>2 DEF InOrderBy
    <2> QED
      BY <2>1, <2>2
  <1> QED
    BY <1>1 DEF InOrderBy

\* The front of a block moves over a slot that was emptied.
LEMMA FrontOrder ==
  ASSUME NEW n \in Nat, n >= 2, NEW f \in 0 .. n - 1, NEW t \in 0 .. n - 1, NEW v,
         v = (IF f + 1 = n THEN 0 ELSE f + 1), f # t,
         NEW s, NEW k \in Nat, InOrderBy(n, f, t, s, k), s[f].val = Empty
  PROVE  InOrderBy(n, v, t, s, k + 1)
  <1>1. ASSUME NEW i \in 0 .. n - 1, s[i].val # Empty, Dist(v, i, n) < Dist(v, t, n)
        PROVE  s[i].val = (k + 1) + Dist(v, i, n) + 1
    <2>1. i # f
      BY <1>1
    <2>2. v \in 0 .. n - 1 /\ Dist(v, i, n) = Dist(f, i, n) - 1 /\ Dist(v, t, n) = Dist(f, t, n) - 1
      BY <2>1, FrontDist
    <2>3. Dist(f, i, n) \in Nat /\ Dist(f, t, n) \in Nat
      BY DistNat
    <2>4. Dist(f, i, n) < Dist(f, t, n)
      BY <1>1, <2>2, <2>3
    <2>5. s[i].val = k + Dist(f, i, n) + 1
      BY <1>1, <2>4 DEF InOrderBy
    <2> QED
      BY <2>2, <2>3, <2>5
  <1> QED
    BY <1>1 DEF InOrderBy

\* What a store to tail changes.
LEMMA TailMoves ==
  ASSUME Inv, Enqueue_Publish \/ Enqueue_PublishNext,
         NEW b, b = IF pc[P] = "publish" THEN TB ELSE call[P].block
  PROVE  /\ b \in Ring /\ b \in 1 .. allocated /\ b \in Blocks
         /\ FB' = FB /\ TB' = TB /\ RingSize' = RingSize
         /\ \A c \in Blocks : /\ FrontIx(c)' = FrontIx(c) /\ NextB(c)' = NextB(c)
                              /\ c # b => TailIx(c)' = TailIx(c)
         /\ TailIx(b)' \in 0 .. size[b] - 1
         /\ Fill(b)' = Fill(b) + 1
         /\ UNCHANGED <<allocated, size, slot, received, peeked>>
         /\ pc'[C] = pc[C] /\ call'[C] = call[C]
         /\ pc[P] = "publish" => pc'[P] = "idle" /\ sent' = sent + 1
         /\ pc[P] = "publishNext" => pc'[P] = "publishBlock" /\ call'[P] = call[P] /\ sent' = sent
  <1>1. PICK pos : PosInv(pos)
    BY DEF Inv
  <1>2. /\ MemInv /\ TypeInv /\ IndexInv /\ CallsTyped /\ RingInv(pos)
        /\ EmptyInv(pos) /\ ProducerInv(pos)
    BY <1>1 DEF Inv, TypeInv, PosInv
  <1>3. P \in Threads /\ C \in Threads /\ P # C /\ "publishBlock" \in Labels
    BY Locs DEF Labels
  <1>4. PICK v, n : v = (TailIx(b) + 1) % size[b] /\ n = size[b]
    OBVIOUS
  <1>5. /\ pc[P] \in {"publish", "publishNext"}
        /\ UNCHANGED <<allocated, size, slot, localFront, localTail, received, peeked>>
    BY DEF Enqueue_Publish, Enqueue_PublishNext, pVars, blockVars, cVars
  <1>6. b \in Ring /\ b \in 1 .. allocated /\ b \in Blocks
    <2>1. TB \in Ring /\ NextB(TB) \in Ring
      BY <1>2 DEF RingInv
    <2>2. b \in Ring
      BY <1>2, <1>5, <2>1 DEF ProducerInv, Filling
    <2> QED
      BY <1>2, <2>2, RingBlocks
  <1>7. /\ n \in Nat /\ n >= 2 /\ TailIx(b) \in 0 .. n - 1 /\ FrontIx(b) \in 0 .. n - 1
        /\ BlockInv(b)
    BY <1>4, <1>6, BlockFacts
  <1>8. v \in 0 .. n - 1 /\ v \in Nat
    BY <1>4, <1>7
  <1>9. TailOf(b) \in Locations /\ Owner(TailOf(b)) = P
    BY <1>6, Locs, Owners
  <1>10. Stored(TailOf(b), v)
    <2>1. CASE pc[P] = "publish"
      <3>1. StoreReleased(P, TailOf(b), v)
        BY <1>4, <2>1 DEF Enqueue_Publish, Enqueue_PublishNext, Succ, TB, TailIx
      <3> QED
        BY <3>1, <1>2, <1>3, <1>8, <1>9, ReleasedStores DEF Stored
    <2>2. CASE pc[P] = "publishNext"
      <3>1. Store(P, TailOf(b), v)
        BY <1>4, <2>2 DEF Enqueue_Publish, Enqueue_PublishNext, Succ, TB, TailIx
      <3> QED
        BY <3>1, <1>2, <1>3, <1>8, <1>9, StoreStores DEF Stored
    <2> QED
      BY <1>5, <2>1, <2>2
  <1>11. /\ CallsTyped' /\ pc'[C] = pc[C] /\ call'[C] = call[C]
         /\ pc[P] = "publish" => pc'[P] = "idle" /\ sent' = sent + 1
         /\ pc[P] = "publishNext" => pc'[P] = "publishBlock" /\ call'[P] = call[P] /\ sent' = sent
    <2>1. CASE pc[P] = "publish"
      <3>1. Return(P) /\ sent' = sent + 1
        BY <2>1 DEF Enqueue_Publish, Enqueue_PublishNext
      <3> QED
        BY <3>1, <1>2, <1>3, <2>1, ReturnMoves DEF Moves
    <2>2. CASE pc[P] = "publishNext"
      <3>1. GoOn(P, "publishBlock") /\ sent' = sent
        BY <2>2 DEF Enqueue_Publish, Enqueue_PublishNext, pVars
      <3> QED
        BY <3>1, <1>2, <1>3, <2>2, GoOnMoves DEF Moves
    <2> QED
      BY <1>5, <2>1, <2>2
  <1>12. v # localFront[b]
    <2>1. CASE pc[P] = "publish"
      BY <2>1, <1>2, <1>4 DEF ProducerInv
    <2>2. CASE pc[P] = "publishNext"
      <3>1. Advancing /\ Filling
        BY <2>2 DEF Advancing, Filling
      <3>2. b = NextB(TB) /\ localFront[b] = FrontIx(b)
        BY <1>2, <2>2, <3>1 DEF ProducerInv
      <3>3. pos[b] > pos[TB]
        BY <1>2, <3>1, <3>2, FillingPlace
      <3>4. FrontIx(b) = TailIx(b)
        BY <1>2, <1>6, <2>2, <3>3 DEF EmptyInv
      <3> QED
        BY <3>2, <3>4, <1>4, <1>7, Wrap
    <2> QED
      BY <1>5, <2>1, <2>2
  <1>13. TailGrows(b)
    BY <1>4, <1>5, <1>10, <1>12 DEF TailGrows
  <1>14. /\ FrontIx(b)' = FrontIx(b) /\ Grown(TailOf(b), TailIx(b)') /\ BlockInv(b)'
         /\ Dist(FrontIx(b), TailIx(b)', n) = Dist(FrontIx(b), TailIx(b), n) + 1
    BY <1>2, <1>4, <1>6, <1>7, <1>13, TailAdvances
  <1>15. TailIx(b)' = v
    BY <1>10 DEF Stored, Grown, TailIx
  <1>16. Fill(b)' = Fill(b) + 1
    BY <1>4, <1>5, <1>14 DEF Fill
  <1>17. \A l \in Locations : l # TailOf(b) => Newest(l)' = Newest(l)
    BY <1>10, OthersKept
  <1>18. /\ FB' = FB /\ TB' = TB
         /\ \A c \in Blocks : /\ FrontIx(c)' = FrontIx(c) /\ NextB(c)' = NextB(c)
                              /\ c # b => TailIx(c)' = TailIx(c)
    BY <1>17, Locs DEF FB, TB, FrontIx, NextB, TailIx
  <1>19. RingSize' = RingSize
    BY <1>5, <1>11 DEF RingSize
  <1> QED
    BY <1>4, <1>5, <1>6, <1>8, <1>11, <1>15, <1>16, <1>18, <1>19

LEMMA EnqueuePublishOrder ==
  ASSUME Inv, OrderInv, Enqueue_Publish \/ Enqueue_PublishNext
  PROVE  OrderInv'
  <1>1. PICK pos, base : /\ pos \in [Ring -> 0 .. RingSize - 1] /\ base \in [Blocks -> Nat]
                         /\ PosInv(pos) /\ Numbers(pos, base)
    BY OrderPlace
  <1>2. /\ MemInv /\ TypeInv /\ IndexInv /\ RingInv(pos) /\ EmptyInv(pos) /\ ProducerInv(pos)
        /\ ConsumerInv(pos) /\ Pending /\ Given /\ sent \in Nat
    BY <1>1 DEF Inv, TypeInv, PosInv, OrderInv
  <1>3. PICK b : b = IF pc[P] = "publish" THEN TB ELSE call[P].block
    OBVIOUS
  <1>4. pc[P] \in {"publish", "publishNext"}
    BY DEF Enqueue_Publish, Enqueue_PublishNext
  <1>5. /\ b \in Ring /\ b \in 1 .. allocated /\ b \in Blocks
        /\ FB' = FB /\ TB' = TB /\ RingSize' = RingSize
        /\ \A c \in Blocks : /\ FrontIx(c)' = FrontIx(c) /\ NextB(c)' = NextB(c)
                             /\ c # b => TailIx(c)' = TailIx(c)
        /\ TailIx(b)' \in 0 .. size[b] - 1
        /\ Fill(b)' = Fill(b) + 1
        /\ UNCHANGED <<allocated, size, slot, received, peeked>>
        /\ pc'[C] = pc[C] /\ call'[C] = call[C]
        /\ pc[P] = "publish" => pc'[P] = "idle" /\ sent' = sent + 1
        /\ pc[P] = "publishNext" => pc'[P] = "publishBlock" /\ call'[P] = call[P] /\ sent' = sent
    BY <1>3, TailMoves
  <1>6. PICK n, f, t, u, s : /\ n = size[b] /\ f = FrontIx(b) /\ t = TailIx(b) /\ u = TailIx(b)'
                             /\ s = slot[b]
    OBVIOUS
  <1>7. /\ n \in Nat /\ f \in 0 .. n - 1 /\ t \in 0 .. n - 1 /\ u \in 0 .. n - 1
        /\ Dist(f, u, n) = Dist(f, t, n) + 1 /\ Dist(f, t, n) \in Nat
        /\ Fill(b) = Dist(f, t, n)
    <2>1. n \in Nat /\ f \in 0 .. n - 1 /\ t \in 0 .. n - 1 /\ u \in 0 .. n - 1
      BY <1>5, <1>6, BlockFacts
    <2>2. Fill(b) = Dist(f, t, n) /\ Fill(b)' = Dist(f, u, n)
      BY <1>5, <1>6 DEF Fill
    <2> QED
      BY <1>5, <2>1, <2>2, DistNat
  <1>8. RingInv(pos)' /\ Ring' = Ring
    <2>1. Ring' = Ring /\ \A c \in Ring : c \in Blocks
      BY <1>2, <1>5, RingBlocks DEF Ring
    <2>2. \A c \in Ring : NextB(c)' = NextB(c)
      BY <1>5, <2>1
    <2> QED
      BY <1>2, <1>5, <2>1, <2>2 DEF RingInv
  <1>9. /\ TB \in Ring /\ FB \in Ring /\ FB \in Blocks /\ TB \in Blocks /\ FB \in 1 .. allocated
        /\ \A c \in Ring : c \in Blocks /\ c \in 1 .. allocated /\ pos[c] \in Nat
    BY <1>1, <1>2, PendingBlock, RingBlocks
  <1>10. \A c \in Blocks : c # b => Fill(c)' = Fill(c) /\ \A k : InOrder(c, k)' <=> InOrder(c, k)
    BY <1>5 DEF Fill, InOrder
  <1>11. Handed' = Handed
    BY <1>5 DEF Handed
  <1>12. pc[P] = "publishNext" =>
            b # TB /\ b # FB /\ pos[b] > pos[TB] /\ Fill(b) = 0 /\ f = t
    <2> SUFFICES ASSUME pc[P] = "publishNext" PROVE <1>12!2
      OBVIOUS
    <2>1. Advancing /\ Filling
      BY DEF Advancing, Filling
    <2>2. b = NextB(TB)
      BY <1>2, <1>3, <2>1 DEF ProducerInv
    <2>3. b # FB /\ b # TB /\ pos[b] > pos[TB]
      BY <1>2, <2>1, <2>2, FillingPlace
    <2>4. f = t
      BY <1>2, <1>5, <1>6, <2>3 DEF EmptyInv
    <2> QED
      BY <2>3, <2>4, <1>7, DistNat
  <1>13. Numbers(pos, base)'
    <2>1. CASE pc[P] = "publish"
      <3>1. b = TB /\ sent' = sent + 1
        BY <1>3, <1>5, <2>1
      <3>2. base[b] + Fill(b) = sent /\ InOrder(b, base[b]) /\ base[b] \in Nat
        BY <1>1, <1>5, <1>9, <3>1 DEF Numbers
      <3>3. s[t].val = base[b] + Dist(f, t, n) + 1
        <4>1. s[t].val = sent + 1
          BY <1>2, <1>6, <2>1, <3>1 DEF Pending
        <4> QED
          BY <4>1, <3>2, <1>7
      <3>4. InOrder(b, base[b])'
        <4>1. InOrderBy(n, f, t, s, base[b])
          BY <1>6, <3>2 DEF InOrder
        <4>2. InOrderBy(n, f, u, s, base[b])
          BY <1>7, <3>2, <3>3, <4>1, TailOrder
        <4> QED
          BY <1>5, <1>6, <4>2 DEF InOrder
      <3>5. base[b] + Fill(b)' = sent + 1
        BY <1>5, <1>7, <3>2
      <3>6. ASSUME NEW c \in Ring
            PROVE  /\ pos[c] < pos[TB] => base[NextB(c)'] = base[c] + Fill(c)'
                   /\ pos[c] <= pos[TB] => InOrder(c, base[c])' /\ base[c] + Fill(c)' <= sent'
        <4>1. CASE c = b
          BY <1>1, <1>9, <2>1, <3>1, <3>4, <3>5, <4>1, <1>2
        <4>2. CASE c # b
          <5>1. NextB(c)' = NextB(c) /\ Fill(c)' = Fill(c) /\ (InOrder(c, base[c])' <=> InOrder(c, base[c]))
            BY <1>5, <1>9, <1>10, <4>2
          <5>2. pos[c] <= pos[TB] => InOrder(c, base[c]) /\ base[c] + Fill(c) <= sent
            BY <1>1 DEF Numbers
          <5>3. base[c] + Fill(c) \in Nat
            <6>1. Fill(c) \in Nat
              BY <1>9, BlockFacts, DistNat DEF Fill
            <6> QED
              BY <6>1, <1>1, <1>9
          <5>4. pos[c] < pos[TB] => base[NextB(c)] = base[c] + Fill(c)
            BY <1>1 DEF Numbers
          <5> QED
            BY <1>2, <3>1, <5>1, <5>2, <5>3, <5>4
        <4> QED
          BY <4>1, <4>2
      <3>7. base[FB'] = Handed'
        BY <1>1, <1>5, <1>11 DEF Numbers
      <3>8. base[TB'] + Fill(TB)' = sent'
        <4>1. Fill(TB)' = Fill(b)'
          BY <1>5, <3>1 DEF Fill, FrontIx, TailIx
        <4> QED
          BY <4>1, <1>5, <3>1, <3>5
      <3> QED
        BY <1>5, <1>8, <3>6, <3>7, <3>8 DEF Numbers
    <2>2. CASE pc[P] = "publishNext"
      <3>1. ASSUME NEW c \in Ring, pos[c] <= pos[TB]
            PROVE  Fill(c)' = Fill(c) /\ InOrder(c, base[c])'
        <4>1. c # b /\ c \in Blocks
          BY <1>9, <1>12, <2>2, <3>1
        <4> QED
          BY <4>1, <1>1, <1>10, <3>1 DEF Numbers
      <3>2. \A c \in Ring : NextB(c)' = NextB(c)
        BY <1>5, <1>9
      <3> QED
        BY <1>1, <1>5, <1>8, <1>9, <1>11, <2>2, <3>1, <3>2, NumbersStay
    <2> QED
      BY <1>4, <2>1, <2>2
  <1>14. Pending'
    <2>1. CASE pc[P] = "publish"
      BY <1>5, <2>1 DEF Pending
    <2>2. CASE pc[P] = "publishNext"
      <3>1. call'[P].block = b /\ call[P].block = b
        BY <1>3, <1>5, <2>2
      <3>2. Fill(call[P].block)' = Fill(b)' /\ FrontIx(call[P].block)' = FrontIx(b)'
        BY <3>1 DEF Fill, FrontIx, TailIx
      <3>3. Fill(b)' = 1
        BY <1>5, <1>7, <1>12, <2>2
      <3>4. slot[b][f].val = sent + 1
        BY <1>2, <1>6, <1>12, <2>2, <3>1 DEF Pending
      <3> QED
        BY <1>5, <1>6, <2>2, <3>1, <3>2, <3>3, <3>4 DEF Pending
    <2> QED
      BY <1>4, <2>1, <2>2
  <1>15. Given'
    <2>1. peeked' # Empty => peeked' = Len(received') + 1 /\ Len(received') < sent'
      <3>1. Len(received) \in Nat /\ (sent' = sent \/ sent' = sent + 1)
        BY <1>2, <1>4, <1>5 DEF Given
      <3> QED
        BY <3>1, <1>2, <1>5 DEF Given
    <2>2. ASSUME pc'[C] = "take", call'[C].block # FB'
          PROVE  FrontIx(FB)' = TailIx(FB)'
      <3>1. pc[C] = "take" /\ call[C].block # FB
        BY <1>5, <2>2
      <3>2. FrontIx(FB) = TailIx(FB) /\ pos[TB] > 0
        BY <1>2, <3>1 DEF Given, ConsumerInv
      <3>3. FB # b
        BY <1>2, <1>3, <1>4, <1>12, <3>2 DEF RingInv
      <3>4. PICK a : a = FB
        OBVIOUS
      <3>5. FrontIx(a)' = FrontIx(a) /\ TailIx(a)' = TailIx(a) /\ FB' = a
        BY <1>5, <1>9, <3>3, <3>4
      <3> QED
        BY <3>2, <3>4, <3>5 DEF FrontIx, TailIx
    <2> QED
      BY <2>1, <2>2, <1>2, <1>5 DEF Given
  <1> QED
    BY <1>1, <1>5, <1>8, <1>13, <1>14, <1>15 DEF OrderInv


LEMMA DequeueReleaseOrder ==
  ASSUME Inv, OrderInv, Dequeue_Release
  PROVE  OrderInv'
  <1>1. PICK pos, base : /\ pos \in [Ring -> 0 .. RingSize - 1] /\ base \in [Blocks -> Nat]
                         /\ PosInv(pos) /\ Numbers(pos, base)
    BY OrderPlace
  <1>2. /\ MemInv /\ TypeInv /\ IndexInv /\ SlotInv /\ CallsTyped /\ RingInv(pos) /\ ConsumerInv(pos)
        /\ Pending /\ Given /\ sent \in Nat
    BY <1>1 DEF Inv, TypeInv, PosInv, OrderInv
  <1>3. P \in Threads /\ C \in Threads /\ P # C
    BY Locs
  <1>4. PICK b, n, f, t, v, s, c : /\ b = FB /\ n = size[b] /\ f = FrontIx(b) /\ t = TailIx(b)
                                   /\ v = (f + 1) % n /\ s = slot[b]
                                   /\ c = [base EXCEPT ![b] = @ + 1]
    OBVIOUS
  <1>5. /\ pc[C] = "release"
        /\ UNCHANGED <<allocated, size, slot, localFront, localTail, sent, received, peeked>>
    BY DEF Dequeue_Release, pVars, blockVars, cVars
  <1>6. call[C].block = b /\ f # localTail[b]
    BY <1>2, <1>4, <1>5 DEF ConsumerInv
  <1>7. /\ b \in Ring /\ b \in 1 .. allocated /\ b \in Blocks /\ TB \in Ring /\ TB \in Blocks
        /\ \A d \in Ring : d \in Blocks /\ d \in 1 .. allocated /\ pos[d] \in Nat
        /\ f # t
    BY <1>1, <1>2, <1>4, <1>5, <1>6, PendingBlock, RingBlocks, FrontNotEmpty
  <1>8. /\ n \in Nat /\ n >= 2 /\ f \in 0 .. n - 1 /\ t \in 0 .. n - 1 /\ BlockInv(b)
        /\ v = (IF f + 1 = n THEN 0 ELSE f + 1) /\ v \in 0 .. n - 1 /\ v \in Nat
    <2>1. n \in Nat /\ n >= 2 /\ f \in 0 .. n - 1 /\ t \in 0 .. n - 1 /\ BlockInv(b)
      BY <1>4, <1>7, BlockFacts
    <2>2. v = (IF f + 1 = n THEN 0 ELSE f + 1)
      BY <1>4, <2>1, Wrap
    <2> QED
      BY <2>1, <2>2
  <1>9. Stored(FrontOf(b), v)
    <2>1. StoreReleased(C, FrontOf(b), v)
      BY <1>4, <1>6 DEF Dequeue_Release, Succ, FrontIx
    <2> QED
      BY <2>1, <1>2, <1>3, <1>7, <1>8, Locs, Owners, ReleasedStores
  <1>10. pc'[P] = pc[P] /\ call'[P] = call[P] /\ pc'[C] = "idle"
    <2>1. Return(C)
      BY DEF Dequeue_Release
    <2> QED
      BY <2>1, <1>2, <1>3, ReturnMoves DEF Moves
  <1>11. /\ FrontIx(b)' = v /\ FB' = b /\ TB' = TB /\ RingSize' = RingSize
         /\ \A d \in Blocks : /\ TailIx(d)' = TailIx(d) /\ NextB(d)' = NextB(d)
                              /\ d # b => FrontIx(d)' = FrontIx(d)
    <2>1. \A l \in Locations : l # FrontOf(b) => Newest(l)' = Newest(l)
      BY <1>9, OthersKept
    <2>2. FrontIx(b)' = v
      BY <1>9 DEF Stored, Grown, FrontIx
    <2>3. RingSize' = RingSize
      BY <1>5, <1>10 DEF RingSize
    <2> QED
      BY <1>4, <2>1, <2>2, <2>3, Locs DEF FB, TB, FrontIx, TailIx, NextB
  <1>12. RingInv(pos)' /\ Ring' = Ring
    <2>1. Ring' = Ring
      BY <1>11 DEF Ring
    <2>2. FB' = FB /\ \A d \in Ring : NextB(d)' = NextB(d)
      BY <1>4, <1>7, <1>11
    <2> QED
      BY <1>2, <1>11, <2>1, <2>2 DEF RingInv
  <1>13. Fill(b)' = Fill(b) - 1 /\ Fill(b) \in Nat /\ base[b] \in Nat
    <2>1. Fill(b) = Dist(f, t, n) /\ Fill(b)' = Dist(v, t, n)
      BY <1>4, <1>5, <1>7, <1>11 DEF Fill
    <2>2. Dist(f, t, n) \in Nat
      BY <1>8, DistNat
    <2>3. Dist(v, t, n) = Dist(f, t, n) - 1
      BY <1>7, <1>8, FrontDist
    <2>4. base[b] \in Nat
      BY <1>1, <1>7
    <2> QED
      BY <2>1, <2>2, <2>3, <2>4
  <1>14. c \in [Blocks -> Nat] /\ c[b] = base[b] + 1 /\ \A d \in Blocks : d # b => c[d] = base[d]
    BY <1>1, <1>4, <1>7
  <1>15. ASSUME NEW d \in Ring
         PROVE  /\ c[d] + Fill(d)' = base[d] + Fill(d)
                /\ pos[d] <= pos[TB] => InOrder(d, c[d])' /\ base[d] + Fill(d) <= sent
    <2>1. pos[d] <= pos[TB] => InOrder(d, base[d]) /\ base[d] + Fill(d) <= sent
      BY <1>1 DEF Numbers
    <2>2. CASE d = b
      <3>1. c[d] + Fill(d)' = base[d] + Fill(d)
        BY <1>13, <1>14, <2>2
      <3>2. s[f].val = Empty
        <4>1. ~ Occupied(b, f)
          BY <1>4, <1>5, <1>7, PendingBlock DEF Occupied
        <4> QED
          BY <4>1, <1>2, <1>4, <1>7, <1>8 DEF SlotInv
      <3>3. ASSUME pos[d] <= pos[TB]
            PROVE  InOrder(d, c[d])'
        <4>1. InOrderBy(n, f, t, s, base[b])
          BY <2>1, <2>2, <3>3, <1>4 DEF InOrder
        <4>2. InOrderBy(n, v, t, s, base[b] + 1)
          BY <1>7, <1>8, <1>13, <3>2, <4>1, FrontOrder
        <4> QED
          BY <1>4, <1>5, <1>7, <1>11, <1>14, <2>2, <4>2 DEF InOrder
      <3> QED
        BY <2>1, <3>1, <3>3
    <2>3. CASE d # b
      <3>1. c[d] = base[d] /\ FrontIx(d)' = FrontIx(d) /\ TailIx(d)' = TailIx(d)
        BY <1>7, <1>11, <1>14, <2>3
      <3> QED
        BY <1>5, <2>1, <3>1 DEF Fill, InOrder
    <2> QED
      BY <2>2, <2>3
  <1>16. Numbers(pos, c)'
    <2>1. c[FB'] = Handed'
      <3>1. base[b] = Len(received) - 1 /\ Len(received) \in Nat
        BY <1>1, <1>2, <1>4, <1>5 DEF Numbers, Handed, Given
      <3>2. Handed' = Len(received)
        BY <1>5, <1>10 DEF Handed
      <3> QED
        BY <1>11, <1>14, <3>1, <3>2
    <2>2. c[TB'] + Fill(TB)' = sent'
      <3>1. PICK d : d = TB
        OBVIOUS
      <3>2. c[d] + Fill(d)' = base[d] + Fill(d) /\ base[d] + Fill(d) = sent
        BY <1>1, <1>7, <1>15, <3>1 DEF Numbers
      <3>3. Fill(TB)' = Fill(d)' /\ TB' = d
        BY <1>11, <3>1 DEF Fill, FrontIx, TailIx
      <3> QED
        BY <1>5, <3>2, <3>3
    <2>3. ASSUME NEW d \in Ring, pos[d] < pos[TB]
          PROVE  c[NextB(d)'] = c[d] + Fill(d)'
      <3>1. NextB(d) \in Ring /\ pos[NextB(d)] = IF pos[d] = RingSize - 1 THEN 0 ELSE pos[d] + 1
        BY <1>2 DEF RingInv
      <3>2. pos[d] \in Nat /\ pos[TB] \in 0 .. RingSize - 1 /\ pos[b] = 0
        BY <1>1, <1>2, <1>4, <1>7 DEF RingInv
      <3>3. NextB(d) # b
        BY <2>3, <3>1, <3>2
      <3>4. NextB(d)' = NextB(d) /\ c[NextB(d)] = base[NextB(d)]
        BY <1>7, <1>11, <1>14, <3>1, <3>3
      <3>5. base[NextB(d)] = base[d] + Fill(d)
        BY <1>1, <2>3 DEF Numbers
      <3> QED
        BY <1>15, <3>4, <3>5
    <2>4. ASSUME NEW d \in Ring, pos[d] <= pos[TB]
          PROVE  InOrder(d, c[d])' /\ c[d] + Fill(d)' <= sent'
      BY <1>5, <1>15, <2>4
    <2> QED
      BY <1>11, <1>12, <2>1, <2>2, <2>3, <2>4 DEF Numbers
  <1>17. Pending'
    <2>1. \A d \in Blocks : d # FB => FrontIx(d)' = FrontIx(d) /\ slot'[d] = slot[d]
      BY <1>4, <1>5, <1>11
    <2> QED
      BY <2>1, <1>2, <1>5, <1>10, <1>11, PendingStays
  <1>18. Given'
    BY <1>2, <1>5, <1>10 DEF Given
  <1> QED
    BY <1>1, <1>11, <1>12, <1>14, <1>16, <1>17, <1>18 DEF OrderInv

LEMMA DequeueMoveFrontOrder ==
  ASSUME Inv, OrderInv, Dequeue_MoveFront
  PROVE  OrderInv'
  <1>1. PICK pos, base : /\ pos \in [Ring -> 0 .. RingSize - 1] /\ base \in [Blocks -> Nat]
                         /\ PosInv(pos) /\ Numbers(pos, base)
    BY OrderPlace
  <1>2. /\ MemInv /\ TypeInv /\ IndexInv /\ CallsTyped /\ RingInv(pos) /\ ConsumerInv(pos)
        /\ Pending /\ Given
    BY <1>1 DEF Inv, TypeInv, PosInv, OrderInv
  <1>3. P \in Threads /\ C \in Threads /\ P # C /\ "take" \in Labels
    BY Locs DEF Labels
  <1>4. PICK b, a, R, q : b = call[C].block /\ a = FB /\ R = RingSize /\ Turned(pos, q)
    BY DEF Turned
  <1>5. /\ pc[C] = "moveFront" /\ Leaving
        /\ UNCHANGED <<allocated, size, slot, sent, received, peeked>>
    BY DEF Dequeue_MoveFront, pVars, blockVars, cVars, Leaving
  <1>6. /\ b = NextB(a) /\ b \in Ring /\ pos[b] = 1 /\ pos[TB] > 0
        /\ FrontIx(a) = TailIx(a) /\ a \in Ring /\ pos[a] = 0 /\ TB \in Ring
    BY <1>1, <1>2, <1>4, <1>5, LeavingReads DEF ConsumerInv, RingInv
  <1>7. /\ R \in Nat /\ R >= 1 /\ q \in [Ring -> 0 .. R - 1]
        /\ \A c \in Ring : /\ pos[c] \in Nat /\ pos[c] <= R - 1
                           /\ q[c] \in Nat /\ q[c] <= R - 1
                           /\ pos[c] = 0 => q[c] = R - 1
                           /\ pos[c] # 0 => q[c] = pos[c] - 1
        /\ \A c, d \in Ring : q[c] = q[d] => c = d
        /\ \A c \in Ring : /\ NextB(c) \in Ring
                           /\ q[NextB(c)] = IF q[c] = R - 1 THEN 0 ELSE q[c] + 1
    BY <1>2, <1>4, TurnedRing
  <1>8. /\ a \in Blocks /\ a \in 1 .. allocated /\ b \in Blocks /\ b \in Nat /\ TB \in Blocks
        /\ \A c \in Ring : c \in Blocks
    <2>1. b \in Nat
      BY <1>6 DEF Ring
    <2> QED
      BY <2>1, <1>2, <1>6, RingBlocks
  <1>9. Stored(FrontBlock, b)
    <2>1. StoreReleased(C, FrontBlock, b)
      BY <1>4 DEF Dequeue_MoveFront
    <2> QED
      BY <2>1, <1>2, <1>3, <1>8, Locs, Owners, ReleasedStores
  <1>10. pc'[P] = pc[P] /\ call' = call /\ pc'[C] = "take"
    <2>1. GoOn(C, "take")
      BY DEF Dequeue_MoveFront
    <2> QED
      BY <2>1, <1>2, <1>3, GoOnMoves DEF Moves
  <1>11. /\ FB' = b /\ TB' = TB
         /\ \A c \in Blocks : /\ FrontIx(c)' = FrontIx(c) /\ NextB(c)' = NextB(c)
                              /\ TailIx(c)' = TailIx(c)
    <2>1. \A l \in Locations : l # FrontBlock => Newest(l)' = Newest(l)
      BY <1>9, OthersKept
    <2> QED
      BY <1>9, <2>1, Locs DEF FB, TB, FrontIx, NextB, TailIx, Stored, Grown
  <1>12. RingSize' = R /\ Ring' = Ring
    BY <1>4, <1>5, <1>10 DEF RingSize, Ring
  <1>13. RingInv(q)'
    <2>1. q[b] = 0
      BY <1>6, <1>7
    <2>2. \A c \in Ring : NextB(c)' = NextB(c)
      BY <1>8, <1>11
    <2> QED
      BY <1>6, <1>7, <1>11, <1>12, <2>1, <2>2 DEF RingInv
  <1>14. pos[TB] - 1 = q[TB] /\ q[TB] < R - 1
    BY <1>6, <1>7
  <1>15. ASSUME NEW c \in Ring
         PROVE  /\ Fill(c)' = Fill(c) /\ NextB(c)' = NextB(c)
                /\ \A k : InOrder(c, k)' <=> InOrder(c, k)
                /\ q[c] <= q[TB] => pos[c] <= pos[TB]
                /\ q[c] < q[TB] => pos[c] < pos[TB]
    <2>1. FrontIx(c)' = FrontIx(c) /\ TailIx(c)' = TailIx(c) /\ NextB(c)' = NextB(c)
      BY <1>8, <1>11
    <2>4. /\ pos[c] \in Nat /\ q[c] \in Nat
          /\ pos[c] = 0 => q[c] = R - 1
          /\ pos[c] # 0 => q[c] = pos[c] - 1
          /\ pos[TB] \in Nat /\ q[TB] \in Nat
      BY <1>6, <1>7
    <2>2. q[c] <= q[TB] => pos[c] = q[c] + 1
      BY <1>14, <1>7, <2>4
    <2>3. pos[TB] = q[TB] + 1 /\ q[c] \in Nat /\ q[TB] \in Nat
      BY <1>14, <2>4
    <2> QED
      BY <1>5, <2>1, <2>2, <2>3 DEF Fill, InOrder
  <1>16. Numbers(q, base)'
    <2>1. base[b] = Handed'
      <3>1. Fill(a) = 0
        <4>1. size[a] \in Nat /\ FrontIx(a) \in 0 .. size[a] - 1 /\ TailIx(a) \in 0 .. size[a] - 1
          BY <1>8, BlockFacts
        <4> QED
          BY <1>6, <4>1, DistNat DEF Fill
      <3>2. base[b] = base[a] + Fill(a)
        BY <1>1, <1>6 DEF Numbers
      <3>3. base[a] = Len(received) /\ base[a] \in Nat
        BY <1>1, <1>4, <1>5, <1>8 DEF Numbers, Handed
      <3>4. Handed' = Len(received)
        BY <1>5, <1>10 DEF Handed
      <3> QED
        BY <3>1, <3>2, <3>3, <3>4
    <2>2. base[TB'] + Fill(TB)' = sent'
      <3>1. Fill(TB)' = Fill(TB)
        BY <1>5, <1>8, <1>11 DEF Fill, FrontIx, TailIx
      <3> QED
        BY <3>1, <1>1, <1>5, <1>11 DEF Numbers
    <2>3. ASSUME NEW c \in Ring
          PROVE  /\ q[c] < q[TB] => base[NextB(c)'] = base[c] + Fill(c)'
                 /\ q[c] <= q[TB] => InOrder(c, base[c])' /\ base[c] + Fill(c)' <= sent'
      BY <1>1, <1>5, <1>15 DEF Numbers
    <2> QED
      BY <1>11, <1>12, <2>1, <2>2, <2>3 DEF Numbers
  <1>17. Pending'
    <2>1. \A c \in Blocks : /\ TailIx(c)' = TailIx(c) /\ size'[c] = size[c]
                            /\ FrontIx(c)' = FrontIx(c) /\ slot'[c] = slot[c]
      BY <1>5, <1>11
    <2> QED
      BY <2>1, <1>2, <1>5, <1>10, <1>11, PendingStays
  <1>18. Given'
    <2>1. call'[C].block = FB'
      BY <1>4, <1>10, <1>11
    <2> QED
      BY <2>1, <1>2, <1>5, <1>10 DEF Given
  <1> QED
    BY <1>1, <1>7, <1>12, <1>13, <1>16, <1>17, <1>18 DEF OrderInv


LEMMA EnqueuePublishBlockOrder ==
  ASSUME Inv, OrderInv, Enqueue_PublishBlock
  PROVE  OrderInv'
  <1>1. PICK pos, base : /\ pos \in [Ring -> 0 .. RingSize - 1] /\ base \in [Blocks -> Nat]
                         /\ PosInv(pos) /\ Numbers(pos, base)
    BY OrderPlace
  <1>2. /\ MemInv /\ TypeInv /\ IndexInv /\ CallsTyped /\ RingInv(pos) /\ ProducerInv(pos)
        /\ Pending /\ Given /\ sent \in Nat
    BY <1>1 DEF Inv, TypeInv, PosInv, OrderInv
  <1>3. P \in Threads /\ C \in Threads /\ P # C
    BY Locs
  <1>4. PICK b, p, a, c : /\ b = call[P].block /\ p = pos[TB] /\ a = TB
                          /\ c = [base EXCEPT ![b] = sent]
    OBVIOUS
  <1>5. /\ pc[P] = "publishBlock" /\ Advancing /\ Filling /\ sent' = sent + 1
        /\ UNCHANGED <<allocated, size, slot, received, peeked>>
    BY DEF Enqueue_PublishBlock, pVars, blockVars, cVars, Advancing, Filling
  <1>6. /\ b \in Ring /\ pos[b] = p + 1 /\ b # FB /\ b # a /\ p \in Nat /\ p + 1 < RingSize
        /\ b = NextB(a) /\ RingSize \in Nat
    BY <1>2, <1>4, <1>5, FillingPlace DEF ProducerInv
  <1>7. /\ b \in Blocks /\ b \in Nat /\ b \in 1 .. allocated /\ FB \in Blocks /\ FB \in Ring
        /\ a \in Ring /\ a \in Blocks
        /\ \A d \in Ring : d \in Blocks /\ pos[d] \in Nat /\ pos[d] <= RingSize - 1
        /\ \A d \in Ring : pos[d] = pos[b] => d = b
    <2>1. b \in Nat
      BY <1>6 DEF Ring
    <2>2. \A d \in Ring : pos[d] = pos[b] => d = b
      BY <1>2, <1>6 DEF RingInv
    <2> QED
      BY <1>1, <1>2, <1>4, <1>6, <2>1, <2>2, PendingBlock, RingBlocks
  <1>8. Stored(TailBlock, b)
    <2>1. StoreReleased(P, TailBlock, b)
      BY <1>4 DEF Enqueue_PublishBlock
    <2> QED
      BY <2>1, <1>2, <1>3, <1>7, Locs, Owners, ReleasedStores
  <1>9. pc'[C] = pc[C] /\ call'[C] = call[C] /\ pc'[P] = "idle"
    <2>1. Return(P)
      BY DEF Enqueue_PublishBlock
    <2> QED
      BY <2>1, <1>2, <1>3, ReturnMoves DEF Moves
  <1>10. /\ FB' = FB /\ TB' = b
         /\ \A d \in Blocks : /\ FrontIx(d)' = FrontIx(d) /\ NextB(d)' = NextB(d)
                              /\ TailIx(d)' = TailIx(d)
    <2>1. \A l \in Locations : l # TailBlock => Newest(l)' = Newest(l)
      BY <1>8, OthersKept
    <2> QED
      BY <1>8, <2>1, Locs DEF FB, TB, FrontIx, NextB, TailIx, Stored, Grown
  <1>11. RingSize' = RingSize /\ Ring' = Ring
    BY <1>5, <1>9 DEF RingSize, Ring
  <1>12. RingInv(pos)'
    <2>1. \A d \in Ring : NextB(d)' = NextB(d)
      BY <1>7, <1>10
    <2> QED
      BY <1>2, <1>6, <1>10, <1>11, <2>1 DEF RingInv
  <1>13. c \in [Blocks -> Nat] /\ c[b] = sent /\ \A d \in Blocks : d # b => c[d] = base[d]
    BY <1>1, <1>2, <1>4, <1>7
  <1>14. ASSUME NEW d \in Ring
         PROVE  /\ Fill(d)' = Fill(d) /\ NextB(d)' = NextB(d) /\ Fill(d) \in Nat
                /\ \A k : InOrder(d, k)' <=> InOrder(d, k)
    <2>1. FrontIx(d)' = FrontIx(d) /\ TailIx(d)' = TailIx(d) /\ NextB(d)' = NextB(d)
      BY <1>7, <1>10
    <2>2. Fill(d) \in Nat
      BY <1>2, RingBlocks, BlockFacts, DistNat DEF Fill
    <2> QED
      BY <1>5, <2>1, <2>2 DEF Fill, InOrder
  <1>15. Fill(b) = 1 /\ slot[b][FrontIx(b)].val = sent + 1
    BY <1>2, <1>4, <1>5 DEF Pending
  <1>16. InOrder(b, sent)
    <2>1. PICK n, f, t, s : n = size[b] /\ f = FrontIx(b) /\ t = TailIx(b) /\ s = slot[b]
      OBVIOUS
    <2>2. n \in Nat /\ f \in 0 .. n - 1 /\ t \in 0 .. n - 1 /\ Dist(f, t, n) = 1
      BY <1>7, <1>15, <2>1, BlockFacts DEF Fill
    <2>3. ASSUME NEW i \in 0 .. n - 1, Dist(f, i, n) < Dist(f, t, n)
          PROVE  s[i].val = sent + Dist(f, i, n) + 1
      <3>1. Dist(f, i, n) \in Nat
        BY <2>2, DistNat
      <3>2. Dist(f, i, n) = 0
        BY <2>2, <2>3, <3>1
      <3>3. f = i
        BY <2>2, <3>2, DistNat
      <3> QED
        BY <1>2, <1>15, <2>1, <3>2, <3>3
    <2>4. InOrderBy(n, f, t, s, sent)
      BY <2>3 DEF InOrderBy
    <2> QED
      BY <2>1, <2>4 DEF InOrder
  <1>17. Numbers(pos, c)'
    <2>1. c[FB'] = Handed'
      <3>1. Handed' = Handed
        BY <1>5, <1>9 DEF Handed
      <3> QED
        BY <3>1, <1>1, <1>6, <1>7, <1>10, <1>13 DEF Numbers
    <2>2. c[TB'] + Fill(TB)' = sent'
      <3>1. Fill(TB)' = Fill(b)'
        BY <1>10 DEF Fill, FrontIx, TailIx
      <3> QED
        BY <3>1, <1>5, <1>6, <1>10, <1>13, <1>14, <1>15
    <2>3. ASSUME NEW d \in Ring, pos[d] < pos[b]
          PROVE  c[NextB(d)'] = c[d] + Fill(d)'
      <3>1. d # b /\ c[d] = base[d] /\ pos[d] <= p /\ pos[d] \in Nat
        BY <1>6, <1>7, <1>13, <2>3
      <3>2. CASE d = a
        <4>1. base[a] + Fill(a) = sent
          BY <1>1, <1>4 DEF Numbers
        <4> QED
          BY <4>1, <3>1, <3>2, <1>6, <1>13, <1>14
      <3>3. CASE d # a
        <4>1. pos[d] # p
          BY <1>2, <1>4, <1>7, <3>3 DEF RingInv
        <4>2. pos[d] < pos[TB]
          BY <1>4, <1>6, <3>1, <4>1
        <4>3. base[NextB(d)] = base[d] + Fill(d)
          BY <1>1, <4>2 DEF Numbers
        <4>4. NextB(d) \in Ring /\ pos[NextB(d)] = IF pos[d] = RingSize - 1 THEN 0 ELSE pos[d] + 1
          BY <1>2 DEF RingInv
        <4>5. NextB(d) # b
          BY <1>4, <1>6, <3>1, <4>2, <4>4
        <4> QED
          BY <1>7, <1>13, <1>14, <3>1, <4>3, <4>4, <4>5
      <3> QED
        BY <3>2, <3>3
    <2>4. ASSUME NEW d \in Ring, pos[d] <= pos[b]
          PROVE  InOrder(d, c[d])' /\ c[d] + Fill(d)' <= sent'
      <3>1. CASE d = b
        BY <1>2, <1>5, <1>13, <1>14, <1>15, <1>16, <3>1
      <3>2. CASE d # b
        <4>1. pos[d] # pos[b]
          BY <1>7, <3>2
        <4>2. pos[d] <= pos[TB]
          BY <1>4, <1>6, <1>7, <2>4, <4>1
        <4>3. InOrder(d, base[d]) /\ base[d] + Fill(d) <= sent
          BY <1>1, <4>2 DEF Numbers
        <4>4. base[d] \in Nat /\ Fill(d) \in Nat
          BY <1>1, <1>7, <1>14
        <4> QED
          BY <1>2, <1>5, <1>7, <1>13, <1>14, <3>2, <4>3, <4>4
      <3> QED
        BY <3>1, <3>2
    <2> QED
      BY <1>10, <1>11, <2>1, <2>2, <2>3, <2>4 DEF Numbers
  <1>18. Pending'
    BY <1>9 DEF Pending
  <1>19. Given'
    <2>1. Len(received) \in Nat
      BY <1>2 DEF Given
    <2>2. FrontIx(FB)' = FrontIx(FB) /\ TailIx(FB)' = TailIx(FB)
      BY <1>7, <1>10 DEF FrontIx, TailIx
    <2> QED
      BY <2>1, <2>2, <1>2, <1>5, <1>9, <1>10 DEF Given
  <1> QED
    BY <1>1, <1>11, <1>12, <1>13, <1>17, <1>18, <1>19 DEF OrderInv

LEMMA EnqueueLinkOrder ==
  ASSUME Inv, OrderInv, Enqueue_Link
  PROVE  OrderInv'
  <1>1. PICK pos, base : /\ pos \in [Ring -> 0 .. RingSize - 1] /\ base \in [Blocks -> Nat]
                         /\ PosInv(pos) /\ Numbers(pos, base)
    BY OrderPlace
  <1>2. /\ MemInv /\ TypeInv /\ IndexInv /\ CallsTyped /\ RingInv(pos) /\ ProducerInv(pos)
        /\ Pending /\ Given
    BY <1>1 DEF Inv, TypeInv, PosInv, OrderInv
  <1>3. P \in Threads /\ C \in Threads /\ P # C /\ "publishBlock" \in Labels
    BY Locs DEF Labels
  <1>4. PICK b, a, q : b = allocated /\ a = TB /\ Inserted(pos, allocated, q)
    BY DEF Inserted
  <1>5. pc[P] = "link" /\ UNCHANGED <<allocated, size, slot, sent, received, peeked>>
    BY DEF Enqueue_Link, pVars, blockVars, cVars
  <1>6. RingInv(q)'
    BY <1>1, <1>4, LinkStep
  <1>7. call[P].block = b /\ b \in Nat /\ b > 1 /\ b \in Blocks
    <2>1. allocated \in Nat /\ allocated \in Blocks
      BY <1>2, RingBlocks DEF TypeInv
    <2> QED
      BY <2>1, <1>2, <1>4, <1>5 DEF ProducerInv
  <1>8. a \in Ring /\ a \in Blocks /\ FB \in Blocks /\ \A c \in Ring : c \in Blocks
    BY <1>2, <1>4, PendingBlock, RingBlocks
  <1>9. Stored(NextOf(a), b)
    <2>1. Store(P, NextOf(a), b)
      BY <1>4, <1>7 DEF Enqueue_Link, TB
    <2> QED
      BY <2>1, <1>2, <1>3, <1>7, <1>8, Locs, Owners, StoreStores
  <1>10. pc'[P] = "publishBlock" /\ pc'[C] = pc[C] /\ call' = call
    <2>1. GoOn(P, "publishBlock")
      BY DEF Enqueue_Link
    <2> QED
      BY <2>1, <1>2, <1>3, GoOnMoves DEF Moves
  <1>11. /\ FB' = FB /\ TB' = TB
         /\ \A c \in Blocks : /\ FrontIx(c)' = FrontIx(c) /\ TailIx(c)' = TailIx(c)
                              /\ c # a => NextB(c)' = NextB(c)
    <2>1. \A l \in Locations : l # NextOf(a) => Newest(l)' = Newest(l)
      BY <1>9, OthersKept
    <2> QED
      BY <2>1, Locs DEF FB, TB, FrontIx, NextB, TailIx
  <1>12. Ring = 1 .. b - 1 /\ Ring' = 1 .. b /\ b \notin Ring
    BY <1>4, <1>5, <1>7, <1>10 DEF Ring, RingSize
  <1>13. /\ q \in [Ring' -> 0 .. RingSize' - 1] /\ TB \in Ring'
         /\ pos[a] \in Nat /\ q[b] = pos[a] + 1 /\ q[a] = pos[a]
         /\ \A c \in Ring : pos[c] \in Nat /\ q[c] = IF pos[c] <= pos[a] THEN pos[c] ELSE pos[c] + 1
    <2>1. q \in [Ring' -> 0 .. RingSize' - 1] /\ TB \in Ring'
      <3>1. q \in [Ring' -> 0 .. RingSize' - 1]
        BY <1>6 DEF RingInv
      <3>2. TB \in 1 .. b - 1
        BY <1>4, <1>8, <1>12
      <3> QED
        BY <3>1, <3>2, <1>7, <1>12
    <2>2. \A c \in Ring : pos[c] \in Nat
      BY <1>1
    <2>3. \A c \in Ring : q[c] = IF pos[c] <= pos[a] THEN pos[c] ELSE pos[c] + 1
      BY <1>4, <1>7, <1>12 DEF Inserted
    <2>4. q[b] = pos[a] + 1
      BY <1>4, <1>7, <1>12 DEF Inserted
    <2> QED
      BY <1>8, <2>1, <2>2, <2>3, <2>4
  <1>14. ASSUME NEW c \in Ring', q[c] <= q[a]
         PROVE  c \in Ring /\ pos[c] <= pos[a] /\ (q[c] < q[a] => pos[c] < pos[a])
    <2>1. c # b
      BY <1>13, <1>14
    <2>2. c \in Ring
      BY <1>7, <1>12, <2>1
    <2> QED
      BY <2>2, <1>13, <1>14
  <1>15. \A c \in Blocks : Fill(c)' = Fill(c) /\ \A k : InOrder(c, k)' <=> InOrder(c, k)
    BY <1>5, <1>11 DEF Fill, InOrder
  <1>16. Numbers(q, base)'
    <2>1. \A c \in Ring : pos[c] <= pos[TB] => Fill(c)' = Fill(c) /\ InOrder(c, base[c])'
      BY <1>1, <1>8, <1>15 DEF Numbers
    <2>2. \A c \in Ring : pos[c] < pos[TB] => NextB(c)' = NextB(c)
      <3>1. \A c \in Ring : pos[c] < pos[a] => c # a
        BY <1>13
      <3> QED
        BY <3>1, <1>4, <1>8, <1>11
    <2>3. Handed' = Handed
      BY <1>5, <1>10 DEF Handed
    <2> QED
      BY <1>1, <1>4, <1>5, <1>11, <1>13, <1>14, <2>1, <2>2, <2>3, NumbersStay
  <1>17. Pending'
    <2>1. call'[P].block = b
      BY <1>7, <1>10
    <2>2. Fill(call[P].block)' = Fill(b)' /\ FrontIx(call[P].block)' = FrontIx(b)'
      BY <2>1 DEF Fill, FrontIx, TailIx
    <2>3. Fill(b) = 1 /\ slot[b][FrontIx(b)].val = sent + 1
      BY <1>2, <1>5, <1>7 DEF Pending
    <2>4. FrontIx(b)' = FrontIx(b) /\ Fill(b)' = Fill(b)
      BY <1>7, <1>11, <1>15
    <2> QED
      BY <1>5, <1>10, <2>1, <2>2, <2>3, <2>4 DEF Pending
  <1>18. Given'
    <2>1. FrontIx(FB)' = FrontIx(FB) /\ TailIx(FB)' = TailIx(FB)
      BY <1>8, <1>11 DEF FrontIx, TailIx
    <2> QED
      BY <2>1, <1>2, <1>5, <1>10, <1>11 DEF Given
  <1> QED
    BY <1>1, <1>6, <1>13, <1>16, <1>17, <1>18 DEF OrderInv


LEMMA EnqueueAllocOrder ==
  ASSUME Inv, OrderInv, Enqueue_Alloc
  PROVE  OrderInv'
  <1>1. PICK pos, base : /\ pos \in [Ring -> 0 .. RingSize - 1] /\ base \in [Blocks -> Nat]
                         /\ PosInv(pos) /\ Numbers(pos, base)
    BY OrderPlace
  <1>2. /\ MemInv /\ TypeInv /\ CallsTyped /\ RingInv(pos) /\ Pending /\ Given
    BY <1>1 DEF Inv, TypeInv, PosInv, OrderInv
  <1>3. P \in Threads /\ C \in Threads /\ P # C /\ "link" \in Labels
    BY Locs DEF Labels
  <1>4. PICK b, n, e, x : /\ b = allocated + 1 /\ n = NewBlockSize /\ e = epoch[P]
                          /\ x = NextB(TB)
    OBVIOUS
  <1>5. /\ pc[P] = "alloc" /\ b \in Blocks /\ allocated' = b
        /\ size' = [size EXCEPT ![b] = n]
        /\ slot' = [slot EXCEPT ![b] = [FreshSlots(n, e) EXCEPT ![0].val = sent + 1]]
        /\ mem' = [mem EXCEPT ![TailOf(b)] = Put(@, 1, e), ![NextOf(b)] = Put(@, x, e)]
        /\ GoOnWith(P, "link", b)
        /\ UNCHANGED <<sent, received, peeked>>
    BY <1>4 DEF Enqueue_Alloc, NextB, TB
  <1>6. /\ allocated \in Nat /\ sent \in Nat /\ b # FB /\ b # TB /\ b > allocated /\ b - 1 = allocated
        /\ FB \in Ring /\ FB \in Blocks /\ TB \in Ring /\ TB \in Blocks
        /\ \A c \in Ring : c \in Blocks /\ c # b
        /\ RingSize = allocated
    <2>1. allocated \in Nat /\ sent \in Nat /\ \A c \in 1 .. allocated : c # b
      <3>1. allocated \in Nat
        BY <1>2, RingBlocks DEF TypeInv, Blocks
      <3> QED
        BY <3>1, <1>2, <1>4 DEF TypeInv
    <2>2. RingSize = allocated /\ Ring = 1 .. allocated
      BY <1>5 DEF Ring, RingSize
    <2>3. b > allocated /\ b - 1 = allocated
      BY <1>4, <2>1
    <2> QED
      BY <1>2, <2>1, <2>2, <2>3, PendingBlock, RingBlocks
  <1>7. n \in Nat /\ n >= 2
    BY <1>2, <1>4, Sizes DEF NewBlockSize, TypeInv
  <1>8. pc'[P] = "link" /\ pc'[C] = pc[C] /\ call'[C] = call[C] /\ call'[P].block = b
    BY <1>2, <1>3, <1>5, GoOnWithMoves DEF Moves
  <1>9. /\ TailOf(b) \in Locations /\ NextOf(b) \in Locations /\ FrontOf(b) \in Locations
        /\ TailOf(b) # NextOf(b)
    BY <1>5, Locs
  <1>10. \A l \in Locations : l # TailOf(b) /\ l # NextOf(b) => mem'[l] = mem[l]
    BY <1>2, <1>5, <1>9 DEF MemInv
  <1>11. mem'[TailOf(b)] = Put(mem[TailOf(b)], 1, e)
    BY <1>2, <1>5, <1>9 DEF MemInv
  <1>12. TailIx(b)' = 1
    <2>1. mem[TailOf(b)] \in Seq(Stores) /\ e \in Nat
      BY <1>2, <1>3, <1>4, <1>9 DEF MemInv
    <2>2. PICK h : h = mem[TailOf(b)]
      OBVIOUS
    <2>3. h \in Seq(Stores) /\ h # <<>>
      BY <2>1, <2>2, <1>2, <1>9 DEF MemInv
    <2>4. IsPut(Put(h, 1, e), h, 1, e)
      BY <2>1, <2>3, PutGrows
    <2>5. IsPut(mem'[TailOf(b)], h, 1, e)
      BY <2>2, <2>4, <1>11
    <2> QED
      BY <2>5 DEF IsPut, TailIx, Newest
  <1>13. /\ FB' = FB /\ TB' = TB
         /\ \A c \in Blocks : /\ FrontIx(c)' = FrontIx(c)
                              /\ c # b => NextB(c)' = NextB(c) /\ TailIx(c)' = TailIx(c)
    <2>1. \A l \in Locations : mem'[l] = mem[l] => Newest(l)' = Newest(l)
      BY DEF Newest
    <2>2. \A l \in Locations : l # TailOf(b) /\ l # NextOf(b) => Newest(l)' = Newest(l)
      BY <1>10, <2>1
    <2> QED
      BY <2>2, Locs DEF FB, TB, FrontIx, NextB, TailIx
  <1>14. RingSize' = RingSize /\ Ring' = Ring
    <2>1. RingSize' = RingSize
      BY <1>5, <1>6, <1>8 DEF RingSize
    <2> QED
      BY <2>1 DEF Ring
  <1>15. /\ size'[b] = n /\ slot'[b] = [FreshSlots(n, e) EXCEPT ![0].val = sent + 1]
         /\ \A c \in Blocks : c # b => size'[c] = size[c] /\ slot'[c] = slot[c]
    BY <1>2, <1>5 DEF TypeInv
  <1>16. FrontIx(b)' = 0
    <2>1. mem[FrontOf(b)] = <<[val |-> 0, at |-> 0]>>
      BY <1>2, <1>5, <1>6 DEF TypeInv
    <2>2. FrontIx(b) = 0
      BY <2>1 DEF FrontIx, Newest
    <2> QED
      BY <2>2, <1>5, <1>13
  <1>17. RingInv(pos)'
    BY <1>2, <1>6, <1>13, <1>14 DEF RingInv
  <1>18. \A c \in Ring : /\ Fill(c)' = Fill(c) /\ NextB(c)' = NextB(c)
                         /\ \A k : InOrder(c, k)' <=> InOrder(c, k)
    BY <1>6, <1>13, <1>15 DEF Fill, InOrder
  <1>19. Numbers(pos, base)'
    <2>1. \A c \in Ring : pos[c] <= pos[TB] => Fill(c)' = Fill(c) /\ InOrder(c, base[c])'
      BY <1>1, <1>18 DEF Numbers
    <2>2. Handed' = Handed
      BY <1>5, <1>8 DEF Handed
    <2> QED
      BY <1>1, <1>5, <1>6, <1>13, <1>14, <1>18, <2>1, <2>2, NumbersStay
  <1>20. Pending'
    <2>1. Fill(b)' = 1
      <3>1. Dist(0, 1, n) = 1
        BY <1>7 DEF Dist
      <3> QED
        BY <3>1, <1>12, <1>15, <1>16 DEF Fill
    <2>2. slot'[b][0].val = sent + 1
      <3>1. PICK f : f = FreshSlots(n, e)
        OBVIOUS
      <3>2. 0 \in DOMAIN f /\ f[0] = [val |-> Empty, by |-> P, at |-> e]
        BY <1>7, <3>1 DEF FreshSlots
      <3>3. slot'[b] = [f EXCEPT ![0] = [f[0] EXCEPT !.val = sent + 1]]
        BY <1>15, <3>1
      <3>4. slot'[b][0] = [f[0] EXCEPT !.val = sent + 1]
        BY <3>2, <3>3
      <3> QED
        BY <3>2, <3>4
    <2>3. Fill(call[P].block)' = Fill(b)' /\ FrontIx(call[P].block)' = FrontIx(b)'
      BY <1>8 DEF Fill, FrontIx, TailIx
    <2> QED
      BY <1>5, <1>8, <1>16, <2>1, <2>2, <2>3 DEF Pending
  <1>21. Given'
    <2>1. FrontIx(FB)' = FrontIx(FB) /\ TailIx(FB)' = TailIx(FB)
      BY <1>6, <1>13 DEF FrontIx, TailIx
    <2> QED
      BY <2>1, <1>2, <1>5, <1>8, <1>13 DEF Given
  <1> QED
    BY <1>1, <1>14, <1>17, <1>19, <1>20, <1>21 DEF OrderInv

LEMMA InitOrder ==
  ASSUME Init
  PROVE  OrderInv
  <1>1. PICK pos \in [Ring -> 0 .. RingSize - 1] : PosInv(pos)
    BY InitInv DEF Inv
  <1>2. RingInv(pos) /\ TypeInv /\ FB \in Ring /\ TB \in Ring
    BY <1>1, InitInv DEF Inv, PosInv, RingInv
  <1>3. PICK base : base = [b \in Blocks |-> 0]
    OBVIOUS
  <1>4. /\ pc[P] = "idle" /\ pc[C] = "idle" /\ sent = 0 /\ received = <<>> /\ peeked = Empty
    BY DEF Init, P, C
  <1>5. FB = 1 /\ TB = 1 /\ \A b \in Blocks : FrontIx(b) = 0 /\ TailIx(b) = 0
    <2>1. \A loc \in Locations : mem[loc] = <<[val |-> InitialValue(loc), at |-> 0]>>
      BY DEF Init
    <2>2. ASSUME NEW loc \in Locations
          PROVE  Newest(loc) = InitialValue(loc)
      <3>1. PICK r : r = [val |-> InitialValue(loc), at |-> 0]
        OBVIOUS
      <3>2. mem[loc] = <<r>> /\ r.val = InitialValue(loc)
        BY <2>1, <3>1
      <3>3. Len(mem[loc]) = 1 /\ mem[loc][1] = r
        BY <3>2
      <3> QED
        BY <3>2, <3>3 DEF Newest
    <2> QED
      BY <2>2, Locs, InitialValues DEF FB, TB, FrontIx, TailIx
  <1>6. ASSUME NEW b \in Blocks
        PROVE  Fill(b) = 0 /\ InOrder(b, 0)
    <2>1. Fill(b) = 0
      BY <1>5 DEF Fill, Dist
    <2>2. ASSUME NEW i \in 0 .. size[b] - 1
          PROVE  ~ (Dist(0, i, size[b]) < Dist(0, 0, size[b]))
      BY <2>2 DEF Dist
    <2> QED
      BY <1>5, <2>1, <2>2 DEF InOrder, InOrderBy
  <1>7. \A b \in Ring : b \in Blocks /\ NextB(b) \in Blocks
    BY <1>2, RingBlocks DEF RingInv
  <1>8. Numbers(pos, base)
    <2>1. Handed = 0
      BY <1>4 DEF Handed
    <2>2. base[FB] = 0 /\ base[TB] = 0 /\ Fill(TB) = 0
      BY <1>2, <1>3, <1>6, <1>7
    <2> QED
      BY <1>3, <1>4, <1>6, <1>7, <2>1, <2>2 DEF Numbers
  <1>9. Pending
    BY <1>4 DEF Pending
  <1>10. Given
    <2>1. <<>> \in Seq(Nat) /\ Len(<<>>) = 0 /\ <<>> = [i \in 1 .. 0 |-> i]
      OBVIOUS
    <2> QED
      BY <1>4, <2>1 DEF Given
  <1> QED
    BY <1>1, <1>2, <1>3, <1>8, <1>9, <1>10 DEF OrderInv

LEMMA NextOrder ==
  ASSUME Inv, OrderInv, [Next]_vars
  PROVE  OrderInv'
  <1>1. CASE Enqueue_Start
    BY <1>1, EnqueueStartOrder
  <1>2. CASE ProducerStep
    BY <1>2, EnqueueWriteOrder, EnqueuePublishOrder, EnqueueFullOrder, EnqueueAdvanceOrder,
       EnqueueAllocOrder, EnqueueNoMemoryOrder, EnqueueLinkOrder, EnqueuePublishBlockOrder
       DEF ProducerStep
  <1>3. CASE Dequeue_Start
    BY <1>3, DequeueStartOrder
  <1>4. CASE ConsumerStep
    BY <1>4, DequeueTakeOrder, DequeueReleaseOrder, DequeueCheckTailOrder, DequeueRecheckOrder,
       DequeueReadNextOrder, DequeueCheckNextOrder, DequeueMoveFrontOrder DEF ConsumerStep
  <1>5. CASE SizeStep
    <2>1. PICK t \in SizeCallers : Size_Start(t) \/ Size_Count(t) \/ Size_Follow(t)
      BY <1>5 DEF SizeStep
    <2>2. t \in Threads
      BY <2>1, Locs, SizeCallersAssumption DEF P, C
    <2> QED
      BY <2>1, <2>2, SizeOrder
  <1>6. CASE UNCHANGED vars
    <2>1. MemInv /\ CallsTyped
      BY DEF Inv, TypeInv
    <2>2. /\ UNCHANGED memVars /\ pc' = pc /\ call' = call
          /\ UNCHANGED <<allocated, size, slot, sent, received, peeked>>
      BY <1>6 DEF vars, pVars, cVars, blockVars
    <2>3. Looks(P) /\ P \in Threads
      BY <2>1, <2>2, Locs, StillLooks
    <2>4. RingSize' = RingSize
      BY <2>2 DEF RingSize
    <2> QED
      BY <2>2, <2>3, <2>4, LookOrder
  <1> QED
    BY <1>1, <1>2, <1>3, <1>4, <1>5, <1>6 DEF Next

\* Along the ring from frontBlock to tailBlock, and in each block from front to
\* tail, the slots hold the elements with consecutive numbers, from the one after
\* the last that the consumer has taken to the last that the producer has sent.
THEOREM OrderInvariance ==
  ASSUME ~ Relaxed \/ C \notin SizeCallers
  PROVE  Spec => []OrderInv
  <1>1. Init => OrderInv
    BY InitOrder
  <1>2. Inv /\ OrderInv /\ [Next]_vars => OrderInv'
    BY NextOrder
  <1> QED
    BY <1>1, <1>2, Invariance, PTL DEF Spec

-------------------------------------------------------------------------------
(***************************************************************************)
(* Content, which walks the blocks and puts what it finds in a sequence, is  *)
(* the sequence of the numbers that are sent and not received.              *)
(***************************************************************************)

\* g strings the sequences s[0], s[1], ... together.
Strung(L, s, g) == g = [i \in 0 .. L |-> IF i = 0 THEN s[0] ELSE g[i - 1] \o s[i]]

LEMMA StrungExists ==
  ASSUME NEW L \in Nat, NEW s
  PROVE  \E g : Strung(L, s, g)
  <1> DEFINE T == {k \in Nat : ~ \E g : Strung(k, s, g)}
  <1>1. ASSUME T # {}
        PROVE  FALSE
    <2>1. PICK k \in T : \A y \in T : k <= y
      <3>1. T \subseteq Nat
        OBVIOUS
      <3> HIDE DEF T
      <3> QED
        BY <1>1, <3>1, LeastNat
    <2>2. k \in Nat /\ ~ \E g : Strung(k, s, g)
      OBVIOUS
    <2>3. k # 0
      <3>1. PICK g : g = [i \in 0 .. 0 |-> s[0]]
        OBVIOUS
      <3>2. Strung(0, s, g)
        BY <3>1 DEF Strung
      <3> QED
        BY <2>2, <3>2
    <2>4. k - 1 \in Nat /\ ~ (k <= k - 1)
      BY <2>2, <2>3
    <2>5. PICK g : Strung(k - 1, s, g)
      BY <2>1, <2>4
    <2>6. PICK f : f = [i \in 0 .. k |-> IF i = k THEN g[k - 1] \o s[k] ELSE g[i]]
      OBVIOUS
    <2>7. ASSUME NEW i \in 0 .. k
          PROVE  f[i] = IF i = 0 THEN s[0] ELSE f[i - 1] \o s[i]
      <3>1. CASE i = k
        <4>1. k - 1 \in 0 .. k /\ k - 1 # k
          BY <2>2, <2>4
        <4> QED
          BY <2>3, <2>6, <3>1, <4>1
      <3>2. CASE i # k
        <4>1. i \in 0 .. k - 1 /\ f[i] = g[i]
          BY <2>2, <2>6, <3>2
        <4>2. g[i] = IF i = 0 THEN s[0] ELSE g[i - 1] \o s[i]
          BY <2>5, <4>1 DEF Strung
        <4>3. i # 0 => i - 1 \in 0 .. k /\ i - 1 # k
          BY <2>2, <4>1
        <4> QED
          BY <2>6, <4>1, <4>2, <4>3
      <3> QED
        BY <3>1, <3>2
    <2>8. f = [i \in 0 .. k |-> f[i]]
      BY <2>6
    <2>9. Strung(k, s, f)
      BY <2>7, <2>8 DEF Strung
    <2> QED
      BY <2>2, <2>9
  <1> QED
    BY <1>1

\* N holds the pairs of an entry and its number, c[i] is the number before the
\* first of s[i].
Counted(L, s, c, S, N) ==
    /\ \A i \in 0 .. L + 1 : c[i] \in Nat
    /\ \A i \in 0 .. L : /\ s[i] \in Seq(S) /\ c[i + 1] = c[i] + Len(s[i])
                        /\ \A m \in 1 .. Len(s[i]) : <<s[i][m], c[i] + m>> \in N

\* Numbered sequences strung together are numbered through.
LEMMA StrungNumbers ==
  ASSUME NEW L \in Nat, NEW s, NEW g, Strung(L, s, g), NEW c, NEW S, NEW N, Counted(L, s, c, S, N)
  PROVE  /\ g[L] \in Seq(S) /\ c[L + 1] = c[0] + Len(g[L])
         /\ \A m \in 1 .. Len(g[L]) : <<g[L][m], c[0] + m>> \in N
         /\ Len(s[0]) >= 1 => Len(g[L]) >= 1 /\ g[L][1] = s[0][1]
  <1> DEFINE Good(k) == /\ g[k] \in Seq(S) /\ c[k + 1] = c[0] + Len(g[k])
                        /\ \A m \in 1 .. Len(g[k]) : <<g[k][m], c[0] + m>> \in N
                        /\ Len(s[0]) >= 1 => Len(g[k]) >= 1 /\ g[k][1] = s[0][1]
             T == {k \in 0 .. L : ~ Good(k)}
  <1> USE DEF Counted
  <1>1. ASSUME T # {}
        PROVE  FALSE
    <2>1. PICK k \in T : \A y \in T : k <= y
      <3>1. T \subseteq Nat
        OBVIOUS
      <3> HIDE DEF T
      <3> QED
        BY <1>1, <3>1, LeastNat
    <2>2. k \in 0 .. L /\ ~ Good(k)
      OBVIOUS
    <2>3. k # 0
      <3>1. g[0] = s[0] /\ 0 \in 0 .. L
        BY DEF Strung
      <3>2. Good(0)
        BY <3>1
      <3> QED
        BY <2>2, <3>2
    <2>4. k - 1 \in 0 .. L /\ ~ (k <= k - 1) /\ (k - 1) + 1 = k
      BY <2>2, <2>3
    <2>5. k - 1 \notin T
      BY <2>1, <2>4
    <2>6. Good(k - 1)
      BY <2>4, <2>5
    <2>7. g[k] = g[k - 1] \o s[k]
      BY <2>2, <2>3 DEF Strung
    <2>8. PICK a, b, x, y, z : a = g[k - 1] /\ b = s[k] /\ x = c[0] /\ y = c[k] /\ z = c[k + 1]
      OBVIOUS
    <2>9. /\ a \in Seq(S) /\ b \in Seq(S) /\ y = x + Len(a) /\ z = y + Len(b)
          /\ \A m \in 1 .. Len(a) : <<a[m], x + m>> \in N
          /\ \A m \in 1 .. Len(b) : <<b[m], y + m>> \in N
          /\ g[k] = a \o b
          /\ Len(s[0]) >= 1 => Len(a) >= 1 /\ a[1] = s[0][1]
      BY <2>2, <2>4, <2>6, <2>7, <2>8
    <2>10. x \in Nat /\ y \in Nat /\ z \in Nat
      BY <2>2, <2>8
    <2>11. /\ a \o b \in Seq(S) /\ Len(a \o b) = Len(a) + Len(b) /\ Len(a) \in Nat /\ Len(b) \in Nat
           /\ \A m \in 1 .. Len(a) + Len(b) :
                 (a \o b)[m] = IF m <= Len(a) THEN a[m] ELSE b[m - Len(a)]
      BY <2>9, ConcatProperties, LenProperties
    <2>12. ASSUME NEW m \in 1 .. Len(a \o b)
           PROVE  <<(a \o b)[m], x + m>> \in N
      <3>1. m \in 1 .. Len(a) + Len(b) /\ m \in Nat
        BY <2>11
      <3>2. CASE m <= Len(a)
        <4>1. m \in 1 .. Len(a) /\ (a \o b)[m] = a[m]
          BY <2>11, <3>1, <3>2
        <4> QED
          BY <2>9, <4>1
      <3>3. CASE ~ (m <= Len(a))
        <4>1. m - Len(a) \in 1 .. Len(b) /\ y + (m - Len(a)) = x + m
          BY <2>9, <2>10, <2>11, <3>1, <3>3
        <4>2. <<b[m - Len(a)], y + (m - Len(a))>> \in N
          BY <2>9, <4>1
        <4> QED
          BY <2>11, <3>1, <3>3, <4>1, <4>2
      <3> QED
        BY <3>2, <3>3
    <2>13. z = x + Len(a \o b)
      BY <2>9, <2>10, <2>11
    <2>14. Len(s[0]) >= 1 => Len(a \o b) >= 1 /\ (a \o b)[1] = s[0][1]
      <3>1. Len(a) >= 1 => Len(a) + Len(b) >= 1 /\ 1 \in 1 .. Len(a) + Len(b)
        BY <2>11
      <3> QED
        BY <2>9, <2>11, <3>1
    <2>15. Good(k)
      BY <2>8, <2>9, <2>11, <2>12, <2>13, <2>14
    <2> QED
      BY <2>2, <2>15
  <1>2. L \in 0 .. L
    OBVIOUS
  <1>3. Good(L)
    BY <1>1, <1>2
  <1> QED
    BY <1>3

\* The blocks that Positions puts together are those up to tailBlock.
LEMMA TailHops ==
  ASSUME TypeInv, NEW pos, RingInv(pos)
  PROVE  HopsToTail(Newest) = pos[TB] /\ pos[TB] \in 0 .. RingSize - 1
  <1>1. PICK L, R : L = pos[TB] /\ R = RingSize
    OBVIOUS
  <1>2. /\ R \in Nat /\ R <= MaxBlocks /\ MaxBlocks \in Nat /\ TB \in Ring
        /\ L \in 0 .. R - 1 /\ L \in Nat
    <2>1. RingSize \in Nat /\ RingSize <= allocated
      BY RingBlocks DEF RingSize, TypeInv, Blocks
    <2>2. allocated <= MaxBlocks /\ MaxBlocks \in Nat /\ allocated \in Nat
      BY RingBlocks, Sizes DEF TypeInv, Blocks
    <2>3. TB \in Ring /\ pos[TB] \in 0 .. RingSize - 1
      BY DEF RingInv
    <2> QED
      BY <1>1, <2>1, <2>2, <2>3
  <1>3. ASSUME NEW k \in 0 .. R - 1
        PROVE  Hop(Newest, k) \in Ring /\ pos[Hop(Newest, k)] = k
    BY <1>1, HopPlace
  <1>4. Hop(Newest, L) = TB
    BY <1>1, <1>2, <1>3 DEF RingInv
  <1>5. \A j \in 0 .. L - 1 : Hop(Newest, j) # TB
    <2>1. ASSUME NEW j \in 0 .. L - 1
          PROVE  Hop(Newest, j) # TB
      <3>1. j \in 0 .. R - 1 /\ j # L
        BY <1>2
      <3> QED
        BY <1>1, <1>3, <3>1
    <2> QED
      BY <2>1
  <1> DEFINE There(k) == /\ Hop(Newest, k) = TB
                         /\ \A j \in 0 .. k - 1 : Hop(Newest, j) # TB
  <1>6. ASSUME NEW k \in 0 .. MaxBlocks, There(k)
        PROVE  k = L
    <2>1. CASE k < L
      BY <1>2, <1>5, <1>6, <2>1
    <2>2. CASE L < k
      <3>1. L \in 0 .. k - 1
        BY <1>2, <2>2
      <3> QED
        BY <1>4, <1>6, <3>1
    <2> QED
      BY <1>2, <2>1, <2>2
  <1>7. L \in 0 .. MaxBlocks /\ There(L)
    BY <1>2, <1>4, <1>5
  <1>8. HopsToTail(Newest) = CHOOSE k \in 0 .. MaxBlocks : There(k)
    BY DEF HopsToTail, TB
  <1>9. (CHOOSE k \in 0 .. MaxBlocks : There(k)) = L
    <2> HIDE DEF There
    <2> QED
      BY <1>6, <1>7
  <1> QED
    BY <1>1, <1>2, <1>8, <1>9

\* The entries of Positions and their numbers; the first one may just have been
\* emptied.
Numbered ==
    {z \in (Blocks \X Nat) \X Nat :
        \/ slot[z[1][1]][z[1][2]].val = z[2]
        \/ pc[C] = "release" /\ z[2] = Handed + 1}

LEMMA LiveNumbers ==
  ASSUME Inv, Handed \in Nat, NEW b \in 1 .. allocated, NEW k \in Nat, InOrder(b, k),
         b = FB => k = Handed
  PROVE  LET s == Live(Newest, b) IN
         /\ s \in Seq(Blocks \X Nat) /\ Len(s) = Fill(b)
         /\ \A m \in 1 .. Len(s) : <<s[m], k + m>> \in Numbered
         /\ Fill(b) >= 1 => s[1] = <<b, FrontIx(b)>>
  <1>1. SlotInv
    BY DEF Inv
  <1>2. PICK n, F, T, d : n = size[b] /\ F = FrontIx(b) /\ T = TailIx(b) /\ d = Dist(F, T, n)
    OBVIOUS
  <1>3. n \in Nat /\ n >= 2 /\ F \in 0 .. n - 1 /\ T \in 0 .. n - 1 /\ b \in Blocks
    BY <1>2, BlockFacts
  <1>4. d \in Nat /\ d <= n - 1 /\ (T - F) % n = d
    BY <1>2, <1>3, DistNat, Masked
  <1>5. PICK s : s = [i \in 1 .. d |-> <<b, (F + i - 1) % n>>]
    OBVIOUS
  <1>6. Live(Newest, b) = s
    BY <1>2, <1>4, <1>5 DEF Live, FrontIx, TailIx
  <1>7. ASSUME NEW i \in 1 .. d
        PROVE  /\ s[i] = <<b, (F + i - 1) % n>>
               /\ (F + i - 1) % n \in 0 .. n - 1 /\ (F + i - 1) % n \in Nat
               /\ Dist(F, (F + i - 1) % n, n) = i - 1
    <2>1. i \in 1 .. n
      BY <1>3, <1>4
    <2>2. (F + i - 1) % n \in 0 .. n - 1 /\ Dist(F, (F + i - 1) % n, n) = i - 1
      BY <1>3, <2>1, MaskedSum
    <2> QED
      BY <1>5, <2>2
  <1>8. s \in Seq(Blocks \X Nat) /\ Len(s) = d
    <2>1. ASSUME NEW i \in 1 .. d
          PROVE  s[i] \in Blocks \X Nat
      <3>1. PICK j : j = (F + i - 1) % n
        OBVIOUS
      <3>2. s[i] = <<b, j>> /\ j \in Nat
        BY <1>7, <3>1
      <3> QED
        BY <1>3, <3>2
    <2> QED
      BY <1>4, <1>5, <2>1
  <1>9. ASSUME NEW m \in 1 .. d
        PROVE  <<s[m], k + m>> \in Numbered
    <2>1. PICK j : j = (F + m - 1) % n
      OBVIOUS
    <2>2. s[m] = <<b, j>> /\ j \in 0 .. n - 1 /\ j \in Nat /\ Dist(F, j, n) = m - 1 /\ m \in Nat
      BY <1>7, <2>1
    <2>3. m - 1 < d /\ k + (m - 1) + 1 = k + m /\ k + m \in Nat
      BY <1>4, <2>2
    <2>4. slot[b][j].val # Empty => slot[b][j].val = k + m
      BY <1>2, <2>2, <2>3 DEF InOrder, InOrderBy
    <2>5. slot[b][j].val = Empty => pc[C] = "release" /\ k + m = Handed + 1
      <3> SUFFICES ASSUME slot[b][j].val = Empty
                   PROVE  pc[C] = "release" /\ k + m = Handed + 1
        OBVIOUS
      <3>1. ~ Occupied(b, j)
        BY <1>1, <1>2, <2>2 DEF SlotInv
      <3>2. pc[C] = "release" /\ b = FB /\ j = F
        BY <1>2, <2>2, <2>3, <3>1 DEF Occupied
      <3>3. m - 1 = 0
        BY <1>3, <2>2, <3>2, DistNat
      <3> QED
        BY <2>2, <3>2, <3>3
    <2>6. <<s[m], k + m>> \in (Blocks \X Nat) \X Nat
      BY <1>3, <2>2, <2>3
    <2> QED
      BY <2>2, <2>4, <2>5, <2>6 DEF Numbered
  <1>10. d >= 1 => s[1] = <<b, F>>
    <2> SUFFICES ASSUME d >= 1 PROVE s[1] = <<b, F>>
      OBVIOUS
    <2>1. 1 \in 1 .. d
      BY <1>4
    <2>2. s[1] = <<b, (F + 1 - 1) % n>> /\ (F + 1 - 1) % n \in 0 .. n - 1
          /\ Dist(F, (F + 1 - 1) % n, n) = 1 - 1
      BY <1>7, <2>1
    <2>3. F = (F + 1 - 1) % n
      BY <1>3, <2>2, DistNat
    <2> QED
      BY <2>2, <2>3
  <1> QED
    BY <1>2, <1>6, <1>8, <1>9, <1>10 DEF Fill

LEMMA PositionsNumbers ==
  ASSUME Inv, OrderInv
  PROVE  LET at == Positions(Newest) IN
         /\ at \in Seq(Blocks \X Nat) /\ Handed \in Nat /\ sent = Handed + Len(at)
         /\ \A m \in 1 .. Len(at) : <<at[m], Handed + m>> \in Numbered
         /\ FrontIx(FB) # TailIx(FB) => Len(at) >= 1 /\ at[1] = <<FB, FrontIx(FB)>>
  <1>1. PICK pos, base : /\ pos \in [Ring -> 0 .. RingSize - 1] /\ base \in [Blocks -> Nat]
                         /\ PosInv(pos) /\ Numbers(pos, base)
    BY OrderPlace
  <1>2. TypeInv /\ RingInv(pos) /\ sent \in Nat
    BY <1>1 DEF Inv, TypeInv, PosInv
  <1>3. PICK L, R, a, z : L = pos[TB] /\ R = RingSize /\ a = FB /\ z = TB
    OBVIOUS
  <1>4. HopsToTail(Newest) = L /\ R \in Nat /\ L \in 0 .. R - 1 /\ L \in Nat
    BY <1>2, <1>3, TailHops, RingBlocks
  <1>5. PICK w : w = [i \in 0 .. L |-> Hop(Newest, i)]
    OBVIOUS
  <1>6. \A i \in 0 .. L : /\ w[i] \in Ring /\ w[i] \in Blocks /\ w[i] \in 1 .. allocated
                          /\ pos[w[i]] = i /\ w[i] = Hop(Newest, i)
    <2>1. ASSUME NEW i \in 0 .. L
          PROVE  w[i] \in Ring /\ pos[w[i]] = i /\ w[i] = Hop(Newest, i)
      <3>1. i \in 0 .. R - 1
        BY <1>4
      <3>2. Hop(Newest, i) \in Ring /\ pos[Hop(Newest, i)] = i
        BY <1>2, <1>3, <3>1, HopPlace
      <3> QED
        BY <1>5, <3>2
    <2> QED
      BY <2>1, <1>2, RingBlocks
  <1>7. /\ \A b, c \in Ring : pos[b] = pos[c] => b = c
        /\ a \in Ring /\ a \in Blocks /\ pos[a] = 0 /\ z \in Ring /\ z \in Blocks
        /\ \A b \in Ring : NextB(b) \in Ring /\ (pos[b] # R - 1 => pos[NextB(b)] = pos[b] + 1)
    BY <1>2, <1>3, PendingBlock DEF RingInv
  <1>8. w[0] = a /\ w[L] = z
    <2>1. 0 \in 0 .. L /\ L \in 0 .. L
      BY <1>4
    <2> QED
      BY <2>1, <1>3, <1>6, <1>7
  <1>9. ASSUME NEW i \in 0 .. L, i # L
        PROVE  i + 1 \in 0 .. L /\ w[i + 1] = NextB(w[i])
    <2>1. i + 1 \in 0 .. L /\ i # R - 1
      BY <1>4, <1>9
    <2> QED
      BY <2>1, <1>6, <1>7
  <1>10. PICK c : c = [i \in 0 .. L + 1 |-> IF i = L + 1 THEN sent ELSE base[w[i]]]
    OBVIOUS
  <1>11. \A i \in 0 .. L : i # L + 1 /\ i \in 0 .. L + 1 /\ i + 1 \in 0 .. L + 1 /\ c[i] = base[w[i]]
                           /\ base[w[i]] \in Nat
    BY <1>1, <1>4, <1>6, <1>10
  <1>12. c[L + 1] = sent /\ c[0] = Handed /\ Handed \in Nat
    <2>1. 0 \in 0 .. L /\ L + 1 \in 0 .. L + 1
      BY <1>4
    <2>2. base[a] = Handed
      BY <1>1, <1>3 DEF Numbers
    <2> QED
      BY <2>1, <2>2, <1>8, <1>10, <1>11
  <1>13. \A i \in 0 .. L + 1 : c[i] \in Nat
    <2>1. \A i \in 0 .. L + 1 : i = L + 1 \/ i \in 0 .. L
      BY <1>4
    <2> QED
      BY <2>1, <1>2, <1>11, <1>12
  <1>14. PICK s : s = [i \in 0 .. L |-> Live(Newest, w[i])]
    OBVIOUS
  <1>15. ASSUME NEW i \in 0 .. L
         PROVE  /\ s[i] \in Seq(Blocks \X Nat) /\ c[i + 1] = c[i] + Len(s[i])
                /\ \A m \in 1 .. Len(s[i]) : <<s[i][m], c[i] + m>> \in Numbered
                /\ Len(s[i]) = Fill(w[i])
                /\ Fill(w[i]) >= 1 => s[i][1] = <<w[i], FrontIx(w[i])>>
    <2>1. PICK b, k : b = w[i] /\ k = c[i]
      OBVIOUS
    <2>2. b \in Ring /\ b \in 1 .. allocated /\ pos[b] = i /\ k = base[b] /\ k \in Nat
      BY <1>6, <1>11, <2>1
    <2>3. pos[b] <= pos[TB] /\ (i # L => pos[b] < pos[TB])
      BY <1>3, <1>4, <2>2
    <2>4. InOrder(b, k) /\ (i # L => base[NextB(b)] = base[b] + Fill(b))
      BY <1>1, <2>2, <2>3 DEF Numbers
    <2>5. b = FB => k = Handed
      BY <1>1, <2>2 DEF Numbers
    <2>6. LET l == Live(Newest, b) IN
          /\ l \in Seq(Blocks \X Nat) /\ Len(l) = Fill(b)
          /\ \A m \in 1 .. Len(l) : <<l[m], k + m>> \in Numbered
          /\ Fill(b) >= 1 => l[1] = <<b, FrontIx(b)>>
      BY <1>12, <2>2, <2>4, <2>5, LiveNumbers
    <2>7. s[i] = Live(Newest, b)
      BY <1>14, <2>1
    <2>8. c[i + 1] = k + Fill(b)
      <3>1. CASE i = L
        <4>1. base[z] + Fill(TB) = sent
          BY <1>1, <1>3 DEF Numbers
        <4>2. b = z /\ b = TB
          BY <1>3, <1>8, <2>1, <3>1
        <4> QED
          BY <1>12, <2>2, <3>1, <4>1, <4>2
      <3>2. CASE i # L
        BY <1>9, <1>11, <2>1, <2>2, <2>4, <3>2
      <3> QED
        BY <3>1, <3>2
    <2> QED
      BY <2>1, <2>6, <2>7, <2>8
  <1>16. PICK g : Strung(L, s, g) /\ Positions(Newest) = g[L]
    <2> DEFINE Upto(g) == g = [k \in 0 .. HopsToTail(Newest) |->
                                  IF k = 0 THEN Live(Newest, Newest(FrontBlock))
                                  ELSE g[k - 1] \o Live(Newest, Hop(Newest, k))]
    <2>1. Positions(Newest) = (CHOOSE g : Upto(g))[HopsToTail(Newest)]
      BY DEF Positions
    <2>2. ASSUME NEW g
          PROVE  Upto(g) <=> Strung(L, s, g)
      <3>1. ASSUME NEW k \in 0 .. L
            PROVE  /\ Live(Newest, Hop(Newest, k)) = s[k]
                   /\ k = 0 => Live(Newest, Newest(FrontBlock)) = s[0]
        BY <1>3, <1>6, <1>8, <1>14 DEF FB
      <3>2. [k \in 0 .. L |-> IF k = 0 THEN Live(Newest, Newest(FrontBlock))
                                       ELSE g[k - 1] \o Live(Newest, Hop(Newest, k))]
              = [k \in 0 .. L |-> IF k = 0 THEN s[0] ELSE g[k - 1] \o s[k]]
        BY <3>1
      <3> QED
        BY <1>4, <3>2 DEF Strung
    <2>3. \E g : Upto(g)
      BY <1>4, <2>2, StrungExists
    <2> HIDE DEF Upto
    <2>4. Upto(CHOOSE g : Upto(g))
      BY <2>3
    <2> QED
      BY <1>4, <2>1, <2>2, <2>4
  <1>17. /\ g[L] \in Seq(Blocks \X Nat) /\ c[L + 1] = c[0] + Len(g[L])
         /\ \A m \in 1 .. Len(g[L]) : <<g[L][m], c[0] + m>> \in Numbered
         /\ Len(s[0]) >= 1 => Len(g[L]) >= 1 /\ g[L][1] = s[0][1]
    <2>1. PICK S, N : S = Blocks \X Nat /\ N = Numbered
      OBVIOUS
    <2>2. Counted(L, s, c, S, N)
      BY <1>13, <1>15, <2>1 DEF Counted
    <2>3. Strung(L, s, g)
      BY <1>16
    <2>4. /\ g[L] \in Seq(S) /\ c[L + 1] = c[0] + Len(g[L])
          /\ \A m \in 1 .. Len(g[L]) : <<g[L][m], c[0] + m>> \in N
          /\ Len(s[0]) >= 1 => Len(g[L]) >= 1 /\ g[L][1] = s[0][1]
      BY <2>2, <2>3, <1>4, StrungNumbers
    <2> QED
      BY <2>1, <2>4
  <1>18. FrontIx(a) # TailIx(a) => Len(g[L]) >= 1 /\ g[L][1] = <<a, FrontIx(a)>>
    <2> SUFFICES ASSUME FrontIx(a) # TailIx(a)
                 PROVE  Len(g[L]) >= 1 /\ g[L][1] = <<a, FrontIx(a)>>
      OBVIOUS
    <2>1. 0 \in 0 .. L
      BY <1>4
    <2>2. Fill(a) >= 1
      <3>1. a \in 1 .. allocated
        BY <1>3, PendingBlock
      <3>2. size[a] \in Nat /\ FrontIx(a) \in 0 .. size[a] - 1 /\ TailIx(a) \in 0 .. size[a] - 1
        BY <3>1, BlockFacts
      <3>3. Fill(a) \in Nat /\ Fill(a) # 0
        BY <3>2, DistNat DEF Fill
      <3> QED
        BY <3>3
    <2>3. Len(s[0]) = Fill(a) /\ s[0][1] = <<a, FrontIx(a)>>
      BY <1>8, <1>15, <2>1, <2>2
    <2> QED
      BY <1>17, <2>2, <2>3
  <1> QED
    BY <1>3, <1>12, <1>16, <1>17, <1>18

\* The numbers that are sent and not received, in order.
Waiting == [i \in 1 .. sent - Len(received) |-> Len(received) + i]

LEMMA ContentWaits ==
  ASSUME Inv, OrderInv
  PROVE  Content = Waiting /\ Len(received) \in Nat /\ Len(received) <= sent
  <1>1. PICK pos : PosInv(pos)
    BY DEF Inv
  <1>2. SlotInv /\ ConsumerInv(pos) /\ Given /\ sent \in Nat
    BY <1>1 DEF Inv, TypeInv, PosInv, OrderInv
  <1>3. PICK at, n, h, r : at = Positions(Newest) /\ n = Len(at) /\ h = Handed /\ r = Len(received)
    OBVIOUS
  <1>4. /\ at \in Seq(Blocks \X Nat) /\ h \in Nat /\ sent = h + n /\ n \in Nat
        /\ \A m \in 1 .. n : <<at[m], h + m>> \in Numbered
        /\ FrontIx(FB) # TailIx(FB) => n >= 1 /\ at[1] = <<FB, FrontIx(FB)>>
    BY <1>3, PositionsNumbers
  <1>5. r \in Nat /\ h = IF pc[C] = "release" THEN r - 1 ELSE r
    <2>1. received \in Seq(Nat)
      BY <1>2 DEF Given
    <2> QED
      BY <2>1, <1>3, LenProperties DEF Handed
  <1>6. PICK v : v = [i \in 1 .. n |-> slot[at[i][1]][at[i][2]].val]
    OBVIOUS
  <1>7. Content = IF v # <<>> /\ Head(v) = Empty THEN Tail(v) ELSE v
    <2>1. DOMAIN at = 1 .. n
      BY <1>3, <1>4
    <2> QED
      BY <1>3, <1>6, <2>1 DEF Content
  <1>8. \A m \in 1 .. n : v[m] = h + m \/ (pc[C] = "release" /\ m = 1)
    <2>1. ASSUME NEW m \in 1 .. n
          PROVE  v[m] = h + m \/ (pc[C] = "release" /\ m = 1)
      <3>1. PICK x, k : x = at[m] /\ k = h + m
        OBVIOUS
      <3>2. <<x, k>> \in Numbered
        BY <1>4, <3>1
      <3>3. slot[x[1]][x[2]].val = k \/ (pc[C] = "release" /\ k = h + 1)
        BY <1>3, <3>2 DEF Numbered
      <3>4. v[m] = slot[x[1]][x[2]].val
        BY <1>6, <3>1
      <3>5. k = h + 1 => m = 1
        BY <1>4, <3>1
      <3> QED
        BY <3>1, <3>3, <3>4, <3>5
    <2> QED
      BY <2>1
  <1>9. CASE pc[C] # "release"
    <2>1. v = [i \in 1 .. n |-> r + i] /\ n = sent - r
      BY <1>4, <1>5, <1>6, <1>8, <1>9
    <2>2. v # <<>> => Head(v) # Empty
      <3>1. v \in Seq(Nat) /\ Len(v) = n
        BY <1>4, <1>5, <2>1
      <3>2. ASSUME v # <<>>
            PROVE  Head(v) = r + 1
        <4>1. n # 0
          BY <3>1, <3>2
        <4>2. 1 \in 1 .. n
          BY <1>4, <4>1
        <4> QED
          BY <2>1, <3>1, <4>2
      <3> QED
        BY <3>2, <1>5 DEF Empty
    <2>3. Content = v
      BY <1>7, <2>2
    <2>4. Waiting = [i \in 1 .. sent - r |-> r + i]
      BY <1>3 DEF Waiting
    <2>5. r <= sent
      BY <1>4, <1>5, <1>9
    <2> QED
      BY <1>3, <1>5, <2>1, <2>3, <2>4, <2>5
  <1>10. CASE pc[C] = "release"
    <2>1. FrontIx(FB) # TailIx(FB)
      <3>1. call[C].block = FB /\ FrontIx(FB) # localTail[FB]
        BY <1>2, <1>10 DEF ConsumerInv
      <3> QED
        BY <1>10, <1>1, <1>2, <3>1, FrontNotEmpty DEF Inv
    <2>2. n >= 1 /\ at[1] = <<FB, FrontIx(FB)>> /\ 1 \in 1 .. n
      BY <1>4, <2>1
    <2>3. v[1] = Empty
      <3>1. FB \in 1 .. allocated /\ FrontIx(FB) \in 0 .. size[FB] - 1
        BY PendingBlock, BlockFacts
      <3>2. ~ Occupied(FB, FrontIx(FB))
        BY <1>10, <2>1, PendingBlock DEF Occupied
      <3>3. slot[FB][FrontIx(FB)].val = Empty
        BY <1>2, <3>1, <3>2 DEF SlotInv
      <3> QED
        BY <1>6, <2>2, <3>3
    <2>4. /\ v \in Seq(Nat) /\ Len(v) = n /\ v # <<>> /\ Head(v) = Empty
      <3>1. \A m \in 1 .. n : v[m] \in Nat
        BY <1>4, <1>8, <2>3 DEF Empty
      <3>2. v \in Seq(Nat) /\ Len(v) = n
        BY <1>4, <1>6, <3>1
      <3> QED
        BY <2>2, <2>3, <3>2
    <2>5. Content = Tail(v)
      BY <1>7, <2>4
    <2>6. Tail(v) = [i \in 1 .. n - 1 |-> v[i + 1]]
      <3>1. PICK u : u = Tail(v)
        OBVIOUS
      <3>2. u \in Seq(Nat) /\ Len(u) = n - 1 /\ \A i \in 1 .. n - 1 : u[i] = v[i + 1]
        BY <2>4, <3>1, HeadTailProperties
      <3>3. u = [i \in 1 .. n - 1 |-> u[i]]
        BY <3>2, LenProperties
      <3> QED
        BY <3>1, <3>2, <3>3
    <2>7. ASSUME NEW i \in 1 .. n - 1
          PROVE  v[i + 1] = r + i
      <3>1. i + 1 \in 1 .. n /\ i + 1 # 1 /\ h + (i + 1) = r + i
        BY <1>4, <1>5, <1>10
      <3> QED
        BY <1>8, <3>1
    <2>8. n - 1 = sent - r
      BY <1>4, <1>5, <1>10
    <2>9. [i \in 1 .. n - 1 |-> v[i + 1]] = [i \in 1 .. n - 1 |-> r + i]
      BY <2>7
    <2>10. Waiting = [i \in 1 .. sent - r |-> r + i]
      BY <1>3 DEF Waiting
    <2>11. r <= sent
      BY <1>4, <1>5, <1>10, <2>2
    <2> QED
      BY <1>3, <1>5, <2>5, <2>6, <2>8, <2>9, <2>10, <2>11
  <1> QED
    BY <1>9, <1>10

\* What the queue holds is what was sent and is not received.
THEOREM ContentIsWaiting ==
  ASSUME ~ Relaxed \/ C \notin SizeCallers
  PROVE  Spec => [](Content = Waiting)
  BY ContentWaits, Invariance, OrderInvariance, PTL

LEMMA WaitingSeq ==
  ASSUME NEW r \in Nat, NEW n \in Nat, NEW w, w = [i \in 1 .. n |-> r + i]
  PROVE  /\ w \in Seq(Nat) /\ Len(w) = n
         /\ [i \in 1 .. n + 1 |-> r + i] = Append(w, r + n + 1)
         /\ n > 0 => /\ w # <<>> /\ Head(w) = r + 1
                     /\ Tail(w) = [i \in 1 .. n - 1 |-> (r + 1) + i]
  <1>1. w \in Seq(Nat) /\ Len(w) = n
    OBVIOUS
  <1>2. [i \in 1 .. n + 1 |-> r + i] = Append(w, r + n + 1)
    <2>1. PICK u : u = Append(w, r + n + 1)
      OBVIOUS
    <2>2. /\ u \in Seq(Nat) /\ Len(u) = n + 1 /\ u[n + 1] = r + n + 1
          /\ \A i \in 1 .. n : u[i] = w[i]
      BY <1>1, <2>1, AppendProperties
    <2>3. u = [i \in 1 .. n + 1 |-> u[i]]
      BY <2>2, LenProperties
    <2>4. ASSUME NEW i \in 1 .. n + 1
          PROVE  u[i] = r + i
      <3>1. CASE i \in 1 .. n
        BY <2>2, <3>1
      <3>2. CASE i = n + 1
        BY <2>2, <3>2
      <3> QED
        BY <3>1, <3>2
    <2> QED
      BY <2>1, <2>3, <2>4
  <1>3. ASSUME n > 0
        PROVE  /\ w # <<>> /\ Head(w) = r + 1
               /\ Tail(w) = [i \in 1 .. n - 1 |-> (r + 1) + i]
    <2>1. w # <<>> /\ Head(w) = r + 1
      <3>1. 1 \in 1 .. n
        BY <1>3
      <3> QED
        BY <1>1, <1>3, <3>1
    <2>2. PICK u : u = Tail(w)
      OBVIOUS
    <2>3. u \in Seq(Nat) /\ Len(u) = n - 1 /\ \A i \in 1 .. n - 1 : u[i] = w[i + 1]
      BY <1>1, <2>1, <2>2, HeadTailProperties
    <2>4. u = [i \in 1 .. n - 1 |-> u[i]]
      BY <2>3, LenProperties
    <2>5. ASSUME NEW i \in 1 .. n - 1
          PROVE  u[i] = (r + 1) + i
      <3>1. i + 1 \in 1 .. n /\ r + (i + 1) = (r + 1) + i
        OBVIOUS
      <3> QED
        BY <2>3, <3>1
    <2> QED
      BY <2>1, <2>2, <2>4, <2>5
  <1> QED
    BY <1>1, <1>2, <1>3

\* What peek has shown is the element that the next dequeue takes, although peek
\* finds it, past an empty front block, in a block that it leaves for the dequeue
\* to move to.
THEOREM PeekShowsNext ==
  ASSUME ~ Relaxed \/ C \notin SizeCallers
  PROVE  Spec => []PeekIsNext
  <1>1. ASSUME Inv, OrderInv
        PROVE  PeekIsNext
    <2>1. Content = Waiting /\ Len(received) \in Nat /\ sent \in Nat /\ Given
      BY <1>1, ContentWaits DEF Inv, TypeInv, OrderInv
    <2> SUFFICES ASSUME peeked # Empty
                 PROVE  Content # <<>> /\ Head(Content) = peeked
      BY DEF PeekIsNext
    <2>2. PICK r, n : r = Len(received) /\ n = sent - Len(received)
      OBVIOUS
    <2>3. peeked = r + 1 /\ r \in Nat /\ n \in Nat /\ n > 0
      BY <2>1, <2>2 DEF Given
    <2>4. Waiting = [i \in 1 .. n |-> r + i]
      BY <2>2 DEF Waiting
    <2> QED
      BY <2>1, <2>3, <2>4, WaitingSeq
  <1> QED
    BY <1>1, Invariance, OrderInvariance, PTL

\* What a step makes of the two histories.
LEMMA HistorySteps ==
  ASSUME Inv, OrderInv, [Next]_vars
  PROVE  \/ sent' = sent + 1 /\ received' = received
         \/ /\ sent' = sent /\ received' = Append(received, Len(received) + 1)
            /\ Len(received) < sent
         \/ sent' = sent /\ received' = received
  <1>1. CASE Enqueue_Start \/ Dequeue_Start
    BY <1>1 DEF Enqueue_Start, Dequeue_Start, pVars, cVars
  <1>2. CASE ProducerStep
    BY <1>2 DEF ProducerStep, Enqueue_Write, Enqueue_Publish, Enqueue_Full, Enqueue_Advance,
       Enqueue_WriteNext, Enqueue_PublishNext, Enqueue_Alloc, Enqueue_NoMemory, Enqueue_Link,
       Enqueue_PublishBlock, pVars, cVars
  <1>3. CASE Dequeue_Take
    BY <1>3, TakenElement DEF Dequeue_Take, FrontIx, pVars
  <1>4. CASE ConsumerStep /\ ~ Dequeue_Take
    BY <1>4 DEF ConsumerStep, Dequeue_Release, Dequeue_CheckTail, Dequeue_Recheck,
       Dequeue_ReadNext, Dequeue_CheckNext, Dequeue_MoveFront, pVars, cVars
  <1>5. CASE SizeStep
    BY <1>5 DEF SizeStep, Size_Start, Size_Count, Size_Follow, pVars, cVars
  <1>6. CASE UNCHANGED vars
    BY <1>6 DEF vars, pVars, cVars
  <1> QED
    BY <1>1, <1>2, <1>3, <1>4, <1>5, <1>6 DEF Next

LEMMA FifoStep ==
  ASSUME Inv, OrderInv, [Next]_vars, Content = Waiting, Content' = Waiting'
  PROVE  [Fifo!Next]_(Fifo!vars)
  <1>1. PICK r, n, w : r = Len(received) /\ n = sent - Len(received) /\ w = Content
    OBVIOUS
  <1>2. r \in Nat /\ n \in Nat /\ sent \in Nat /\ sent = r + n /\ received \in Seq(Nat)
        /\ w = [i \in 1 .. n |-> r + i]
    <2>1. Len(received) \in Nat /\ Len(received) <= sent /\ sent \in Nat /\ received \in Seq(Nat)
      BY ContentWaits DEF Inv, TypeInv, OrderInv, Given
    <2> QED
      BY <1>1, <2>1 DEF Waiting
  <1>3. CASE sent' = sent + 1 /\ received' = received
    <2>1. Content' = [i \in 1 .. n + 1 |-> r + i]
      <3>1. Content' = [i \in 1 .. sent' - Len(received') |-> Len(received') + i]
        BY DEF Waiting
      <3>2. sent' - Len(received') = n + 1 /\ Len(received') = r
        BY <1>1, <1>2, <1>3
      <3> QED
        BY <3>1, <3>2
    <2>2. Content' = Append(w, r + n + 1)
      BY <2>1, <1>2, WaitingSeq
    <2>3. r + n + 1 = sent'
      BY <1>2, <1>3
    <2>4. Fifo!Accept
      BY <1>1, <1>3, <2>2, <2>3 DEF Fifo!Accept
    <2> QED
      BY <2>4 DEF Fifo!Next
  <1>4. CASE /\ sent' = sent /\ received' = Append(received, Len(received) + 1)
             /\ Len(received) < sent
    <2>1. n > 0
      BY <1>1, <1>2, <1>4
    <2>2. w # <<>> /\ Head(w) = r + 1 /\ Tail(w) = [i \in 1 .. n - 1 |-> (r + 1) + i]
      BY <1>2, <2>1, WaitingSeq
    <2>3. Content' = Tail(w)
      <3>1. Content' = [i \in 1 .. sent' - Len(received') |-> Len(received') + i]
        BY DEF Waiting
      <3>2. Len(received') = r + 1
        BY <1>1, <1>2, <1>4, AppendProperties
      <3>3. sent' - Len(received') = n - 1
        BY <3>2, <1>2, <1>4
      <3> QED
        BY <3>1, <3>2, <3>3, <2>2
    <2>4. Fifo!Deliver
      BY <1>1, <1>4, <2>2, <2>3 DEF Fifo!Deliver
    <2> QED
      BY <2>4 DEF Fifo!Next
  <1>5. CASE sent' = sent /\ received' = received
    <2>1. Content' = Content
      BY <1>5 DEF Waiting
    <2> QED
      BY <1>5, <2>1 DEF Fifo!vars
  <1> QED
    BY <1>3, <1>4, <1>5, HistorySteps

\* The queue is a queue: every step of the lock-free algorithm, with its blocks,
\* its copied indices and its relaxed loads, accepts one element at the end, hands
\* out the one at the front, or changes nothing that can be seen.
THEOREM QueueIsFifo ==
  ASSUME ~ Relaxed \/ C \notin SizeCallers
  PROVE  Spec => ImplementsFifo
  <1>1. Init => Fifo!Init
    <2> SUFFICES ASSUME Init PROVE Fifo!Init
      OBVIOUS
    <2>1. sent = 0 /\ received = <<>>
      BY DEF Init
    <2>2. Content = Waiting
      BY InitInv, InitOrder, ContentWaits
    <2>3. Waiting = <<>>
      BY <2>1 DEF Waiting
    <2> QED
      BY <2>1, <2>2, <2>3 DEF Fifo!Init
  <1>2. /\ Inv /\ OrderInv /\ [Next]_vars /\ Content = Waiting /\ (Content = Waiting)'
        => [Fifo!Next]_(Fifo!vars)
    BY FifoStep
  <1> QED
    BY <1>1, <1>2, Invariance, OrderInvariance, ContentIsWaiting, PTL
       DEF Spec, ImplementsFifo, Fifo!Spec

-------------------------------------------------------------------------------
(***************************************************************************)
(* An empty answer.  A consumer that has found its block empty by a fresh    *)
(* load of tail goes on to look at tailBlock, and all it may find there      *)
(* depends on what it could have known when its call began.                 *)
(***************************************************************************)
NotAtTail == pc[C] = "checkTail" /\ call[C].atStart # 0 => FB \notin Readable(TailBlock)

\* Until the consumer looks, the producer publishes only blocks that are not
\* frontBlock.
LEMMA ProducerNotAtTail ==
  ASSUME Inv, NotAtTail, Enqueue_Start \/ ProducerStep
  PROVE  NotAtTail' /\ pc'[C] = pc[C]
  <1>1. MemInv /\ TypeInv /\ CallsTyped
    BY DEF Inv, TypeInv
  <1>2. P # C /\ P \in Threads /\ C \in Threads /\ C \in DOMAIN pc /\ C \in DOMAIN call
    BY <1>1, Locs DEF CallsTyped
  <1>3. ASSUME pc'[C] = pc[C], call'[C] = call[C], FB' = FB, NEW b, b # FB,
               Readable(TailBlock)' \subseteq Readable(TailBlock) \cup {b}
        PROVE  NotAtTail' /\ pc'[C] = pc[C]
    BY <1>3 DEF NotAtTail
  <1>4. ASSUME pc'[C] = pc[C], call'[C] = call[C], FB' = FB, mem'[TailBlock] = mem[TailBlock]
        PROVE  NotAtTail' /\ pc'[C] = pc[C]
    BY <1>4 DEF NotAtTail, Readable
  <1>5. ASSUME Looks(P), pc'[C] = pc[C], call'[C] = call[C]
        PROVE  NotAtTail' /\ pc'[C] = pc[C]
    <2>1. FB' = FB /\ mem'[TailBlock] = mem[TailBlock]
      BY <1>1, <1>5, Locs, Owners, TrimSame DEF Looks, Same
    <2> QED
      BY <1>4, <1>5, <2>1
  <1>6. CASE Enqueue_Start \/ Enqueue_Full \/ Enqueue_Advance
    BY <1>5, <1>6, EnqueueStartLooks, EnqueueFullLooks, EnqueueAdvanceLooks
  <1>7. ASSUME Goto(P, "idle") \/ \E l : Goto(P, l)
        PROVE  pc'[C] = pc[C]
    BY <1>2, <1>7 DEF Goto
  <1>8. ASSUME call' = call \/ Return(P) \/ \E l, b : GoOnWith(P, l, b)
        PROVE  call'[C] = call[C]
    BY <1>2, <1>8 DEF Return, GoOnWith
  <1>9. CASE Enqueue_Write \/ Enqueue_WriteNext \/ Enqueue_NoMemory
    <2>1. mem' = mem /\ pc'[C] = pc[C] /\ call'[C] = call[C]
      BY <1>7, <1>8, <1>9 DEF Enqueue_Write, Enqueue_WriteNext, Enqueue_NoMemory, GoOn, Return, memVars
    <2> QED
      BY <1>4, <2>1 DEF FB, Newest
  <1>10. CASE Enqueue_Publish \/ Enqueue_PublishNext \/ Enqueue_Alloc \/ Enqueue_Link
    <2>1. pc'[C] = pc[C] /\ call'[C] = call[C]
      BY <1>7, <1>8, <1>10
         DEF Enqueue_Publish, Enqueue_PublishNext, Enqueue_Alloc, Enqueue_Link, GoOn, GoOnWith, Return
    <2>2. mem'[FrontBlock] = mem[FrontBlock] /\ mem'[TailBlock] = mem[TailBlock]
      <3>1. ASSUME NEW loc, NEW x, mem' = [mem EXCEPT ![loc] = x], loc # FrontBlock, loc # TailBlock
            PROVE  mem'[FrontBlock] = mem[FrontBlock] /\ mem'[TailBlock] = mem[TailBlock]
        BY <1>1, <3>1, Locs DEF MemInv
      <3>2. CASE Enqueue_Publish \/ Enqueue_PublishNext \/ Enqueue_Link
        BY <3>1, <3>2, Locs DEF Enqueue_Publish, Enqueue_PublishNext, Enqueue_Link, StoreReleased, Store
      <3>3. CASE Enqueue_Alloc
        BY <1>1, <3>3, Locs DEF Enqueue_Alloc, MemInv
      <3> QED
        BY <1>10, <3>2, <3>3
    <2> QED
      BY <1>4, <2>1, <2>2 DEF FB, Newest
  <1>11. CASE Enqueue_PublishBlock
    <2>1. pc'[C] = pc[C] /\ call'[C] = call[C]
      BY <1>7, <1>8, <1>11 DEF Enqueue_PublishBlock, Return
    <2>2. PICK b, h, e : b = call[P].block /\ h = mem[TailBlock] /\ e = epoch'[P]
      OBVIOUS
    <2>3. mem' = [mem EXCEPT ![TailBlock] = Put(h, b, e)]
      BY <1>11, <2>2 DEF Enqueue_PublishBlock, StoreReleased
    <2>4. mem'[FrontBlock] = mem[FrontBlock] /\ mem'[TailBlock] = Put(h, b, e)
      BY <1>1, <2>3, Locs DEF MemInv
    <2>5. b # FB /\ h \in Seq(Stores) /\ h # <<>> /\ b \in Blocks
      BY <1>1, <1>11, <2>2, PendingBlock, History, Locs DEF Enqueue_PublishBlock
    <2>6. Readable(TailBlock)' \subseteq Readable(TailBlock) \cup {b}
      <3>1. PICK g, x, y : /\ g = Put(h, b, e) /\ x = [val |-> b, at |-> e]
                           /\ y = [val |-> b, at |-> 0]
        OBVIOUS
      <3>2. \A i \in DOMAIN g : g[i] = x \/ g[i] = y \/ (i \in DOMAIN h /\ g[i] = h[i])
        <4>1. CASE Relaxed
          <5>1. g = Append(h, x)
            BY <3>1, <4>1 DEF Put
          <5> QED
            BY <5>1, <2>5
        <4>2. CASE ~ Relaxed
          <5>1. g = <<y>>
            BY <3>1, <4>2 DEF Put
          <5> QED
            BY <5>1
        <4> QED
          BY <4>1, <4>2
      <3>3. x.val = b /\ y.val = b
        BY <3>1
      <3> QED
        BY <2>2, <2>4, <3>1, <3>2, <3>3 DEF Readable
    <2> QED
      BY <1>3, <2>1, <2>4, <2>5, <2>6 DEF FB, Newest
  <1> QED
    BY <1>6, <1>9, <1>10, <1>11 DEF ProducerStep

\* The consumer's own view of an empty block that could be the tail block.
LEMMA KnownEmpty ==
  ASSUME Oldest(TailBlock) = FB, Oldest(TailOf(FB)) = FrontIx(FB), MaxBlocks \in Nat,
         FrontIx(FB) \in Nat, size[FB] \in Nat, size[FB] >= 2
  PROVE  Length(C) = 0
  <1>1. /\ Known(C, FrontBlock) = FB /\ Known(C, TailBlock) = FB
        /\ Known(C, FrontOf(FB)) = FrontIx(FB) /\ Known(C, TailOf(FB)) = FrontIx(FB)
    BY Locs, Owners DEF Known, FB, FrontIx
  <1> DEFINE V(loc) == Known(C, loc)
  <1>2. Hop(V, 0) = FB
    <2> DEFINE Walk(h) == h = [i \in 0 .. 0 |-> IF i = 0 THEN V(FrontBlock) ELSE V(NextOf(h[i - 1]))]
    <2>1. Hop(V, 0) = (CHOOSE x : Walk(x))[0]
      BY DEF Hop
    <2>2. PICK w : w = [i \in 0 .. 0 |-> FB]
      OBVIOUS
    <2>3. Walk(w)
      <3>1. \A i \in 0 .. 0 : i = 0
        OBVIOUS
      <3> QED
        BY <1>1, <2>2, <3>1
    <2>4. Walk(CHOOSE x : Walk(x))
      <3> HIDE DEF Walk
      <3> QED
        BY <2>3
    <2>5. (CHOOSE x : Walk(x))[0] = FB
      <3>1. PICK h : h = CHOOSE x : Walk(x)
        OBVIOUS
      <3>2. Walk(h)
        BY <2>4, <3>1
      <3>3. h[0] = FB
        BY <1>1, <3>2
      <3> QED
        BY <3>1, <3>3
    <2> QED
      BY <2>1, <2>5
  <1>3. HopsToTail(V) = 0
    <2> DEFINE There(k) == Hop(V, k) = V(TailBlock) /\ \A j \in 0 .. k - 1 : Hop(V, j) # V(TailBlock)
    <2>1. HopsToTail(V) = CHOOSE k \in 0 .. MaxBlocks : There(k)
      BY DEF HopsToTail
    <2>2. 0 \in 0 .. MaxBlocks /\ There(0)
      BY <1>1, <1>2
    <2>3. ASSUME NEW k \in 0 .. MaxBlocks, There(k)
          PROVE  k = 0
      <3>1. k # 0 => 0 \in 0 .. k - 1
        OBVIOUS
      <3> QED
        BY <1>1, <1>2, <2>3, <3>1
    <2> HIDE DEF There
    <2> QED
      BY <2>1, <2>2, <2>3
  <1>4. Live(V, FB) = <<>>
    <2>1. (FrontIx(FB) - FrontIx(FB)) % size[FB] = 0
      OBVIOUS
    <2>2. Live(V, FB) = [i \in 1 .. 0 |-> <<FB, (FrontIx(FB) + i - 1) % size[FB]>>]
      BY <1>1, <2>1 DEF Live
    <2> QED
      BY <2>2
  <1>5. Positions(V) = <<>>
    <2> DEFINE Upto(g) == g = [k \in 0 .. HopsToTail(V) |->
                                  IF k = 0 THEN Live(V, V(FrontBlock))
                                  ELSE g[k - 1] \o Live(V, Hop(V, k))]
    <2>1. Positions(V) = (CHOOSE x : Upto(x))[HopsToTail(V)]
      BY DEF Positions
    <2>2. PICK g : g = [k \in 0 .. 0 |-> <<>>]
      OBVIOUS
    <2>3. Upto(g)
      <3>1. \A k \in 0 .. 0 : k = 0
        OBVIOUS
      <3> QED
        BY <1>1, <1>3, <1>4, <2>2, <3>1
    <2>4. Upto(CHOOSE x : Upto(x))
      <3> HIDE DEF Upto
      <3> QED
        BY <2>3
    <2>5. PICK h : h = CHOOSE x : Upto(x)
      OBVIOUS
    <2>6. h[0] = <<>>
      <3>1. Upto(h)
        <4> HIDE DEF Upto
        <4> QED
          BY <2>4, <2>5
      <3>2. h[0] = Live(V, V(FrontBlock))
        BY <1>3, <3>1
      <3> QED
        BY <1>1, <1>4, <3>2
    <2> QED
      BY <1>3, <2>1, <2>5, <2>6
  <1>6. Length(C) = Len(Positions(V))
    BY DEF Length
  <1> QED
    BY <1>5, <1>6

LEMMA DequeueStartNotAtTail ==
  ASSUME Inv, Dequeue_Start
  PROVE  NotAtTail'
  <1>1. PICK pos : PosInv(pos)
    BY DEF Inv
  <1>2. /\ MemInv /\ TypeInv /\ CallsTyped /\ RingInv(pos) /\ TailBlockInv(pos)
        /\ C \in Threads /\ C \in DOMAIN call
    BY <1>1, Locs DEF Inv, TypeInv, PosInv, CallsTyped
  <1>3. Looks(C) /\ (pc'[C] = "checkTail" => FrontIx(FB) = localTail'[FB])
    BY DequeueStartLooks
  <1>4. call'[C].atStart = Length(C)
    <2>1. PICK op : Begin(C, op, FB)
      BY DEF Dequeue_Start, FB
    <2>2. PICK k : k = Length(C)
      OBVIOUS
    <2>3. call'[C] = [NoCall EXCEPT !.op = op, !.block = FB, !.first = FB, !.atStart = k]
      BY <1>2, <2>1, <2>2 DEF Begin
    <2> QED
      BY <2>2, <2>3 DEF NoCall
  <1> SUFFICES ASSUME pc'[C] = "checkTail", FB' \in Readable(TailBlock)'
               PROVE  Length(C) = 0
    BY <1>4 DEF NotAtTail
  <1>5. PICK b, f, h, l : b = FB /\ f = FrontIx(FB) /\ h = mem[TailBlock] /\ l = mem[TailOf(FB)]
    OBVIOUS
  <1>6. /\ b \in 1 .. allocated /\ b \in Blocks /\ b \in Ring /\ pos[b] = 0 /\ TB \in Ring
        /\ FB' = b /\ TailOf(b) \in Locations /\ TailBlock \in Locations
    BY <1>2, <1>3, <1>5, PendingBlock, TrimSame, Locs DEF RingInv, Looks, Same
  <1>7. h[1].val = b
    <2>1. Len(h) \in Nat /\ Len(h) >= 1 /\ DOMAIN h = 1 .. Len(h)
      BY <1>2, <1>5, <1>6, History
    <2>2. PICK i \in 1 .. Len(h) : h[i].val = b
      <3>1. PICK j \in DOMAIN mem'[TailBlock] : mem'[TailBlock][j].val = b
        BY <1>6 DEF Readable
      <3>2. /\ Len(mem'[TailBlock]) \in 1 .. Len(h) /\ mem'[TailBlock] \in Seq(Stores)
            /\ \A k \in 1 .. Len(mem'[TailBlock]) :
                  mem'[TailBlock][k] = h[k + (Len(h) - Len(mem'[TailBlock]))]
        BY <1>3, <1>5, <1>6 DEF Looks, Trim
      <3>3. j \in 1 .. Len(mem'[TailBlock])
        BY <3>1, <3>2, LenProperties
      <3>4. j + (Len(h) - Len(mem'[TailBlock])) \in 1 .. Len(h)
        BY <2>1, <3>2, <3>3
      <3> QED
        BY <3>1, <3>2, <3>3, <3>4
    <2>3. PICK p : p = pos[TB]
      OBVIOUS
    <2>4. pos[h[i].val] = p - (Len(h) - i)
      BY <1>2, <1>5, <2>2, <2>3 DEF TailBlockInv
    <2>5. h[1].val \in Ring /\ pos[h[1].val] = p - (Len(h) - 1)
      BY <1>2, <1>5, <2>1, <2>3 DEF TailBlockInv
    <2>6. pos[h[1].val] \in Nat /\ p \in Nat
      <3>1. pos \in [Ring -> 0 .. RingSize - 1]
        BY <1>2 DEF RingInv
      <3>2. PICK x : x = h[1].val
        OBVIOUS
      <3>3. pos[x] \in 0 .. RingSize - 1 /\ pos[TB] \in 0 .. RingSize - 1
        BY <1>6, <2>5, <3>1, <3>2
      <3> QED
        BY <2>3, <3>2, <3>3
    <2>7. i = 1
      BY <1>6, <2>1, <2>2, <2>4, <2>5, <2>6
    <2> QED
      BY <2>2, <2>7
  <1>8. l[1].val = f
    <2>1. PICK i \in DOMAIN l : l[i].val = f
      <3>1. ~ (f = localTail[b]) => localTail' = localTail
        BY <1>5 DEF Dequeue_Start, MustReload, FB, FrontIx
      <3>2. f = localTail[b] => \E i \in DOMAIN l : localTail' = [localTail EXCEPT ![b] = l[i].val]
        BY <1>5 DEF Dequeue_Start, MustReload, FB, FrontIx
      <3>3. localTail'[b] = f /\ b \in DOMAIN localTail
        BY <1>2, <1>3, <1>5, <1>6 DEF TypeInv
      <3> QED
        BY <3>1, <3>2, <3>3
    <2>2. Len(l) \in Nat /\ Len(l) >= 1 /\ DOMAIN l = 1 .. Len(l)
      BY <1>2, <1>5, <1>6, History
    <2>3. PICK n : n = size[b]
      OBVIOUS
    <2>4. /\ n \in Nat /\ f \in 0 .. n - 1 /\ l[1].val \in 0 .. n - 1
          /\ Dist(f, l[1].val, n) <= Dist(f, l[i].val, n)
      BY <1>5, <1>6, <2>1, <2>2, <2>3, BlockFacts DEF BlockInv
    <2>5. Dist(f, l[i].val, n) = 0 /\ Dist(f, l[1].val, n) \in Nat
      BY <2>1, <2>4, DistNat
    <2>6. Dist(f, l[1].val, n) = 0
      BY <2>4, <2>5
    <2> QED
      BY <2>4, <2>6, DistNat
  <1>9. size[b] \in Nat /\ size[b] >= 2 /\ f \in Nat /\ MaxBlocks \in Nat
    BY <1>5, <1>6, BlockFacts, Sizes
  <1> QED
    BY <1>5, <1>7, <1>8, <1>9, KnownEmpty DEF Oldest

LEMMA NextNotAtTail ==
  ASSUME Inv, NotAtTail, [Next]_vars
  PROVE  /\ NotAtTail'
         /\ ReturnsFrom(C, "checkTail") => call[C].atStart = 0
  <1>1. MemInv /\ CallsTyped /\ P # C /\ C \in Threads /\ P \in Threads /\ C \in DOMAIN pc
    BY Locs DEF Inv, TypeInv, CallsTyped
  <1>2. CASE Enqueue_Start \/ ProducerStep
    BY <1>2, ProducerNotAtTail DEF ReturnsFrom
  <1>3. CASE Dequeue_Start
    BY <1>3, DequeueStartLooks, DequeueStartNotAtTail DEF ReturnsFrom
  <1>4. ASSUME NEW l, Goto(C, l)
        PROVE  pc'[C] = l
    BY <1>1, <1>4 DEF Goto
  <1>5. CASE Dequeue_CheckTail
    <2>1. PICK i \in DOMAIN mem[TailBlock] :
            \/ AtTail(mem[TailBlock][i].val) /\ Return(C)
            \/ GoOn(C, "recheck")
      BY <1>5 DEF Dequeue_CheckTail
    <2>2. CASE AtTail(mem[TailBlock][i].val) /\ Return(C)
      <3>1. FB \in Readable(TailBlock)
        BY <2>1, <2>2 DEF AtTail, Readable, FB
      <3>2. pc[C] = "checkTail" /\ pc'[C] = "idle"
        BY <1>4, <1>5, <2>2 DEF Dequeue_CheckTail, Return
      <3> QED
        BY <3>1, <3>2 DEF NotAtTail
    <2>3. CASE GoOn(C, "recheck")
      <3>1. pc'[C] = "recheck"
        BY <1>4, <2>3 DEF GoOn
      <3> QED
        BY <3>1 DEF NotAtTail, ReturnsFrom
    <2> QED
      BY <2>1, <2>2, <2>3
  <1>6. CASE ConsumerStep /\ ~ Dequeue_CheckTail
    <2>1. pc[C] # "checkTail"
      BY <1>6 DEF ConsumerStep, Dequeue_Take, Dequeue_Release, Dequeue_Recheck, Dequeue_ReadNext,
         Dequeue_CheckNext, Dequeue_MoveFront
    <2>2. \E l \in {"idle", "release", "take", "readNext", "checkNext", "moveFront"} : Goto(C, l)
      BY <1>6 DEF ConsumerStep, Dequeue_Take, Dequeue_Release, Dequeue_Recheck, Dequeue_ReadNext,
         Dequeue_CheckNext, Dequeue_MoveFront, AfterRecheck, GoOn, GoOnWith, Return
    <2>3. pc'[C] # "checkTail"
      BY <1>4, <2>2
    <2> QED
      BY <2>1, <2>3 DEF NotAtTail, ReturnsFrom
  <1>7. CASE SizeStep
    <2>1. PICK t \in SizeCallers : Size_Start(t) \/ Size_Count(t) \/ Size_Follow(t)
      BY <1>7 DEF SizeStep
    <2>2. t \in Threads
      BY <2>1, Locs, SizeCallersAssumption DEF P, C
    <2>3. Looks(t) /\ pc[t] \in Outside
      BY <2>1, <2>2, SizeLooks
    <2>4. PICK l \in Outside : Moves(t, l)
      BY <2>1, <2>2, SizeLooks
    <2>5. CASE t = C
      <3>1. pc[C] # "checkTail" /\ pc'[C] # "checkTail"
        BY <2>3, <2>4, <2>5 DEF Moves, Outside
      <3> QED
        BY <3>1 DEF NotAtTail, ReturnsFrom
    <2>6. CASE t = P
      <3>1. pc'[C] = pc[C] /\ call'[C] = call[C]
        BY <1>1, <2>4, <2>6 DEF Moves
      <3>2. FB' = FB /\ mem'[TailBlock] = mem[TailBlock]
        BY <1>1, <2>3, <2>6, Locs, Owners, TrimSame DEF Looks, Same
      <3> QED
        BY <3>1, <3>2 DEF NotAtTail, ReturnsFrom, Readable
    <2> QED
      BY <2>2, <2>5, <2>6, Locs
  <1>8. CASE UNCHANGED vars
    <2>1. pc' = pc /\ call' = call /\ mem' = mem
      BY <1>8 DEF vars, memVars
    <2>2. FB' = FB /\ Readable(TailBlock)' = Readable(TailBlock)
      BY <2>1 DEF FB, Newest, Readable
    <2> QED
      BY <2>1, <2>2 DEF NotAtTail, ReturnsFrom
  <1> QED
    BY <1>2, <1>3, <1>5, <1>6, <1>7, <1>8 DEF Next

\* try_dequeue, pop and peek say "empty" only if the consumer, by what it had to
\* know, found the queue empty when they were called: the load of tail and the
\* later load of tailBlock cannot miss an element between them.
THEOREM EmptyAnswersAreHonest ==
  ASSUME ~ Relaxed \/ C \notin SizeCallers
  PROVE  Spec => EmptyIsHonest
  <1>1. Init => NotAtTail
    BY DEF Init, NotAtTail, P, C
  <1>2. Inv /\ NotAtTail /\ [Next]_vars => NotAtTail'
    BY NextNotAtTail
  <1>3. /\ Inv /\ NotAtTail /\ [Next]_vars
        => [ReturnsFrom(C, "checkTail") => call[C].atStart = 0]_vars
    BY NextNotAtTail
  <1> QED
    BY <1>1, <1>2, <1>3, Invariance, PTL DEF Spec, EmptyIsHonest


-------------------------------------------------------------------------------
(***************************************************************************)
(* What the consumer finds once it knows what the producer did before some   *)
(* epoch, other than by what it has loaded of the queue itself.             *)
(***************************************************************************)

\* A reader that knows everything before epoch e reads from history h of tailBlock
\* a block that is not before b.
Reaches(h, b, e) ==
    \E k \in 1 .. Len(h) : /\ k = 1 \/ h[k].at < e
                           /\ \A i \in k + 1 .. Len(h) : h[i].val # b

\* The consumer, once it knows everything before epoch e, finds the elements up to
\* number n that are in their slots.
Covers(n, e) ==
    \A b \in 1 .. allocated : \A f \in 0 .. size[b] - 1 :
        slot[b][f].val \in 1 .. n =>
            Visible(mem[TailOf(b)], f, e) /\ Reaches(mem[TailBlock], b, e)

\* The consumer finds an element in the front block, or that there is a next one.
Finds == FrontIx(FB) \notin Readable(TailOf(FB)) \/ FB \notin Readable(TailBlock)

LEMMA TrimReaches ==
  ASSUME MemInv, Trim, NEW loc \in Locations, NEW b, NEW e, Reaches(mem[loc], b, e)
  PROVE  Reaches(mem'[loc], b, e)
  <1>1. PICK h, g, d : h = mem[loc] /\ g = mem'[loc] /\ d = Len(h) - Len(g)
    OBVIOUS
  <1>2. Len(h) \in Nat /\ Len(g) \in 1 .. Len(h) /\ \A j \in 1 .. Len(g) : g[j] = h[j + d]
    BY <1>1, History DEF Trim
  <1>3. PICK k \in 1 .. Len(h) : /\ k = 1 \/ h[k].at < e
                                 /\ \A i \in k + 1 .. Len(h) : h[i].val # b
    BY <1>1 DEF Reaches
  <1>4. PICK n : n = IF k - d >= 1 THEN k - d ELSE 1
    OBVIOUS
  <1>5. n \in 1 .. Len(g) /\ d \in Nat /\ n + d >= k /\ (n = 1 \/ n + d = k) /\ (n # 1 => k # 1)
    <2>1. PICK l, m : l = Len(h) /\ m = Len(g) /\ l \in Nat /\ m \in 1 .. l /\ d = l - m /\ k \in 1 .. l
      BY <1>1, <1>2
    <2> QED
      BY <1>4, <2>1
  <1>6. n = 1 \/ g[n].at < e
    BY <1>2, <1>3, <1>5
  <1>7. ASSUME NEW i \in n + 1 .. Len(g)
        PROVE  g[i].val # b
    <2>1. PICK l, m : l = Len(h) /\ m = Len(g) /\ l \in Nat /\ m \in 1 .. l /\ d = l - m
      BY <1>1, <1>2
    <2>2. i \in 1 .. m /\ i + d \in k + 1 .. l
      BY <1>5, <2>1
    <2> QED
      BY <2>1, <2>2, <1>2, <1>3
  <1> QED
    BY <1>1, <1>5, <1>6, <1>7 DEF Reaches

LEMMA ReachesGrows ==
  ASSUME MemInv, NEW loc \in Locations, NEW v, Grown(loc, v), NEW b, v # b, NEW e,
         Reaches(mem[loc], b, e)
  PROVE  Reaches(mem'[loc], b, e)
  <1>1. PICK h, g : h = mem[loc] /\ g = mem'[loc]
    OBVIOUS
  <1>2. Len(h) \in Nat /\ Len(h) >= 1
    BY <1>1, History
  <1>3. g[Len(g)].val = v
    BY <1>1 DEF Grown, Newest
  <1>4. CASE Len(g) = Len(h) + 1 /\ \A j \in 1 .. Len(h) : g[j] = h[j]
    <2>1. PICK k \in 1 .. Len(h) : /\ k = 1 \/ h[k].at < e
                                   /\ \A i \in k + 1 .. Len(h) : h[i].val # b
      BY <1>1 DEF Reaches
    <2>2. ASSUME NEW i \in k + 1 .. Len(g)
          PROVE  g[i].val # b
      <3>1. CASE i = Len(g)
        BY <1>3, <3>1
      <3>2. CASE i # Len(g)
        <4>1. i \in k + 1 .. Len(h) /\ i \in 1 .. Len(h)
          BY <1>2, <1>4, <3>2
        <4> QED
          BY <4>1, <1>4, <2>1
      <3> QED
        BY <3>1, <3>2
    <2>3. k \in 1 .. Len(g) /\ g[k] = h[k]
      BY <1>2, <1>4
    <2> QED
      BY <1>1, <2>1, <2>2, <2>3 DEF Reaches
  <1>5. CASE Len(g) = 1
    <2>1. 1 \in 1 .. Len(g) /\ \A i \in 1 + 1 .. Len(g) : g[i].val # b
      BY <1>5
    <2> QED
      BY <1>1, <2>1 DEF Reaches
  <1> QED
    BY <1>1, <1>4, <1>5 DEF Grown

\* A step that stores nothing hides nothing.
LEMMA LooksShow ==
  ASSUME Inv, NEW t \in Threads, Looks(t), NEW b \in 1 .. allocated, NEW f, NEW e
  PROVE  /\ Visible(mem[TailOf(b)], f, e) => Visible(mem'[TailOf(b)], f, e)
         /\ Reaches(mem[TailBlock], b, e) => Reaches(mem'[TailBlock], b, e)
  <1>1. MemInv /\ Trim /\ TailOf(b) \in Locations /\ TailBlock \in Locations
    BY BlockFacts, Locs DEF Inv, Looks
  <1> QED
    BY <1>1, TrimVisible, TrimReaches

\* A step of the consumer stores in none of the producer's locations.
LEMMA ConsumerShows ==
  ASSUME Inv, Dequeue_Start \/ ConsumerStep, NEW b \in 1 .. allocated, NEW f, NEW e
  PROVE  /\ Visible(mem[TailOf(b)], f, e) => Visible(mem'[TailOf(b)], f, e)
         /\ Reaches(mem[TailBlock], b, e) => Reaches(mem'[TailBlock], b, e)
  <1>1. PICK pos : PosInv(pos)
    BY DEF Inv
  <1>2. MemInv /\ TypeInv /\ RingInv(pos) /\ ConsumerInv(pos) /\ C \in Threads /\ P # C
    BY <1>1, Locs DEF Inv, PosInv
  <1>3. ASSUME NEW loc \in Locations, Owner(loc) = P, NEW i \in DOMAIN mem[loc],
               NEW fenced \in BOOLEAN, Load(C, loc, i, fenced)
        PROVE  Looks(C)
    BY <1>2, <1>3, LoadLooks
  <1>4. CASE Dequeue_Start
    BY <1>4, <1>2, DequeueStartLooks, LooksShow
  <1>5. CASE Dequeue_CheckTail
    <2>1. PICK i \in DOMAIN mem[TailBlock], fenced \in BOOLEAN : Load(C, TailBlock, i, fenced)
      BY <1>5 DEF Dequeue_CheckTail, AtTail
    <2> QED
      BY <2>1, <1>2, <1>3, Locs, Owners, LooksShow
  <1>6. CASE Dequeue_Recheck
    <2>1. PICK loc : loc = TailOf(FB)
      OBVIOUS
    <2>2. PICK i \in DOMAIN mem[loc] : Load(C, loc, i, TRUE)
      BY <1>6, <2>1 DEF Dequeue_Recheck, FB
    <2>3. loc \in Locations /\ Owner(loc) = P
      BY <2>1, PendingBlock, Locs, Owners
    <2> QED
      BY <2>2, <2>3, <1>2, <1>3, LooksShow
  <1>7. CASE Dequeue_ReadNext
    <2>1. PICK loc : loc = NextOf(FB)
      OBVIOUS
    <2>2. PICK i \in DOMAIN mem[loc] : Load(C, loc, i, FALSE)
      BY <1>7, <2>1 DEF Dequeue_ReadNext, FB
    <2>3. loc \in Locations /\ Owner(loc) = P
      BY <2>1, PendingBlock, Locs, Owners
    <2> QED
      BY <2>2, <2>3, <1>2, <1>3, LooksShow
  <1>8. CASE Dequeue_CheckNext
    <2>1. PICK loc : loc = TailOf(call[C].block)
      OBVIOUS
    <2>2. Fence(C) \/ \E i \in DOMAIN mem[loc] : Load(C, loc, i, TRUE)
      BY <1>8, <2>1 DEF Dequeue_CheckNext
    <2>3. loc \in Locations /\ Owner(loc) = P
      <3>1. call[C].block \in Blocks
        BY <1>8, CallBlock DEF Dequeue_CheckNext
      <3> QED
        BY <2>1, <3>1, Locs, Owners
    <2> QED
      BY <2>2, <2>3, <1>2, <1>3, FenceLooks, LooksShow
  <1>9. CASE Dequeue_Take
    <2>1. mem' = mem
      BY <1>9 DEF Dequeue_Take, memVars
    <2> QED
      BY <2>1
  <1>10. CASE Dequeue_Release \/ Dequeue_MoveFront
    <2>1. PICK loc, x : /\ mem' = [mem EXCEPT ![loc] = x]
                        /\ loc = FrontOf(call[C].block) \/ loc = FrontBlock
      BY <1>10 DEF Dequeue_Release, Dequeue_MoveFront, StoreReleased
    <2>2. loc # TailBlock /\ loc # TailOf(b) /\ TailOf(b) \in Locations /\ TailBlock \in Locations
      BY <2>1, BlockFacts, Locs
    <2>3. mem'[TailOf(b)] = mem[TailOf(b)] /\ mem'[TailBlock] = mem[TailBlock]
      BY <2>1, <2>2, <1>2 DEF MemInv
    <2> QED
      BY <2>3
  <1> QED
    BY <1>4, <1>5, <1>6, <1>7, <1>8, <1>9, <1>10 DEF ConsumerStep

\* A store of the producer is of a value that no element waits behind.
LEMMA ProducerShows ==
  ASSUME Inv, Pending, Enqueue_Start \/ ProducerStep,
         NEW b \in 1 .. allocated, NEW f \in 0 .. size[b] - 1,
         slot[b][f].val \in 1 .. sent, NEW e
  PROVE  /\ Visible(mem[TailOf(b)], f, e) => Visible(mem'[TailOf(b)], f, e)
         /\ Reaches(mem[TailBlock], b, e) => Reaches(mem'[TailBlock], b, e)
  <1>1. PICK pos : PosInv(pos)
    BY DEF Inv
  <1>2. /\ MemInv /\ TypeInv /\ IndexInv /\ SlotInv /\ RingInv(pos) /\ EmptyInv(pos) /\ ProducerInv(pos)
        /\ P \in Threads /\ P # C /\ sent \in Nat
        /\ slot[b][f].val # Empty /\ slot[b][f].val <= sent
    BY <1>1, Locs DEF Inv, PosInv, TypeInv, Empty
  <1>3. /\ b \in Blocks /\ TailOf(b) \in Locations /\ TailBlock \in Locations
        /\ TailOf(b) # TailBlock /\ BlockInv(b) /\ size[b] \in Nat /\ size[b] >= 2
        /\ FrontIx(b) \in 0 .. size[b] - 1 /\ TailIx(b) \in 0 .. size[b] - 1
    BY <1>2, BlockFacts, Locs
  <1>4. ASSUME mem'[TailOf(b)] = mem[TailOf(b)], mem'[TailBlock] = mem[TailBlock]
        PROVE  /\ Visible(mem[TailOf(b)], f, e) => Visible(mem'[TailOf(b)], f, e)
               /\ Reaches(mem[TailBlock], b, e) => Reaches(mem'[TailBlock], b, e)
    BY <1>4
  <1>5. CASE Enqueue_Start \/ Enqueue_Full \/ Enqueue_Advance
    BY <1>2, <1>5, EnqueueStartLooks, EnqueueFullLooks, EnqueueAdvanceLooks, LooksShow
  <1>6. CASE Enqueue_Write \/ Enqueue_WriteNext \/ Enqueue_NoMemory
    BY <1>6 DEF Enqueue_Write, Enqueue_WriteNext, Enqueue_NoMemory, memVars
  <1>7. CASE Enqueue_Alloc
    <2>1. PICK c, x, y : /\ c = allocated + 1
                         /\ mem' = [mem EXCEPT ![TailOf(c)] = x, ![NextOf(c)] = y]
      BY <1>7 DEF Enqueue_Alloc
    <2>2. b # c
      BY <1>2, <2>1, RingBlocks
    <2>3. TailOf(b) # TailOf(c) /\ TailOf(b) # NextOf(c) /\ TailBlock # TailOf(c) /\ TailBlock # NextOf(c)
      BY <2>2, Locs
    <2> QED
      BY <1>2, <1>3, <1>4, <2>1, <2>3 DEF MemInv
  <1>8. CASE Enqueue_Link
    <2>1. PICK c, x : mem' = [mem EXCEPT ![NextOf(c)] = x]
      BY <1>8 DEF Enqueue_Link, Store
    <2>2. TailOf(b) # NextOf(c) /\ TailBlock # NextOf(c)
      BY Locs
    <2> QED
      BY <1>2, <1>3, <1>4, <2>1, <2>2 DEF MemInv
  <1>9. CASE Enqueue_Publish \/ Enqueue_PublishNext
    <2>1. PICK c, v, n : /\ c = (IF pc[P] = "publish" THEN TB ELSE call[P].block)
                         /\ n = size[c] /\ v = (TailIx(c) + 1) % n
      OBVIOUS
    <2>2. pc[P] \in {"publish", "publishNext"}
      BY <1>9 DEF Enqueue_Publish, Enqueue_PublishNext
    <2>3. /\ c \in 1 .. allocated /\ c \in Blocks /\ n \in Nat /\ n >= 2
          /\ TailIx(c) \in 0 .. n - 1 /\ FrontIx(c) \in 0 .. n - 1 /\ localFront[c] \in 0 .. n - 1
          /\ Dist(localFront[c], FrontIx(c), n) + Dist(FrontIx(c), TailIx(c), n) < n
      <3>1. c \in 1 .. allocated
        BY <2>1, <2>2, PendingBlock
      <3> QED
        BY <2>1, <3>1, BlockFacts
    <2>4. TailOf(c) \in Locations /\ Owner(TailOf(c)) = P /\ TailOf(c) # TailBlock
      BY <2>3, Locs, Owners
    <2>5. v \in 0 .. n - 1 /\ v \in Nat
      BY <2>1, <2>3
    <2>6. StoreReleased(P, TailOf(c), v) \/ Store(P, TailOf(c), v)
      BY <1>9, <2>1, <2>2 DEF Enqueue_Publish, Enqueue_PublishNext, Succ, TB, TailIx
    <2>7. Stored(TailOf(c), v)
      BY <1>2, <2>4, <2>5, <2>6, ReleasedStores, StoreStores
    <2>8. mem'[TailBlock] = mem[TailBlock]
      BY <1>3, <2>4, <2>7 DEF Stored
    <2>9. CASE b # c
      <3>1. TailOf(b) # TailOf(c)
        BY <2>9, Locs
      <3> QED
        BY <1>3, <1>4, <2>7, <2>8, <3>1 DEF Stored
    <2>10. CASE b = c
      <3>1. slot[c][f].val # sent + 1
        BY <1>2, <2>10
      <3>2. f # TailIx(c)
        <4>1. pc[P] = "publish" => slot[c][TailIx(c)].val = sent + 1
          BY <2>1 DEF Pending
        <4>2. pc[P] = "publishNext" => slot[c][TailIx(c)].val = sent + 1
          BY <2>1 DEF Pending
        <4> QED
          BY <2>2, <3>1, <4>1, <4>2
      <3>3. Dist(FrontIx(c), f, n) < Dist(FrontIx(c), TailIx(c), n)
        <4>1. Occupied(c, f)
          BY <1>2, <2>1, <2>10 DEF SlotInv
        <4> QED
          BY <4>1, <2>1, <2>2, <3>2 DEF Occupied
      <3>4. v # f
        <4>1. PICK x, y, z : x = localFront[c] /\ y = FrontIx(c) /\ z = TailIx(c)
          OBVIOUS
        <4>2. v = IF z + 1 = n THEN 0 ELSE z + 1
          BY <2>1, <2>3, <4>1, Wrap
        <4>3. f \in 0 .. n - 1 /\ Dist(x, y, n) + Dist(y, z, n) < n /\ Dist(y, f, n) < Dist(y, z, n)
          BY <2>1, <2>3, <2>10, <3>3, <4>1
        <4>4. Dist(y, f, n) \in Nat /\ Dist(y, z, n) \in Nat
          BY <2>3, <4>1, <4>3, DistNat
        <4>5. CASE v # x
          <5>1. Dist(y, v, n) = Dist(y, z, n) + 1
            BY <2>3, <4>1, <4>2, <4>3, <4>5, SuccDist
          <5> QED
            BY <4>3, <4>4, <5>1
        <4>6. CASE v = x
          <5>1. pc[P] = "publishNext"
            BY <1>2, <2>1, <2>2, <4>1, <4>6 DEF ProducerInv
          <5>2. y = z
            BY <1>2, <2>1, <4>1, <5>1, FillingPlace DEF Advancing, Filling, ProducerInv, EmptyInv
          <5> QED
            BY <2>3, <4>1, <4>3, <4>4, <5>2, DistNat
        <4> QED
          BY <4>5, <4>6
      <3>5. Visible(mem[TailOf(b)], f, e) => Visible(mem'[TailOf(b)], f, e)
        BY <1>2, <2>4, <2>7, <2>10, <3>4, VisibleGrows DEF Stored
      <3> QED
        BY <2>8, <3>5
    <2> QED
      BY <2>9, <2>10
  <1>10. CASE Enqueue_PublishBlock
    <2>1. PICK c : c = call[P].block
      OBVIOUS
    <2>2. c \in 1 .. allocated /\ c \in Blocks /\ pc[P] = "publishBlock"
      BY <1>10, <2>1, PendingBlock DEF Enqueue_PublishBlock
    <2>3. Stored(TailBlock, c)
      <3>1. StoreReleased(P, TailBlock, c)
        BY <1>10, <2>1 DEF Enqueue_PublishBlock
      <3>2. c \in Nat
        BY <2>2, Sizes DEF Blocks
      <3> QED
        BY <1>2, <3>1, <3>2, Locs, Owners, ReleasedStores
    <2>4. mem'[TailOf(b)] = mem[TailOf(b)]
      BY <1>3, <2>3 DEF Stored
    <2>5. b # c
      <3>1. SUFFICES ASSUME b = c PROVE FALSE
        OBVIOUS
      <3>2. Fill(c) = 1 /\ slot[c][FrontIx(c)].val = sent + 1
        BY <2>1, <2>2 DEF Pending
      <3>3. f # FrontIx(c)
        BY <1>2, <3>1, <3>2
      <3>4. Occupied(c, f)
        BY <1>2, <3>1 DEF SlotInv
      <3>5. Dist(FrontIx(c), f, size[c]) < 1
        BY <2>2, <3>2, <3>4 DEF Occupied, Fill
      <3> QED
        BY <1>3, <3>1, <3>3, <3>5 DEF Dist
    <2>6. Reaches(mem[TailBlock], b, e) => Reaches(mem'[TailBlock], b, e)
      BY <1>2, <1>3, <2>3, <2>5, ReachesGrows DEF Stored
    <2> QED
      BY <2>4, <2>6
  <1> QED
    BY <1>5, <1>6, <1>7, <1>8, <1>9, <1>10 DEF ProducerStep

\* A step puts no element into a slot but one that is not sent yet.
LEMMA OldElements ==
  ASSUME Inv, [Next]_vars, NEW b \in 1 .. allocated', NEW f \in 0 .. size'[b] - 1,
         slot'[b][f].val \in 1 .. sent
  PROVE  /\ b \in 1 .. allocated /\ size'[b] = size[b]
         /\ slot[b][f].val = slot'[b][f].val
  <1>1. /\ TypeInv /\ SlotInv /\ DOMAIN slot = Blocks /\ sent \in Nat /\ allocated \in Nat
        /\ P # C /\ size \in [Blocks -> Nat]
        /\ slot'[b][f].val # Empty /\ slot'[b][f].val # sent + 1
    BY Locs, RingBlocks DEF Inv, TypeInv, Empty
  <1>2. ASSUME UNCHANGED <<slot, allocated, size>>
        PROVE  /\ b \in 1 .. allocated /\ size'[b] = size[b]
               /\ slot[b][f].val = slot'[b][f].val
    BY <1>2
  <1>3. ASSUME UNCHANGED <<allocated, size>>, NEW c \in 1 .. allocated, NEW j, NEW r,
               slot' = [slot EXCEPT ![c][j] = r],
               r.val = Empty \/ r.val = sent + 1
        PROVE  /\ b \in 1 .. allocated /\ size'[b] = size[b]
               /\ slot[b][f].val = slot'[b][f].val
    <2>1. b \in 1 .. allocated /\ size'[b] = size[b] /\ b \in Blocks /\ c \in Blocks
      BY <1>1, <1>3, RingBlocks
    <2>2. DOMAIN slot[b] = 0 .. size[b] - 1
      BY <1>1, <2>1 DEF SlotInv
    <2>3. CASE b = c /\ f = j
      <3>1. slot'[b][f] = r
        BY <1>1, <1>3, <2>1, <2>2, <2>3
      <3> QED
        BY <1>1, <1>3, <3>1
    <2>4. CASE ~ (b = c /\ f = j)
      <3>1. slot'[b][f] = slot[b][f]
        BY <1>1, <1>3, <2>1, <2>2, <2>4
      <3> QED
        BY <2>1, <3>1
    <2> QED
      BY <2>3, <2>4
  <1>4. CASE Enqueue_Write \/ Enqueue_WriteNext
    <2>1. PICK c, r : /\ c = (IF pc[P] = "write" THEN TB ELSE call[P].block)
                      /\ r = [val |-> sent + 1, by |-> P, at |-> epoch[P]]
      OBVIOUS
    <2>2. c \in 1 .. allocated
      BY <1>4, <2>1, PendingBlock DEF Enqueue_Write, Enqueue_WriteNext
    <2>3. slot' = [slot EXCEPT ![c][TailIx(c)] = r] /\ UNCHANGED <<allocated, size>>
      BY <1>4, <2>1 DEF Enqueue_Write, Enqueue_WriteNext, Construct, TB, TailIx, pVars, blockVars
    <2>4. r.val = sent + 1
      BY <2>1
    <2> QED
      BY <1>3, <2>2, <2>3, <2>4
  <1>5. CASE Dequeue_Take
    <2>1. PICK c, r : c = call[C].block /\ r = [val |-> Empty, by |-> C, at |-> epoch[C]]
      OBVIOUS
    <2>2. c \in 1 .. allocated
      BY <1>5, <2>1, CallBlock DEF Dequeue_Take
    <2>3. /\ slot' = slot \/ slot' = [slot EXCEPT ![c][FrontIx(c)] = r]
          /\ UNCHANGED <<allocated, size>>
      BY <1>5, <2>1 DEF Dequeue_Take, FrontIx, pVars, blockVars
    <2>4. r.val = Empty
      BY <2>1
    <2> QED
      BY <1>2, <1>3, <2>2, <2>3, <2>4
  <1>6. CASE Enqueue_Alloc
    <2>1. PICK c, n, s : /\ c = allocated + 1 /\ n = NewBlockSize
                         /\ s = [FreshSlots(n, epoch[P]) EXCEPT ![0].val = sent + 1]
      OBVIOUS
    <2>2. /\ c \in Blocks /\ allocated' = c /\ slot' = [slot EXCEPT ![c] = s]
          /\ size' = [size EXCEPT ![c] = n]
      BY <1>6, <2>1 DEF Enqueue_Alloc
    <2>3. CASE b = c
      <3>1. slot'[b] = s /\ size'[b] = n
        BY <1>1, <2>2, <2>3
      <3>2. f \in 0 .. n - 1
        BY <3>1
      <3>3. s[f].val = Empty \/ s[f].val = sent + 1
        BY <2>1, <3>2 DEF FreshSlots
      <3> QED
        BY <1>1, <3>1, <3>3
    <2>4. CASE b # c
      <3>1. b \in 1 .. allocated /\ b \in Blocks
        BY <1>1, <2>1, <2>2, <2>4, RingBlocks
      <3> QED
        BY <1>1, <2>2, <2>4, <3>1
    <2> QED
      BY <2>3, <2>4
  <1>7. CASE Enqueue_Start \/ Dequeue_Start
    BY <1>2, <1>7 DEF Enqueue_Start, Dequeue_Start, pVars, blockVars
  <1>8. CASE Enqueue_Publish \/ Enqueue_Full \/ Enqueue_Advance \/ Enqueue_PublishNext
             \/ Enqueue_NoMemory \/ Enqueue_Link \/ Enqueue_PublishBlock
    BY <1>2, <1>8 DEF Enqueue_Publish, Enqueue_Full, Enqueue_Advance, Enqueue_PublishNext,
       Enqueue_NoMemory, Enqueue_Link, Enqueue_PublishBlock, pVars, blockVars
  <1>9. CASE ConsumerStep /\ ~ Dequeue_Take
    BY <1>2, <1>9 DEF ConsumerStep, Dequeue_Release, Dequeue_CheckTail, Dequeue_Recheck,
       Dequeue_ReadNext, Dequeue_CheckNext, Dequeue_MoveFront, pVars, blockVars
  <1>10. CASE SizeStep
    BY <1>2, <1>10 DEF SizeStep, Size_Start, Size_Count, Size_Follow, pVars, blockVars
  <1>11. CASE UNCHANGED vars
    BY <1>2, <1>11 DEF vars, pVars, blockVars
  <1> QED
    BY <1>4, <1>5, <1>6, <1>7, <1>8, <1>9, <1>10, <1>11 DEF Next, ProducerStep

\* What an epoch shows of elements that are sent, it goes on to show.
LEMMA CoversStep ==
  ASSUME Inv, OrderInv, [Next]_vars, NEW n \in Nat, n <= sent, NEW e, Covers(n, e)
  PROVE  Covers(n, e)'
  <1> SUFFICES ASSUME NEW b \in 1 .. allocated', NEW f \in 0 .. size'[b] - 1,
                      slot'[b][f].val \in 1 .. n
               PROVE  Visible(mem'[TailOf(b)], f, e) /\ Reaches(mem'[TailBlock], b, e)
    BY DEF Covers
  <1>1. /\ b \in 1 .. allocated /\ size'[b] = size[b]
        /\ slot[b][f].val = slot'[b][f].val /\ slot[b][f].val \in 1 .. sent
    <2>1. slot'[b][f].val \in 1 .. sent
      <3>1. sent \in Nat
        BY DEF Inv, TypeInv
      <3> QED
        BY <3>1
    <2> QED
      BY <2>1, OldElements
  <1>2. Visible(mem[TailOf(b)], f, e) /\ Reaches(mem[TailBlock], b, e)
    BY <1>1 DEF Covers
  <1>3. CASE Enqueue_Start \/ ProducerStep
    BY <1>1, <1>2, <1>3, ProducerShows DEF OrderInv
  <1>4. CASE Dequeue_Start \/ ConsumerStep
    BY <1>1, <1>2, <1>4, ConsumerShows
  <1>5. CASE SizeStep
    <2>1. PICK t \in SizeCallers : Size_Start(t) \/ Size_Count(t) \/ Size_Follow(t)
      BY <1>5 DEF SizeStep
    <2>2. t \in Threads
      BY <2>1, Locs, SizeCallersAssumption DEF P, C
    <2> QED
      BY <1>1, <1>2, <2>1, <2>2, SizeLooks, LooksShow
  <1>6. CASE UNCHANGED vars
    BY <1>2, <1>6 DEF vars, memVars
  <1> QED
    BY <1>3, <1>4, <1>5, <1>6 DEF Next

-------------------------------------------------------------------------------
(***************************************************************************)
(* Steps by which one thread tells the other, outside the queue, what it     *)
(* has done so far: a release fence of the producer, and an acquire of the   *)
(* consumer, which then knows everything before epoch e of the producer.    *)
(***************************************************************************)

\* Everything of the queue but its memory stays.
Rest == <<slot, pc, call, pVars, cVars>>

\* What the producer has published, its next release fence shows.
LEMMA FenceCovers ==
  ASSUME Inv, pc[P] = "idle", NEW e \in Nat, Relaxed => epoch[P] < e
  PROVE  Covers(sent, e)
  <1> SUFFICES ASSUME NEW b \in 1 .. allocated, NEW f \in 0 .. size[b] - 1,
                      slot[b][f].val \in 1 .. sent
               PROVE  Visible(mem[TailOf(b)], f, e) /\ Reaches(mem[TailBlock], b, e)
    BY DEF Covers
  <1>1. MemInv /\ SlotInv /\ b \in Blocks /\ TailOf(b) \in Locations /\ TailBlock \in Locations
    BY BlockFacts, Locs DEF Inv
  <1>2. ASSUME NEW loc \in Locations, Owner(loc) = P
        PROVE  /\ Len(mem[loc]) \in 1 .. Len(mem[loc])
               /\ Len(mem[loc]) = 1 \/ mem[loc][Len(mem[loc])].at < e
    <2>1. PICK h : h = mem[loc]
      OBVIOUS
    <2>2. Len(h) \in Nat /\ Len(h) >= 1 /\ \A i \in 1 .. Len(h) : h[i].at \in Nat
      BY <1>1, <2>1, History
    <2>3. Len(h) \in 1 .. Len(h)
      BY <2>2
    <2>4. CASE Relaxed
      <3>1. h[Len(h)].at <= epoch[P] /\ epoch[P] \in Nat /\ h[Len(h)].at \in Nat
        BY <1>1, <1>2, <2>1, <2>2, <2>3, Locs DEF MemInv
      <3> QED
        BY <2>1, <2>3, <2>4, <3>1
    <2>5. CASE ~ Relaxed
      BY <1>1, <2>1, <2>3, <2>5 DEF MemInv
    <2> QED
      BY <2>4, <2>5
  <1>3. TailIx(b) # f
    <2>1. slot[b][f].val # Empty
      BY DEF Empty
    <2>2. Occupied(b, f)
      BY <1>1, <2>1 DEF SlotInv
    <2>3. Dist(FrontIx(b), f, size[b]) < Dist(FrontIx(b), TailIx(b), size[b])
      BY <2>2 DEF Occupied
    <2>4. Dist(FrontIx(b), f, size[b]) \in Int
      BY BlockFacts DEF Dist
    <2> QED
      BY <2>3, <2>4
  <1>4. Visible(mem[TailOf(b)], f, e)
    <2>1. PICK h : h = mem[TailOf(b)]
      OBVIOUS
    <2>2. Len(h) \in 1 .. Len(h) /\ (Len(h) = 1 \/ h[Len(h)].at < e)
      BY <1>1, <1>2, <2>1, Owners
    <2>3. h[Len(h)].val # f
      BY <1>3, <2>1 DEF TailIx, Newest
    <2>4. \A i \in Len(h) .. Len(h) : i = Len(h)
      BY <2>2
    <2> QED
      BY <2>1, <2>2, <2>3, <2>4 DEF Visible
  <1>5. Reaches(mem[TailBlock], b, e)
    <2>1. PICK h : h = mem[TailBlock]
      OBVIOUS
    <2>2. Len(h) \in 1 .. Len(h) /\ (Len(h) = 1 \/ h[Len(h)].at < e)
      BY <1>1, <1>2, <2>1, Owners
    <2>3. Len(h) + 1 .. Len(h) = {}
      BY <2>2
    <2> QED
      BY <2>1, <2>2, <2>3 DEF Reaches
  <1> QED
    BY <1>4, <1>5

LEMMA ReleaseStep ==
  ASSUME Inv, OrderInv, ReleaseFence(P), UNCHANGED <<mem, acq, seen, Rest>>
  PROVE  /\ Inv' /\ OrderInv' /\ epoch'[P] \in Nat /\ epoch'[P] >= epoch[P]
         /\ Relaxed => epoch[P] < epoch'[P]
         /\ \A n, e : Covers(n, e)' <=> Covers(n, e)
         /\ Finds' <=> Finds
  <1>1. /\ mem' = mem /\ acq' = acq /\ seen' = seen /\ slot' = slot /\ pc' = pc /\ call' = call
        /\ allocated' = allocated /\ born' = born /\ size' = size /\ sent' = sent
        /\ largestBlockSize' = largestBlockSize /\ localFront' = localFront
        /\ localTail' = localTail /\ received' = received /\ peeked' = peeked
    BY DEF Rest, pVars, blockVars, cVars
  <1>2. MemInv /\ TypeInv /\ IndexInv /\ SlotInv /\ P # C
    BY Locs DEF Inv
  <1>3. /\ epoch' \in [Threads -> Nat] /\ epoch'[P] >= epoch[P] /\ epoch'[C] = epoch[C]
        /\ Relaxed => epoch[P] < epoch'[P]
    BY <1>2, Locs DEF ReleaseFence, MemInv
  <1>4. MemInv'
    <2>1. /\ acq'[P] <= epoch'[C] /\ seen'[P] <= epoch'[C]
          /\ acq'[C] <= epoch'[P] /\ seen'[C] <= epoch'[P]
      BY <1>1, <1>2, <1>3, Locs DEF MemInv
    <2>2. ASSUME NEW loc \in Locations, NEW i \in 1 .. Len(mem[loc])
          PROVE  mem[loc][i].at <= epoch'[Owner(loc)]
      <3>1. mem[loc][i].at \in Nat /\ mem[loc][i].at <= epoch[Owner(loc)]
        BY <1>2, History DEF MemInv
      <3>2. Owner(loc) \in Threads /\ epoch[Owner(loc)] \in Nat
        BY <1>2, Owners DEF MemInv
      <3> QED
        BY <1>2, <1>3, <3>1, <3>2, Locs DEF MemInv
    <2> QED
      BY <1>1, <1>2, <1>3, <2>1, <2>2 DEF MemInv
  <1>5. \A loc : Newest(loc)' = Newest(loc) /\ Readable(loc)' = Readable(loc)
    BY <1>1 DEF Newest, Readable
  <1>6. FB' = FB /\ TB' = TB /\ Ring' = Ring /\ RingSize' = RingSize
    BY <1>1, <1>5 DEF FB, TB, Ring, RingSize
  <1>7. \A b : FrontIx(b)' = FrontIx(b) /\ TailIx(b)' = TailIx(b) /\ NextB(b)' = NextB(b)
    BY <1>5 DEF FrontIx, TailIx, NextB
  <1>8. TypeInv'
    BY <1>1, <1>2 DEF TypeInv, CallsTyped
  <1>9. IndexInv'
    BY <1>1, <1>2, <1>6, <1>7 DEF IndexInv, BlockInv, TailCopied
  <1>10. SlotInv'
    BY <1>1, <1>2, <1>6, <1>7 DEF SlotInv, Occupied
  <1>11. ASSUME NEW pos, RingInv(pos)
         PROVE  RingInv(pos)'
    BY <1>6, <1>7, <1>11 DEF RingInv
  <1>12. ASSUME NEW pos, PosInv(pos)
         PROVE  PosInv(pos)'
    <2>1. RingInv(pos)' /\ LastUsed(pos)' = LastUsed(pos)
      BY <1>1, <1>6, <1>11, <1>12 DEF PosInv, LastUsed, Advancing
    <2>2. FrontBlockInv(pos)' /\ TailBlockInv(pos)'
      BY <1>1, <1>6, <1>7, <1>12, <2>1 DEF PosInv, FrontBlockInv, TailBlockInv
    <2>3. EmptyInv(pos)'
      BY <1>1, <1>6, <1>7, <1>12 DEF PosInv, EmptyInv
    <2>4. ProducerInv(pos)'
      BY <1>1, <1>6, <1>7, <1>12 DEF PosInv, ProducerInv, Advancing, Filling
    <2>5. ConsumerInv(pos)'
      BY <1>1, <1>6, <1>7, <1>12 DEF PosInv, ConsumerInv, Leaving, TailCopied
    <2> QED
      BY <2>1, <2>2, <2>3, <2>4, <2>5 DEF PosInv
  <1>13. Inv'
    <2>1. PICK pos \in [Ring -> 0 .. RingSize - 1] : PosInv(pos)
      BY DEF Inv
    <2>2. PosInv(pos)' /\ pos \in [Ring' -> 0 .. RingSize' - 1]
      BY <1>6, <1>12, <2>1
    <2> QED
      BY <1>4, <1>8, <1>9, <1>10, <2>2 DEF Inv
  <1>14. OrderInv'
    <2>1. PICK pos \in [Ring -> 0 .. RingSize - 1], base \in [Blocks -> Nat] :
              RingInv(pos) /\ Numbers(pos, base)
      BY DEF OrderInv
    <2>2. Numbers(pos, base)'
      BY <1>1, <1>6, <1>7, <2>1 DEF Numbers, Handed, Fill, InOrder
    <2>3. RingInv(pos)' /\ pos \in [Ring' -> 0 .. RingSize' - 1]
      BY <1>6, <1>11, <2>1
    <2>4. Pending'
      BY <1>1, <1>6, <1>7 DEF OrderInv, Pending, Fill
    <2>5. Given'
      BY <1>1, <1>6, <1>7 DEF OrderInv, Given
    <2> QED
      BY <2>1, <2>2, <2>3, <2>4, <2>5 DEF OrderInv
  <1>15. \A n, e : Covers(n, e)' <=> Covers(n, e)
    BY <1>1 DEF Covers
  <1>16. Finds' <=> Finds
    BY <1>5, <1>6, <1>7 DEF Finds
  <1> QED
    BY <1>3, <1>13, <1>14, <1>15, <1>16, Locs

\* The consumer now knows everything before epoch e of the producer.
LEMMA AcquireStep ==
  ASSUME Inv, OrderInv, pc[C] = "idle", NEW e \in Nat, e <= epoch[P],
         Observe(C, acq[C], AcquireFence(C, e), mem), UNCHANGED Rest
  PROVE  /\ Inv' /\ OrderInv' /\ Looks(C) /\ epoch' = epoch /\ seen'[C] >= e
         /\ \A n \in Nat : \A x : Covers(n, x) => Covers(n, x)'
  <1>1. /\ slot' = slot /\ pc' = pc /\ call' = call
        /\ allocated' = allocated /\ born' = born /\ size' = size /\ sent' = sent
        /\ largestBlockSize' = largestBlockSize /\ localFront' = localFront
        /\ localTail' = localTail /\ received' = received /\ peeked' = peeked
    BY DEF Rest, pVars, blockVars, cVars
  <1>2. /\ MemInv /\ TypeInv /\ IndexInv /\ SlotInv /\ P # C /\ P \in Threads /\ C \in Threads
    BY Locs DEF Inv
  <1>3. PICK a, x : a = acq[C] /\ x = AcquireFence(C, e)
    OBVIOUS
  <1>4. /\ a \in Nat /\ a <= epoch[P] /\ x \in Nat /\ x <= epoch[P] /\ x >= seen[C] /\ x >= e
    BY <1>2, <1>3 DEF MemInv, AcquireFence, Larger
  <1>5. LeftToRead(C, mem)
    BY <1>2, History DEF MemInv, LeftToRead
  <1>6. Looks(C) /\ seen'[C] = x
    BY <1>2, <1>3, <1>4, <1>5, ObserveLooks
  <1>7. PICK pos : PosInv(pos)
    BY DEF Inv
  <1>8. Inv'
    <2>1. CallsTyped'
      BY <1>1, <1>2 DEF TypeInv, CallsTyped
    <2>2. ConsumerInv(pos)'
      BY <1>1 DEF ConsumerInv, Leaving
    <2>3. localTail' \in [Blocks -> Nat]
      BY <1>1, <1>2 DEF TypeInv
    <2> QED
      BY <1>1, <1>2, <1>6, <1>7, <2>1, <2>2, <2>3, ConsumerLooks
  <1>9. OrderInv'
    <2>1. RingSize' = RingSize
      BY <1>1 DEF RingSize
    <2> QED
      BY <1>1, <1>2, <1>6, <2>1, LookOrder
  <1>10. ASSUME NEW n \in Nat, NEW y, Covers(n, y)
         PROVE  Covers(n, y)'
    <2> SUFFICES ASSUME NEW b \in 1 .. allocated, NEW f \in 0 .. size[b] - 1,
                        slot[b][f].val \in 1 .. n
                 PROVE  Visible(mem'[TailOf(b)], f, y) /\ Reaches(mem'[TailBlock], b, y)
      BY <1>1 DEF Covers
    <2>1. Visible(mem[TailOf(b)], f, y) /\ Reaches(mem[TailBlock], b, y)
      BY <1>10 DEF Covers
    <2> QED
      BY <1>2, <1>6, <2>1, LooksShow
  <1>11. epoch' = epoch
    BY <1>6 DEF Looks
  <1> QED
    BY <1>4, <1>6, <1>8, <1>9, <1>10, <1>11

\* What is visible by epoch e is all that a consumer that knows of it can read.
LEMMA SeenVisible ==
  ASSUME NEW h \in Seq(Stores), NEW f, NEW e \in Nat, NEW s \in Nat, e <= s,
         \A i \in 2 .. Len(h) : h[i].at >= s, Visible(h, f, e)
  PROVE  f \notin {h[i].val : i \in DOMAIN h}
  <1>1. PICK k \in 1 .. Len(h) : /\ k = 1 \/ h[k].at < e
                                 /\ \A i \in k .. Len(h) : h[i].val # f
    BY DEF Visible
  <1>2. Len(h) \in Nat /\ DOMAIN h = 1 .. Len(h) /\ \A i \in 1 .. Len(h) : h[i].at \in Nat
    <2>1. Len(h) \in Nat /\ DOMAIN h = 1 .. Len(h)
      BY LenProperties
    <2>2. \A i \in 1 .. Len(h) : h[i] \in Stores
      BY ElementOfSeq
    <2>3. \A i \in 1 .. Len(h) : h[i].at \in Nat
      BY <2>2 DEF Stores
    <2> QED
      BY <2>1, <2>3
  <1>3. k = 1
    <2>1. CASE k # 1
      <3>1. k \in 2 .. Len(h)
        BY <1>2, <2>1
      <3>2. h[k].at >= s /\ h[k].at < e /\ h[k].at \in Nat
        BY <1>1, <1>2, <2>1, <3>1
      <3> QED
        BY <3>2
    <2> QED
      BY <2>1
  <1> QED
    BY <1>1, <1>2, <1>3

LEMMA SeenFinds ==
  ASSUME Inv, Looks(C), NEW e \in Nat, seen'[C] >= e,
         Visible(mem[TailOf(FB)], FrontIx(FB), e) \/ Visible(mem[TailBlock], FB, e)
  PROVE  Finds'
  <1>1. /\ MemInv /\ TypeInv /\ Trim /\ MemInv' /\ P # C /\ C \in Threads
        /\ FB \in 1 .. allocated /\ FB \in Blocks
    BY PendingBlock, Locs DEF Inv, Looks
  <1>2. PICK b, f, s : b = FB /\ f = FrontIx(FB) /\ s = seen'[C]
    OBVIOUS
  <1>3. FB' = b /\ FrontIx(b)' = f /\ s \in Nat /\ s >= e
    BY <1>1, <1>2, TrimSame DEF Same, MemInv
  <1>4. ASSUME NEW loc \in Locations, Reader(loc) = C, NEW v, Visible(mem[loc], v, e)
        PROVE  v \notin Readable(loc)'
    <2>1. PICK g : g = mem'[loc]
      OBVIOUS
    <2>2. Visible(g, v, e) /\ g \in Seq(Stores)
      BY <1>1, <1>4, <2>1, TrimVisible DEF Trim
    <2>3. \A i \in 2 .. Len(g) : g[i].at >= s
      BY <1>1, <1>2, <1>4, <2>1 DEF MemInv
    <2>4. v \notin {g[i].val : i \in DOMAIN g}
      BY <1>3, <2>2, <2>3, SeenVisible
    <2> QED
      BY <2>1, <2>4 DEF Readable
  <1>5. TailOf(b) \in Locations /\ TailBlock \in Locations /\ Reader(TailOf(b)) = C
        /\ Reader(TailBlock) = C
    BY <1>1, <1>2, Locs, Owners
  <1>6. CASE Visible(mem[TailOf(FB)], FrontIx(FB), e)
    <2>1. f \notin Readable(TailOf(b))'
      BY <1>2, <1>4, <1>5, <1>6
    <2>2. FrontIx(FB)' = f /\ Readable(TailOf(FB))' = Readable(TailOf(b))'
      BY <1>3 DEF FrontIx, Readable
    <2> QED
      BY <2>1, <2>2 DEF Finds
  <1>7. CASE Visible(mem[TailBlock], FB, e)
    <2>1. b \notin Readable(TailBlock)'
      BY <1>2, <1>4, <1>5, <1>7
    <2> QED
      BY <1>3, <2>1 DEF Finds
  <1> QED
    BY <1>6, <1>7

\* The next element is in the front block, or else at the front of the next one.
LEMMA FirstShown ==
  ASSUME Inv, OrderInv, pc[C] = "idle", NEW n \in Nat, NEW e, Covers(n, e),
         Len(received) < n, n <= sent
  PROVE  Visible(mem[TailOf(FB)], FrontIx(FB), e) \/ Visible(mem[TailBlock], FB, e)
  <1>1. PICK pos, base : /\ pos \in [Ring -> 0 .. RingSize - 1] /\ base \in [Blocks -> Nat]
                         /\ PosInv(pos) /\ Numbers(pos, base)
    BY OrderPlace
  <1>2. /\ MemInv /\ TypeInv /\ SlotInv /\ RingInv(pos) /\ EmptyInv(pos) /\ TailBlockInv(pos)
    BY <1>1 DEF Inv, PosInv
  <1>3. PICK a : a = FB
    OBVIOUS
  <1>4. a \in Ring /\ a \in Blocks /\ a \in 1 .. allocated /\ TB \in Ring
        /\ pos[a] = 0 /\ pos[TB] \in Nat /\ RingSize \in Nat /\ pos[TB] <= RingSize - 1
    BY <1>1, <1>2, <1>3, PendingBlock, RingBlocks DEF RingInv
  <1>5. Len(received) \in Nat /\ sent \in Nat /\ base[a] = Len(received)
    <2>1. base[a] = Len(received)
      BY <1>1, <1>3 DEF Numbers, Handed
    <2> QED
      BY <2>1, <1>1, <1>2, <1>4 DEF TypeInv
  \* The element at the front of a block is the next one, and is shown.
  <1>6. ASSUME NEW b \in Ring, pos[b] <= pos[TB], base[b] = Len(received), FrontIx(b) # TailIx(b)
        PROVE  /\ Visible(mem[TailOf(b)], FrontIx(b), e) /\ Reaches(mem[TailBlock], b, e)
    <2>1. PICK m, f, t : m = size[b] /\ f = FrontIx(b) /\ t = TailIx(b)
      OBVIOUS
    <2>2. b \in 1 .. allocated /\ m \in Nat /\ f \in 0 .. m - 1 /\ t \in 0 .. m - 1 /\ f # t
      BY <1>2, <1>6, <2>1, BlockFacts, RingBlocks
    <2>3. Dist(f, f, m) = 0 /\ Dist(f, t, m) \in Nat /\ Dist(f, t, m) > 0
      <3>1. Dist(f, t, m) \in Nat /\ Dist(f, t, m) # 0 /\ Dist(f, f, m) = 0
        BY <2>2, DistNat
      <3> QED
        BY <3>1
    <2>4. slot[b][f].val # Empty
      BY <1>2, <2>1, <2>2, <2>3 DEF SlotInv, Occupied
    <2>5. InOrderBy(m, f, t, slot[b], base[b])
      BY <1>1, <1>6, <2>1 DEF Numbers, InOrder
    <2>6. slot[b][f].val = base[b] + 0 + 1
      BY <2>2, <2>3, <2>4, <2>5 DEF InOrderBy
    <2>7. slot[b][f].val \in 1 .. n
      BY <1>5, <1>6, <2>6
    <2> QED
      BY <2>1, <2>2, <2>7 DEF Covers
  <1>7. CASE FrontIx(a) # TailIx(a)
    BY <1>3, <1>4, <1>5, <1>6, <1>7
  <1>8. CASE FrontIx(a) = TailIx(a)
    <2>1. Fill(a) = 0
      <3>1. size[a] \in Nat /\ FrontIx(a) \in 0 .. size[a] - 1 /\ TailIx(a) \in 0 .. size[a] - 1
        BY <1>4, BlockFacts
      <3> QED
        BY <1>8, <3>1, DistNat DEF Fill
    <2>2. pos[TB] > 0
      <3>1. CASE pos[TB] = 0
        <4>1. TB = a
          BY <1>2, <1>4, <3>1 DEF RingInv
        <4>2. base[a] + Fill(a) = sent
          BY <1>1, <4>1 DEF Numbers
        <4> QED
          BY <1>5, <2>1, <4>2
      <3> QED
        BY <1>4, <3>1
    <2>3. PICK b : b = NextB(a)
      OBVIOUS
    <2>4. b \in Ring /\ pos[b] = 1
      <3>1. b \in Ring /\ pos[b] = IF pos[a] = RingSize - 1 THEN 0 ELSE pos[a] + 1
        BY <1>2, <1>4, <2>3 DEF RingInv
      <3> QED
        BY <1>4, <2>2, <3>1
    <2>5. base[b] = Len(received)
      <3>1. base[b] = base[a] + Fill(a)
        BY <1>1, <1>4, <2>2, <2>3 DEF Numbers
      <3> QED
        BY <1>5, <2>1, <3>1
    <2>6. FrontIx(b) # TailIx(b)
      BY <1>2, <1>4, <2>2, <2>4 DEF EmptyInv
    <2>7. Reaches(mem[TailBlock], b, e)
      BY <1>4, <1>6, <2>2, <2>4, <2>5, <2>6
    <2>8. PICK h, p : h = mem[TailBlock] /\ p = pos[TB]
      OBVIOUS
    <2>9. Len(h) \in Nat /\ \A j \in 1 .. Len(h) : h[j].val \in Ring /\ pos[h[j].val] = p - (Len(h) - j)
      <3>1. Len(h) \in Nat
        BY <1>2, <2>8, Locs, History
      <3> QED
        BY <1>2, <2>8, <3>1 DEF TailBlockInv
    <2>10. PICK k \in 1 .. Len(h) : /\ k = 1 \/ h[k].at < e
                                    /\ \A i \in k + 1 .. Len(h) : h[i].val # b
      BY <2>7, <2>8 DEF Reaches
    <2>11. ASSUME NEW i \in k .. Len(h), h[i].val = a
           PROVE  FALSE
      <3>1. PICK l : l = Len(h)
        OBVIOUS
      <3>2. l \in Nat /\ k \in 1 .. l /\ i \in k .. l /\ p \in Nat /\ p > 0
        BY <1>4, <2>2, <2>8, <2>9, <2>10, <2>11, <3>1
      <3>3. i \in 1 .. l
        BY <3>2
      <3>4. pos[h[i].val] = p - (l - i)
        BY <2>9, <3>1, <3>3
      <3>5. 0 = p - (l - i)
        BY <1>4, <2>11, <3>4
      <3>6. i + 1 \in 1 .. l /\ i + 1 \in k + 1 .. l /\ p - (l - (i + 1)) = 1
        BY <3>2, <3>5
      <3>7. i + 1 \in 1 .. Len(h) /\ i + 1 \in k + 1 .. Len(h) /\ p - (Len(h) - (i + 1)) = 1
        BY <3>1, <3>6
      <3>8. h[i + 1].val \in Ring /\ pos[h[i + 1].val] = 1
        BY <2>9, <3>7
      <3>9. h[i + 1].val = b
        <4>1. \A c, d \in Ring : pos[c] = pos[d] => c = d
          BY <1>2 DEF RingInv
        <4>2. PICK c : c = h[i + 1].val
          OBVIOUS
        <4> QED
          BY <2>4, <3>8, <4>1, <4>2
      <3> QED
        BY <2>10, <3>7, <3>9
    <2> QED
      BY <1>3, <2>8, <2>10, <2>11 DEF Visible
  <1> QED
    BY <1>7, <1>8

-------------------------------------------------------------------------------
(***************************************************************************)
(* The calls of the two threads, seen from outside.                         *)
(***************************************************************************)
LEMMA GrownReadable ==
  ASSUME MemInv, MemInv', NEW loc \in Locations, NEW v, Grown(loc, v)
  PROVE  Readable(loc)' \subseteq Readable(loc) \cup {v}
  <1>1. PICK h, g : h = mem[loc] /\ g = mem'[loc]
    OBVIOUS
  <1>2. DOMAIN h = 1 .. Len(h) /\ Len(h) \in Nat
    BY <1>1, History
  <1>3. DOMAIN g = 1 .. Len(g) /\ Len(g) \in Nat
    BY <1>1, LenProperties DEF MemInv
  <1>4. g[Len(g)].val = v
    BY <1>1 DEF Grown, Newest
  <1>5. \A i \in DOMAIN g : i # Len(g) => i \in DOMAIN h /\ g[i] = h[i]
    <2>1. \/ Len(g) = Len(h) + 1 /\ \A j \in 1 .. Len(h) : g[j] = h[j]
          \/ Len(g) = 1
      BY <1>1 DEF Grown
    <2>2. PICK m, n : m = Len(h) /\ n = Len(g) /\ m \in Nat /\ n \in Nat
      BY <1>2, <1>3
    <2> SUFFICES ASSUME NEW i \in 1 .. n, i # n PROVE i \in 1 .. m /\ g[i] = h[i]
      BY <1>2, <1>3, <2>2
    <2>3. n = m + 1 /\ i \in 1 .. m
      BY <2>1, <2>2
    <2> QED
      BY <2>1, <2>2, <2>3
  <1> QED
    BY <1>1, <1>4, <1>5 DEF Readable

\* The producer takes from the consumer nothing of what it finds.
LEMMA ProducerFinds ==
  ASSUME Inv, Enqueue_Start \/ ProducerStep
  PROVE  /\ FB' = FB
         /\ FB \notin Readable(TailBlock) => (FB \notin Readable(TailBlock))'
         /\ Finds => Finds'
  <1>1. PICK pos : PosInv(pos)
    BY DEF Inv
  <1>2. /\ MemInv /\ TypeInv /\ IndexInv /\ RingInv(pos) /\ EmptyInv(pos) /\ ProducerInv(pos)
        /\ P \in Threads /\ P # C
    BY <1>1, Locs DEF Inv, PosInv
  <1>3. PICK b, f : b = FB /\ f = FrontIx(FB)
    OBVIOUS
  <1>4. /\ b \in 1 .. allocated /\ b \in Blocks
        /\ TailOf(b) \in Locations /\ TailBlock \in Locations
        /\ FrontOf(b) \in Locations /\ FrontBlock \in Locations /\ TailOf(b) # TailBlock
        /\ Owner(TailOf(b)) = P /\ Owner(TailBlock) = P
        /\ Owner(FrontOf(b)) = C /\ Owner(FrontBlock) = C
    BY <1>2, <1>3, PendingBlock, Locs, Owners
  \* The goal, by what is stored.
  <1>5. ASSUME mem'[FrontBlock] = mem[FrontBlock], mem'[FrontOf(b)] = mem[FrontOf(b)],
               mem'[TailBlock] = mem[TailBlock] \/ \E c : c # b /\ Stored(TailBlock, c),
               mem'[TailOf(b)] = mem[TailOf(b)] \/ \E v : v # f /\ Stored(TailOf(b), v)
        PROVE  /\ FB' = FB
               /\ FB \notin Readable(TailBlock) => (FB \notin Readable(TailBlock))'
               /\ Finds => Finds'
    <2>1. FB' = b /\ FrontIx(b)' = f
      BY <1>3, <1>5 DEF FB, FrontIx, Newest
    <2>2. FrontIx(FB)' = f /\ Readable(TailOf(FB))' = Readable(TailOf(b))'
      BY <2>1 DEF FrontIx, Readable
    <2>3. b \in Readable(TailBlock)' => b \in Readable(TailBlock)
      <3>1. CASE mem'[TailBlock] = mem[TailBlock]
        BY <3>1 DEF Readable
      <3>2. ASSUME NEW c, c # b, Stored(TailBlock, c)
            PROVE  b \in Readable(TailBlock)' => b \in Readable(TailBlock)
        BY <1>2, <1>4, <3>2, GrownReadable DEF Stored
      <3> QED
        BY <1>5, <3>1, <3>2
    <2>4. f \in Readable(TailOf(b))' => f \in Readable(TailOf(b))
      <3>1. CASE mem'[TailOf(b)] = mem[TailOf(b)]
        BY <3>1 DEF Readable
      <3>2. ASSUME NEW v, v # f, Stored(TailOf(b), v)
            PROVE  f \in Readable(TailOf(b))' => f \in Readable(TailOf(b))
        BY <1>2, <1>4, <3>2, GrownReadable DEF Stored
      <3> QED
        BY <1>5, <3>1, <3>2
    <2> QED
      BY <1>3, <2>1, <2>2, <2>3, <2>4 DEF Finds
  <1>6. CASE Enqueue_Start \/ Enqueue_Full \/ Enqueue_Advance
    <2>1. Looks(P)
      BY <1>6, EnqueueStartLooks, EnqueueFullLooks, EnqueueAdvanceLooks
    <2>2. /\ FB' = FB /\ FrontIx(b)' = FrontIx(b)
          /\ mem'[TailBlock] = mem[TailBlock] /\ mem'[TailOf(b)] = mem[TailOf(b)]
      BY <1>2, <1>4, <2>1, TrimSame DEF Looks, Same
    <2>3. FrontIx(FB)' = f /\ Readable(TailOf(FB))' = Readable(TailOf(b))'
      BY <1>3, <2>2 DEF FrontIx, Readable
    <2> QED
      BY <1>3, <2>2, <2>3 DEF Finds, Readable
  <1>7. CASE Enqueue_Write \/ Enqueue_WriteNext \/ Enqueue_NoMemory
    BY <1>5, <1>7 DEF Enqueue_Write, Enqueue_WriteNext, Enqueue_NoMemory, memVars
  <1>8. CASE Enqueue_Alloc
    <2>1. PICK c, x, y : /\ c = allocated + 1
                         /\ mem' = [mem EXCEPT ![TailOf(c)] = x, ![NextOf(c)] = y]
      BY <1>8 DEF Enqueue_Alloc
    <2>2. b # c
      BY <1>2, <1>4, <2>1, RingBlocks
    <2>3. \A l \in {FrontBlock, FrontOf(b), TailBlock, TailOf(b)} : l # TailOf(c) /\ l # NextOf(c)
      BY <2>2, Locs
    <2> QED
      BY <1>2, <1>4, <1>5, <2>1, <2>3 DEF MemInv
  <1>9. CASE Enqueue_Link
    <2>1. PICK c, x : mem' = [mem EXCEPT ![NextOf(c)] = x]
      BY <1>9 DEF Enqueue_Link, Store
    <2>2. \A l \in {FrontBlock, FrontOf(b), TailBlock, TailOf(b)} : l # NextOf(c)
      BY Locs
    <2> QED
      BY <1>2, <1>4, <1>5, <2>1, <2>2 DEF MemInv
  <1>10. CASE Enqueue_Publish \/ Enqueue_PublishNext
    <2>1. PICK c, v, n : /\ c = (IF pc[P] = "publish" THEN TB ELSE call[P].block)
                         /\ n = size[c] /\ v = (TailIx(c) + 1) % n
      OBVIOUS
    <2>2. pc[P] \in {"publish", "publishNext"}
      BY <1>10 DEF Enqueue_Publish, Enqueue_PublishNext
    <2>3. /\ c \in 1 .. allocated /\ c \in Blocks /\ n \in Nat /\ n >= 2
          /\ TailIx(c) \in 0 .. n - 1 /\ FrontIx(c) \in 0 .. n - 1 /\ localFront[c] \in 0 .. n - 1
          /\ Dist(localFront[c], FrontIx(c), n) + Dist(FrontIx(c), TailIx(c), n) < n
      <3>1. c \in 1 .. allocated
        BY <2>1, <2>2, PendingBlock
      <3> QED
        BY <2>1, <3>1, BlockFacts
    <2>4. TailOf(c) \in Locations /\ Owner(TailOf(c)) = P /\ TailOf(c) # TailBlock
          /\ TailOf(c) # FrontBlock /\ TailOf(c) # FrontOf(b)
      BY <2>3, Locs, Owners
    <2>5. v \in 0 .. n - 1 /\ v \in Nat
      BY <2>1, <2>3
    <2>6. StoreReleased(P, TailOf(c), v) \/ Store(P, TailOf(c), v)
      BY <1>10, <2>1, <2>2 DEF Enqueue_Publish, Enqueue_PublishNext, Succ, TB, TailIx
    <2>7. Stored(TailOf(c), v)
      BY <1>2, <2>4, <2>5, <2>6, ReleasedStores, StoreStores
    <2>8. /\ mem'[TailBlock] = mem[TailBlock] /\ mem'[FrontBlock] = mem[FrontBlock]
          /\ mem'[FrontOf(b)] = mem[FrontOf(b)]
      BY <1>4, <2>4, <2>7 DEF Stored
    <2>9. CASE b # c
      <3>1. TailOf(b) # TailOf(c)
        BY <2>9, Locs
      <3> QED
        BY <1>4, <1>5, <2>7, <2>8, <3>1 DEF Stored
    <2>10. CASE b = c
      <3>1. pc[P] = "publish"
        <4>1. SUFFICES ASSUME pc[P] = "publishNext" PROVE FALSE
          BY <2>2
        <4>2. b = NextB(TB) /\ pos[TB] + 1 < RingSize
          BY <1>2, <2>1, <2>10, <4>1 DEF ProducerInv, Filling, Advancing
        <4>3. TB \in Ring /\ pos[TB] \in Nat /\ RingSize \in Nat
          BY <1>2, RingBlocks DEF RingInv
        <4>4. pos[b] = pos[TB] + 1
          BY <1>2, <4>2, <4>3 DEF RingInv
        <4> QED
          BY <1>2, <1>3, <4>3, <4>4 DEF RingInv
      <3>2. v # localFront[c]
        BY <1>2, <2>1, <3>1 DEF ProducerInv
      <3>3. PICK x, y, z : x = localFront[c] /\ y = FrontIx(c) /\ z = TailIx(c)
        OBVIOUS
      <3>4. /\ x \in 0 .. n - 1 /\ y \in 0 .. n - 1 /\ z \in 0 .. n - 1 /\ v # x
            /\ Dist(x, y, n) + Dist(y, z, n) < n /\ y = f
            /\ v = IF z + 1 = n THEN 0 ELSE z + 1
        BY <1>3, <2>1, <2>3, <2>10, <3>2, <3>3, Wrap
      <3>5. v # y
        BY <2>3, <3>4, SuccDist
      <3> QED
        BY <1>5, <2>7, <2>8, <2>10, <3>4, <3>5
    <2> QED
      BY <2>9, <2>10
  <1>11. CASE Enqueue_PublishBlock
    <2>1. PICK c : c = call[P].block
      OBVIOUS
    <2>2. c \in 1 .. allocated /\ c \in Blocks /\ c # b
      BY <1>3, <1>11, <2>1, PendingBlock DEF Enqueue_PublishBlock
    <2>3. Stored(TailBlock, c)
      <3>1. StoreReleased(P, TailBlock, c)
        BY <1>11, <2>1 DEF Enqueue_PublishBlock
      <3>2. c \in Nat
        BY <2>2, Sizes DEF Blocks
      <3> QED
        BY <1>2, <1>4, <3>1, <3>2, ReleasedStores
    <2>4. /\ mem'[TailOf(b)] = mem[TailOf(b)] /\ mem'[FrontBlock] = mem[FrontBlock]
          /\ mem'[FrontOf(b)] = mem[FrontOf(b)]
      BY <1>4, <2>3, Locs DEF Stored
    <2> QED
      BY <1>5, <2>2, <2>3, <2>4
  <1> QED
    BY <1>6, <1>7, <1>8, <1>9, <1>10, <1>11 DEF ProducerStep

\* A dequeue or peek that can find an element does, at the latest in the next block.
LEMMA DequeueStartFinds ==
  ASSUME Inv, Dequeue_Start, Finds
  PROVE  pc'[C] = "checkTail" => (FB \notin Readable(TailBlock))'
  <1> SUFFICES ASSUME pc'[C] = "checkTail" PROVE (FB \notin Readable(TailBlock))'
    OBVIOUS
  <1>1. /\ MemInv /\ TypeInv /\ P # C /\ C \in Threads /\ FB \in Blocks /\ TailBlock \in Locations
    BY PendingBlock, Locs DEF Inv
  <1>2. Looks(C) /\ FrontIx(FB) = localTail'[FB]
    BY DequeueStartLooks
  <1>3. PICK b, f : b = FB /\ f = FrontIx(FB)
    OBVIOUS
  <1>4. FB' = b
    BY <1>1, <1>2, <1>3, TrimSame DEF Looks, Same
  <1>5. f \in Readable(TailOf(b))
    <2>1. ~ (f = localTail[b]) => localTail' = localTail
      BY <1>3 DEF Dequeue_Start, MustReload, FB, FrontIx
    <2>2. f = localTail[b] => \E i \in DOMAIN mem[TailOf(b)] :
                                localTail' = [localTail EXCEPT ![b] = mem[TailOf(b)][i].val]
      BY <1>3 DEF Dequeue_Start, MustReload, FB, FrontIx
    <2>3. localTail'[b] = f /\ b \in DOMAIN localTail
      BY <1>1, <1>2, <1>3 DEF TypeInv
    <2> QED
      BY <2>1, <2>2, <2>3 DEF Readable
  <1>6. b \notin Readable(TailBlock)
    BY <1>3, <1>5 DEF Finds
  <1>7. Readable(TailBlock)' \subseteq Readable(TailBlock)
    <2>1. PICK h, g : h = mem[TailBlock] /\ g = mem'[TailBlock]
      OBVIOUS
    <2>2. /\ Len(h) \in Nat /\ DOMAIN h = 1 .. Len(h) /\ Len(g) \in 1 .. Len(h) /\ g \in Seq(Stores)
          /\ \A j \in 1 .. Len(g) : g[j] = h[j + (Len(h) - Len(g))]
      BY <1>1, <1>2, <2>1, History DEF Looks, Trim
    <2>3. DOMAIN g = 1 .. Len(g)
      BY <2>2, LenProperties
    <2>4. \A j \in 1 .. Len(g) : j + (Len(h) - Len(g)) \in 1 .. Len(h)
      BY <2>2, Shift
    <2>5. \A j \in DOMAIN g : \E i \in DOMAIN h : g[j] = h[i]
      BY <2>2, <2>3, <2>4
    <2> QED
      BY <2>1, <2>5 DEF Readable
  <1> QED
    BY <1>4, <1>6, <1>7

\* The steps of a call of the consumer.  One that need not say "empty" goes on
\* until it has taken an element and released its slot, or has shown one.
LEMMA DequeueStartGoesOn ==
  ASSUME Inv, Dequeue_Start
  PROVE  /\ pc[C] = "idle" /\ pc'[C] \in {"checkTail", "take"} /\ pc'[P] = pc[P]
         /\ sent' = sent /\ received' = received
  <1>1. CallsTyped /\ P # C /\ C \in Threads /\ P \in Threads /\ C \in DOMAIN pc
    BY Locs DEF Inv, TypeInv, CallsTyped
  <1>2. pc[C] = "idle" /\ \E l \in {"checkTail", "take"} : Goto(C, l)
    BY DEF Dequeue_Start, Begin
  <1> QED
    BY <1>1, <1>2 DEF Goto, Dequeue_Start, pVars

LEMMA ConsumerGoesOn ==
  ASSUME Inv, OrderInv, ConsumerStep
  PROVE  /\ pc[C] # "idle" /\ pc'[C] # "checkTail" /\ pc'[P] = pc[P] /\ sent' = sent
         /\ pc'[C] # "idle" => call'[C].op = call[C].op
         /\ call[C].op = "peek" => received' = received
         /\ call[C].op # "peek" /\ (pc[C] = "checkTail" => FB \notin Readable(TailBlock)) =>
              CASE pc[C] = "take" -> pc'[C] = "release" /\ Len(received') = Len(received) + 1
                [] pc[C] = "release" -> pc'[C] = "idle" /\ received' = received
                [] OTHER -> pc'[C] \notin {"idle", "release"} /\ received' = received
  <1>1. /\ MemInv /\ TypeInv /\ CallsTyped /\ P # C /\ C \in Threads /\ P \in Threads
        /\ C \in DOMAIN pc /\ C \in DOMAIN call /\ "op" \in DOMAIN call[C]
        /\ "block" \in DOMAIN call[C] /\ received \in Seq(Nat)
    BY Locs DEF Inv, TypeInv, CallsTyped, OrderInv, Given, NoCall
  <1>2. ASSUME NEW l, Goto(C, l)
        PROVE  pc'[C] = l /\ pc'[P] = pc[P]
    BY <1>1, <1>2 DEF Goto
  <1>3. ASSUME NEW l, GoOn(C, l) \/ \E b : GoOnWith(C, l, b)
        PROVE  pc'[C] = l /\ pc'[P] = pc[P] /\ call'[C].op = call[C].op
    BY <1>1, <1>2, <1>3 DEF GoOn, GoOnWith
  <1>4. CASE Dequeue_Take
    <2>1. CASE call[C].op = "peek" /\ Return(C) /\ received' = received
      BY <1>2, <1>4, <2>1 DEF Dequeue_Take, Return, pVars
    <2>2. ASSUME NEW x, call[C].op # "peek", GoOn(C, "release"), received' = Append(received, x)
          PROVE  /\ pc'[C] = "release" /\ pc'[P] = pc[P] /\ call'[C].op = call[C].op
                 /\ Len(received') = Len(received) + 1
      BY <1>1, <1>3, <2>2, AppendProperties
    <2> QED
      BY <1>4, <2>1, <2>2 DEF Dequeue_Take, pVars
  <1>5. CASE Dequeue_Release
    BY <1>2, <1>5 DEF Dequeue_Release, Return, pVars, cVars
  <1>6. CASE Dequeue_CheckTail
    <2>1. PICK i \in DOMAIN mem[TailBlock] :
            \/ AtTail(mem[TailBlock][i].val) /\ Return(C)
            \/ GoOn(C, "recheck")
      BY <1>6 DEF Dequeue_CheckTail
    <2>2. FB \notin Readable(TailBlock) => ~ AtTail(mem[TailBlock][i].val)
      BY DEF AtTail, Readable, FB
    <2>3. pc[C] = "checkTail" /\ sent' = sent /\ received' = received
      BY <1>6 DEF Dequeue_CheckTail, pVars, cVars
    <2>4. CASE AtTail(mem[TailBlock][i].val) /\ Return(C)
      BY <1>2, <2>2, <2>3, <2>4 DEF Return
    <2> QED
      BY <1>3, <2>1, <2>3, <2>4
  <1>7. CASE Dequeue_Recheck
    <2>1. \E l \in {"take", "readNext"} : GoOn(C, l)
      BY <1>7 DEF Dequeue_Recheck, AfterRecheck
    <2> QED
      BY <1>3, <1>7, <2>1 DEF Dequeue_Recheck, pVars
  <1>8. CASE Dequeue_ReadNext
    <2>1. \E b : GoOnWith(C, "checkNext", b)
      BY <1>8 DEF Dequeue_ReadNext
    <2> QED
      BY <1>3, <1>8, <2>1 DEF Dequeue_ReadNext, pVars, cVars
  <1>9. CASE Dequeue_CheckNext
    <2>1. \E l \in {"take", "moveFront"} : GoOn(C, l)
      BY <1>9 DEF Dequeue_CheckNext
    <2> QED
      BY <1>3, <1>9, <2>1 DEF Dequeue_CheckNext, pVars
  <1>10. CASE Dequeue_MoveFront
    BY <1>3, <1>10 DEF Dequeue_MoveFront, pVars, cVars
  <1> QED
    BY <1>4, <1>5, <1>6, <1>7, <1>8, <1>9, <1>10 DEF ConsumerStep

\* The steps of a call of the producer: it accepts its element as it returns.
LEMMA ProducerGoesOn ==
  ASSUME Inv, Enqueue_Start \/ ProducerStep
  PROVE  /\ pc'[C] = pc[C] /\ call'[C] = call[C] /\ received' = received
         /\ pc'[P] # "idle" => sent' = sent
         /\ sent' = sent \/ sent' = sent + 1
         /\ Enqueue_Start => pc[P] = "idle" /\ pc'[P] # "idle"
         /\ ProducerStep => pc[P] # "idle"
  <1>1. /\ MemInv /\ TypeInv /\ CallsTyped /\ P # C /\ C \in Threads /\ P \in Threads
        /\ P \in DOMAIN pc /\ C \in DOMAIN pc /\ C \in DOMAIN call
    BY Locs DEF Inv, TypeInv, CallsTyped
  <1>2. ASSUME NEW l, Goto(P, l)
        PROVE  pc'[P] = l /\ pc'[C] = pc[C]
    BY <1>1, <1>2 DEF Goto
  <1>3. ASSUME NEW l, GoOn(P, l) \/ \E b : GoOnWith(P, l, b)
        PROVE  pc'[P] = l /\ pc'[C] = pc[C] /\ call'[C] = call[C]
    <2>1. Goto(P, l) /\ (call' = call \/ \E x : call' = [call EXCEPT ![P] = x])
      BY <1>3 DEF GoOn, GoOnWith
    <2> QED
      BY <1>1, <1>2, <2>1
  <1>4. ASSUME Return(P)
        PROVE  pc'[P] = "idle" /\ pc'[C] = pc[C] /\ call'[C] = call[C]
    BY <1>1, <1>2, <1>4 DEF Return
  <1>5. Enqueue_Start => pc[P] = "idle" /\ pc'[P] # "idle" /\ pc'[C] = pc[C] /\ call'[C] = call[C]
    BY EnqueueStartLooks
  <1>6. ProducerStep => pc[P] # "idle"
    BY DEF ProducerStep, Enqueue_Write, Enqueue_WriteNext, Enqueue_Advance,
       Enqueue_PublishNext, Enqueue_Link, Enqueue_Alloc, Enqueue_Publish, Enqueue_PublishBlock,
       Enqueue_NoMemory, Enqueue_Full
  <1>7. CASE Enqueue_Start
    BY <1>5, <1>6, <1>7 DEF Enqueue_Start, cVars
  <1>8. CASE Enqueue_Write \/ Enqueue_WriteNext \/ Enqueue_Advance \/ Enqueue_PublishNext
             \/ Enqueue_Link \/ Enqueue_Alloc
    <2>1. \E l : GoOn(P, l) \/ \E b : GoOnWith(P, l, b)
      BY <1>8 DEF Enqueue_Write, Enqueue_WriteNext, Enqueue_Advance, Enqueue_PublishNext,
         Enqueue_Link, Enqueue_Alloc
    <2>2. received' = received /\ sent' = sent
      BY <1>8 DEF Enqueue_Write, Enqueue_WriteNext, Enqueue_Advance, Enqueue_PublishNext,
         Enqueue_Link, Enqueue_Alloc, pVars, cVars
    <2> QED
      BY <1>3, <1>5, <1>6, <1>8, <2>1, <2>2 DEF ProducerStep
  <1>9. CASE Enqueue_Publish \/ Enqueue_PublishBlock \/ Enqueue_NoMemory
    <2>1. Return(P) /\ received' = received /\ (sent' = sent \/ sent' = sent + 1)
      BY <1>9 DEF Enqueue_Publish, Enqueue_PublishBlock, Enqueue_NoMemory, pVars, cVars
    <2> QED
      BY <1>4, <1>5, <1>6, <1>9, <2>1 DEF ProducerStep
  <1>10. CASE Enqueue_Full
    <2>1. GoOn(P, "advance") \/ GoOn(P, "alloc") \/ Return(P)
      BY <1>10 DEF Enqueue_Full
    <2>2. received' = received /\ sent' = sent
      BY <1>10 DEF Enqueue_Full, pVars, cVars
    <2> QED
      BY <1>3, <1>4, <1>5, <1>6, <1>10, <2>1, <2>2 DEF ProducerStep
  <1> QED
    BY <1>7, <1>8, <1>9, <1>10 DEF ProducerStep

LEMMA CoversLess ==
  ASSUME NEW n \in Nat, NEW m \in Nat, m <= n, NEW e, Covers(n, e)
  PROVE  Covers(m, e)
  <1>1. \A x : x \in 1 .. m => x \in 1 .. n
    OBVIOUS
  <1> QED
    BY <1>1 DEF Covers

LEMMA EpochGrows ==
  ASSUME Inv, [Next]_vars
  PROVE  epoch'[P] \in Nat /\ epoch'[P] >= epoch[P]
  <1>1. epoch \in [Threads -> Nat] /\ P \in Threads /\ C \in Threads /\ P # C
    BY Locs DEF Inv, MemInv
  <1>2. epoch' = epoch \/ \E t \in Threads : ReleaseFence(t)
    <2>1. CASE Enqueue_Start \/ ProducerStep
      BY <1>1, <2>1 DEF Enqueue_Start, ProducerStep, Enqueue_Write, Enqueue_Publish, Enqueue_Full,
         Enqueue_Advance, Enqueue_WriteNext, Enqueue_PublishNext, Enqueue_Alloc,
         Enqueue_NoMemory, Enqueue_Link, Enqueue_PublishBlock, Load, Fence, Observe, Store,
         StoreReleased, memVars
    <2>2. CASE Dequeue_Start \/ ConsumerStep
      BY <1>1, <2>2 DEF Dequeue_Start, ConsumerStep, Dequeue_Take, Dequeue_Release,
         Dequeue_CheckTail, Dequeue_Recheck, Dequeue_ReadNext, Dequeue_CheckNext,
         Dequeue_MoveFront, Load, Fence, Observe, StoreReleased, memVars
    <2>3. CASE SizeStep
      BY <2>3 DEF SizeStep, Size_Start, Size_Count, Size_Follow, Load, Fence, Observe, memVars
    <2>4. CASE UNCHANGED vars
      BY <2>4 DEF vars, memVars
    <2> QED
      BY <2>1, <2>2, <2>3, <2>4 DEF Next
  <1> QED
    BY <1>1, <1>2 DEF ReleaseFence

===============================================================================
