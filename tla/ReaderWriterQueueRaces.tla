------------------------ MODULE ReaderWriterQueueRaces ------------------------
(***************************************************************************)
(* Proof that ReaderWriterQueue has no data race, with relaxed atomics, for   *)
(* every size of the queue and of its blocks.  The invariant of               *)
(* ReaderWriterQueueProofs says where the indices are; the one here says, of   *)
(* every slot, in which epoch it was written and which store shows that.      *)
(***************************************************************************)
EXTENDS ReaderWriterQueueProofs

-------------------------------------------------------------------------------
(***************************************************************************)
(* The inductive invariant.                                                 *)
(***************************************************************************)

\* Thread t wrote slot s last, or the other one did, in an epoch before e.
Before(s, t, e) == s.by = t \/ s.at < e

\* The slots s of a block of n are of epochs that their writers have begun.
SlotsTyped(n, s, ep) ==
    \A i \in 0 .. n - 1 : s[i].by \in Threads /\ s[i].at \in Nat /\ s[i].at <= ep[s[i].by]

\* The slots that are free by the producer's copy x of front were emptied before
\* what it has seen; and the slots before a store of front in history h, in an
\* epoch before that store's.
FreedBy(n, x, t, h, s, e) ==
    \A i \in 0 .. n - 1 :
        /\ Dist(x, t, n) <= Dist(x, i, n) => Before(s[i], P, e)
        /\ \A j \in 1 .. Len(h) :
              Dist(x, i, n) < Dist(x, h[j].val, n) => Before(s[i], P, h[j].at)

\* The slots before a store of tail in history l, but for the first one, were
\* filled in an epoch before that store's.
FilledBy(n, f, l, s) ==
    \A i \in 0 .. n - 1 : \A j \in 1 .. Len(l) :
        0 < Dist(f, i, n) /\ Dist(f, i, n) < Dist(f, l[j].val, n) => Before(s[i], C, l[j].at)

\* The slots before the consumer's copy x of tail were filled before what it has seen.
CopiedBy(n, f, x, s, e) ==
    \A i \in 0 .. n - 1 : Dist(f, i, n) < Dist(f, x, n) => Before(s[i], C, e)

\* The first slot may also be one that tailBlock has shown the consumer.
FirstBy(f, l, s, e) ==
    \A j \in 1 .. Len(l) : f # l[j].val => Before(s[f], C, l[j].at) \/ Before(s[f], C, e)

Freed(b) == FreedBy(size[b], localFront[b], TailIx(b), mem[FrontOf(b)], slot[b], seen[P])
Filled(b) == FilledBy(size[b], FrontIx(b), mem[TailOf(b)], slot[b])
Copied(b) == CopiedBy(size[b], FrontIx(b), localTail[b], slot[b], seen[C])
First(b) == FirstBy(FrontIx(b), mem[TailOf(b)], slot[b], seen[C])

BlockRace(b) ==
    /\ born[b] \in Nat /\ born[b] <= epoch[P]
    /\ SlotsTyped(size[b], slot[b], epoch)
    /\ Freed(b) /\ Filled(b)

\* What the consumer is about to access.
CallRace ==
    /\ pc[C] = "moveFront" => Copied(call[C].block)
    /\ pc[C] = "take" => Before(slot[call[C].block][FrontIx(call[C].block)], C, seen[C])
    /\ pc[C] = "checkNext" => born[call[C].block] < seen[C]

\* Before a store of tailBlock, every block up to it was constructed and its first
\* slot filled.
Shown(pos) ==
    \A j \in 1 .. Len(mem[TailBlock]) : \A b \in Ring :
        0 < pos[b] /\ pos[b] <= pos[mem[TailBlock][j].val] =>
            /\ Before(slot[b][FrontIx(b)], C, mem[TailBlock][j].at)
            /\ born[b] < mem[TailBlock][j].at

RaceInv ==
    /\ \A b \in 1 .. allocated : BlockRace(b)
    /\ Copied(FB) /\ First(FB) /\ CallRace
    /\ \E pos : RingInv(pos) /\ Shown(pos)

-------------------------------------------------------------------------------
(***************************************************************************)
(* One block: n slots s, and the histories h of front and l of tail.          *)
(***************************************************************************)

\* g is what is left of history h, or all of it.
Cut(g, h) ==
    /\ Len(h) \in Nat /\ Len(g) \in 1 .. Len(h)
    /\ \A j \in 1 .. Len(g) : g[j] = h[j + (Len(h) - Len(g))]

\* g is history h and one more store.
More(g, h, v, e) ==
    /\ Len(h) \in Nat /\ Len(g) = Len(h) + 1
    /\ \A j \in 1 .. Len(h) : g[j] = h[j]
    /\ g[Len(g)].val = v /\ g[Len(g)].at = e

LEMMA CutEntry ==
  ASSUME NEW g, NEW h, Cut(g, h), NEW j \in 1 .. Len(g)
  PROVE  \E k \in 1 .. Len(h) : g[j] = h[k]
  <1>1. j + (Len(h) - Len(g)) \in 1 .. Len(h) /\ g[j] = h[j + (Len(h) - Len(g))]
    BY DEF Cut
  <1> QED
    BY <1>1

LEMMA MoreEntry ==
  ASSUME NEW g, NEW h, NEW v, NEW e, More(g, h, v, e), NEW j \in 1 .. Len(g)
  PROVE  \/ j \in 1 .. Len(h) /\ g[j] = h[j]
         \/ j = Len(g) /\ g[j].val = v /\ g[j].at = e
  BY DEF More

LEMMA BeforeLater ==
  ASSUME NEW s, NEW t, NEW d \in Nat, NEW e \in Nat, s.at \in Nat, d <= e, Before(s, t, d)
  PROVE  Before(s, t, e)
  BY DEF Before

LEMMA FreedLook ==
  ASSUME NEW n, NEW x, NEW t, NEW h, NEW g, NEW s, NEW d \in Nat, NEW e \in Nat, d <= e,
         \A i \in 0 .. n - 1 : s[i].at \in Nat, Cut(g, h), FreedBy(n, x, t, h, s, d)
  PROVE  FreedBy(n, x, t, g, s, e)
  <1>1. ASSUME NEW i \in 0 .. n - 1, Dist(x, t, n) <= Dist(x, i, n)
        PROVE  Before(s[i], P, e)
    BY <1>1, BeforeLater DEF FreedBy
  <1>2. ASSUME NEW i \in 0 .. n - 1, NEW j \in 1 .. Len(g), Dist(x, i, n) < Dist(x, g[j].val, n)
        PROVE  Before(s[i], P, g[j].at)
    <2>1. PICK k \in 1 .. Len(h) : g[j] = h[k]
      BY CutEntry
    <2> QED
      BY <1>2, <2>1 DEF FreedBy
  <1> QED
    BY <1>1, <1>2 DEF FreedBy

\* The producer reads entry k of front, y, and takes it for its copy.
LEMMA FreedRead ==
  ASSUME NEW n \in Nat, NEW x \in 0 .. n - 1, NEW t \in 0 .. n - 1, NEW f \in 0 .. n - 1,
         NEW h, NEW g, NEW s, NEW d \in Nat, NEW e \in Nat, d <= e,
         \A i \in 0 .. n - 1 : s[i].at \in Nat, Cut(g, h), FreedBy(n, x, t, h, s, d),
         NEW k \in 1 .. Len(h), h[k].at \in Nat, h[k].at <= e,
         \A j \in 1 .. Len(h) : h[j].val \in 0 .. n - 1 /\ Dist(x, h[j].val, n) <= Dist(x, f, n),
         \A j \in 1 .. Len(g) : Dist(x, h[k].val, n) <= Dist(x, g[j].val, n),
         Dist(x, f, n) + Dist(f, t, n) < n
  PROVE  FreedBy(n, h[k].val, t, g, s, e)
  <1>1. PICK y : y = h[k].val
    OBVIOUS
  <1>2. y \in 0 .. n - 1 /\ Dist(x, y, n) <= Dist(x, f, n)
    BY <1>1
  <1>3. Dist(x, y, n) <= Dist(x, t, n) /\ Dist(y, t, n) = Dist(x, t, n) - Dist(x, y, n)
    <2>1. Dist(x, t, n) = Dist(x, f, n) + Dist(f, t, n)
      BY DistAdd
    <2>2. Dist(x, f, n) \in Nat /\ Dist(f, t, n) \in Nat /\ Dist(x, y, n) \in Nat
      BY <1>2, DistNat
    <2>3. Dist(x, y, n) <= Dist(x, t, n)
      BY <1>2, <2>1, <2>2
    <2> QED
      BY <1>2, <2>3, DistSub
  <1>4. ASSUME NEW i \in 0 .. n - 1
        PROVE  \/ Dist(x, i, n) < Dist(x, y, n) /\ Dist(y, i, n) = Dist(x, i, n) - Dist(x, y, n) + n
               \/ Dist(y, i, n) = Dist(x, i, n) - Dist(x, y, n)
    BY <1>2 DEF Dist
  <1>5. ASSUME NEW i \in 0 .. n - 1, Dist(y, t, n) <= Dist(y, i, n)
        PROVE  Before(s[i], P, e)
    <2>1. CASE Dist(x, i, n) < Dist(x, y, n)
      <3>1. Before(s[i], P, h[k].at)
        BY <1>1, <2>1 DEF FreedBy
      <3> QED
        BY <3>1, BeforeLater
    <2>2. CASE Dist(y, i, n) = Dist(x, i, n) - Dist(x, y, n)
      <3>1. Dist(x, t, n) <= Dist(x, i, n)
        BY <1>2, <1>3, <1>5, <2>2 DEF Dist
      <3>2. Before(s[i], P, d)
        BY <3>1 DEF FreedBy
      <3> QED
        BY <3>2, BeforeLater
    <2> QED
      BY <2>1, <2>2, <1>4
  <1>6. ASSUME NEW i \in 0 .. n - 1, NEW j \in 1 .. Len(g), Dist(y, i, n) < Dist(y, g[j].val, n)
        PROVE  Before(s[i], P, g[j].at)
    <2>1. PICK m \in 1 .. Len(h) : g[j] = h[m]
      BY CutEntry
    <2>2. PICK z : z = g[j].val
      OBVIOUS
    <2>3. z \in 0 .. n - 1 /\ Dist(x, y, n) <= Dist(x, z, n) /\ Dist(x, z, n) <= Dist(x, f, n)
      BY <2>1, <2>2, <1>1
    <2>4. Dist(y, z, n) = Dist(x, z, n) - Dist(x, y, n)
      BY <1>2, <2>3, DistSub
    <2>5. Dist(x, i, n) < Dist(x, z, n)
      <3>1. Dist(y, i, n) < Dist(y, z, n)
        BY <1>6, <2>2
      <3> QED
        BY <3>1, <1>2, <2>3 DEF Dist
    <2> QED
      BY <2>1, <2>2, <2>5 DEF FreedBy
  <1> QED
    BY <1>1, <1>5, <1>6 DEF FreedBy

LEMMA FreedTail ==
  ASSUME NEW n, NEW x, NEW t, NEW u, NEW h, NEW s, NEW e, FreedBy(n, x, t, h, s, e),
         \A i \in 0 .. n - 1 : Dist(x, u, n) <= Dist(x, i, n) => Dist(x, t, n) <= Dist(x, i, n)
  PROVE  FreedBy(n, x, u, h, s, e)
  BY DEF FreedBy

\* A slot changes: the producer fills it, or the consumer empties it.
LEMMA FreedSlot ==
  ASSUME NEW n, NEW x, NEW t, NEW h, NEW s, NEW r, NEW e, FreedBy(n, x, t, h, s, e), NEW k,
         \A i \in 0 .. n - 1 : i # k => r[i] = s[i],
         \/ r[k].by = P
         \/ /\ ~ (Dist(x, t, n) <= Dist(x, k, n))
            /\ \A j \in 1 .. Len(h) : ~ (Dist(x, k, n) < Dist(x, h[j].val, n))
  PROVE  FreedBy(n, x, t, h, r, e)
  BY DEF FreedBy, Before

LEMMA FreedFront ==
  ASSUME NEW n, NEW x, NEW t, NEW h, NEW g, NEW s, NEW e, FreedBy(n, x, t, h, s, e),
         NEW v, NEW a, More(g, h, v, a), \A i \in 0 .. n - 1 : Before(s[i], P, a)
  PROVE  FreedBy(n, x, t, g, s, e)
  <1>1. ASSUME NEW i \in 0 .. n - 1, NEW j \in 1 .. Len(g), Dist(x, i, n) < Dist(x, g[j].val, n)
        PROVE  Before(s[i], P, g[j].at)
    <2>1. CASE j \in 1 .. Len(h) /\ g[j] = h[j]
      BY <1>1, <2>1 DEF FreedBy
    <2>2. CASE g[j].at = a
      BY <2>2
    <2> QED
      BY <2>1, <2>2, MoreEntry
  <1> QED
    BY <1>1 DEF FreedBy

LEMMA FilledLook ==
  ASSUME NEW n, NEW f, NEW l, NEW g, NEW s, Cut(g, l), FilledBy(n, f, l, s)
  PROVE  FilledBy(n, f, g, s)
  <1>1. ASSUME NEW i \in 0 .. n - 1, NEW j \in 1 .. Len(g),
               0 < Dist(f, i, n), Dist(f, i, n) < Dist(f, g[j].val, n)
        PROVE  Before(s[i], C, g[j].at)
    <2>1. PICK k \in 1 .. Len(l) : g[j] = l[k]
      BY CutEntry
    <2> QED
      BY <1>1, <2>1 DEF FilledBy
  <1> QED
    BY <1>1 DEF FilledBy

\* The producer fills slot k at tail, or the consumer empties one.
LEMMA FilledSlot ==
  ASSUME NEW n, NEW f, NEW l, NEW s, NEW r, FilledBy(n, f, l, s), NEW k,
         \A i \in 0 .. n - 1 : i # k => r[i] = s[i],
         \/ r[k].by = C
         \/ \A j \in 1 .. Len(l) : ~ (Dist(f, k, n) < Dist(f, l[j].val, n))
  PROVE  FilledBy(n, f, l, r)
  BY DEF FilledBy, Before

LEMMA FilledTail ==
  ASSUME NEW n, NEW f, NEW l, NEW g, NEW s, FilledBy(n, f, l, s), NEW v, NEW a, More(g, l, v, a),
         \A i \in 0 .. n - 1 :
            0 < Dist(f, i, n) /\ Dist(f, i, n) < Dist(f, v, n) => Before(s[i], C, a)
  PROVE  FilledBy(n, f, g, s)
  <1>1. ASSUME NEW i \in 0 .. n - 1, NEW j \in 1 .. Len(g),
               0 < Dist(f, i, n), Dist(f, i, n) < Dist(f, g[j].val, n)
        PROVE  Before(s[i], C, g[j].at)
    <2>1. CASE j \in 1 .. Len(l) /\ g[j] = l[j]
      BY <1>1, <2>1 DEF FilledBy
    <2>2. CASE g[j].val = v /\ g[j].at = a
      BY <1>1, <2>2
    <2> QED
      BY <2>1, <2>2, MoreEntry
  <1> QED
    BY <1>1 DEF FilledBy

LEMMA DistNext ==
  ASSUME NEW n \in Nat, n >= 2, NEW f \in 0 .. n - 1, NEW v, v = (IF f + 1 = n THEN 0 ELSE f + 1)
  PROVE  /\ v \in 0 .. n - 1 /\ v # f /\ Dist(f, v, n) = 1
         /\ \A i \in 0 .. n - 1 : Dist(v, i, n) = IF i = f THEN n - 1 ELSE Dist(f, i, n) - 1
  BY DEF Dist

\* The consumer moves front on by one, to v.
LEMMA FilledFront ==
  ASSUME NEW n \in Nat, n >= 2, NEW f \in 0 .. n - 1, NEW l, NEW s, FilledBy(n, f, l, s),
         NEW v, v = (IF f + 1 = n THEN 0 ELSE f + 1),
         \A j \in 1 .. Len(l) : l[j].val \in 0 .. n - 1 /\ l[j].val # f
  PROVE  FilledBy(n, v, l, s)
  <1>1. ASSUME NEW i \in 0 .. n - 1, NEW j \in 1 .. Len(l),
               0 < Dist(v, i, n), Dist(v, i, n) < Dist(v, l[j].val, n)
        PROVE  Before(s[i], C, l[j].at)
    <2>1. PICK z : z = l[j].val /\ z \in 0 .. n - 1 /\ z # f
      OBVIOUS
    <2>2. /\ Dist(v, z, n) = Dist(f, z, n) - 1
          /\ Dist(v, i, n) = IF i = f THEN n - 1 ELSE Dist(f, i, n) - 1
          /\ Dist(f, z, n) \in Nat /\ Dist(f, z, n) <= n - 1
          /\ Dist(f, i, n) \in Nat
      <3>1. \A y \in 0 .. n - 1 : Dist(v, y, n) = IF y = f THEN n - 1 ELSE Dist(f, y, n) - 1
        BY DistNext
      <3>2. \A y \in 0 .. n - 1 : Dist(f, y, n) \in Nat /\ Dist(f, y, n) <= n - 1
        BY DistNat
      <3> QED
        BY <2>1, <3>1, <3>2
    <2>3. 0 < Dist(f, i, n) /\ Dist(f, i, n) < Dist(f, z, n)
      BY <1>1, <2>1, <2>2
    <2> QED
      BY <2>1, <2>3 DEF FilledBy
  <1> QED
    BY <1>1 DEF FilledBy

LEMMA CopiedLook ==
  ASSUME NEW n, NEW f, NEW x, NEW s, NEW d \in Nat, NEW e \in Nat, d <= e,
         \A i \in 0 .. n - 1 : s[i].at \in Nat, CopiedBy(n, f, x, s, d)
  PROVE  CopiedBy(n, f, x, s, e)
  BY DEF CopiedBy, Before

\* The consumer copies entry k of tail.
LEMMA CopiedRead ==
  ASSUME NEW n \in Nat, NEW f \in 0 .. n - 1, NEW l, NEW s, NEW d \in Nat, NEW e \in Nat, d <= e,
         \A i \in 0 .. n - 1 : s[i].at \in Nat, FilledBy(n, f, l, s),
         NEW k \in 1 .. Len(l), l[k].val \in 0 .. n - 1, l[k].at \in Nat, l[k].at <= e,
         f # l[k].val => Before(s[f], C, l[k].at) \/ Before(s[f], C, d)
  PROVE  CopiedBy(n, f, l[k].val, s, e)
  <1>1. ASSUME NEW i \in 0 .. n - 1, Dist(f, i, n) < Dist(f, l[k].val, n)
        PROVE  Before(s[i], C, e)
    <2>1. Dist(f, i, n) \in Nat /\ (Dist(f, i, n) = 0 <=> i = f)
      BY DistNat
    <2>2. CASE i = f
      <3>1. f # l[k].val
        BY <1>1, <2>1, <2>2
      <3> QED
        BY <2>2, <3>1 DEF Before
    <2>3. CASE i # f
      <3>1. Before(s[i], C, l[k].at)
        BY <1>1, <2>1, <2>3 DEF FilledBy
      <3> QED
        BY <3>1, BeforeLater
    <2> QED
      BY <2>2, <2>3
  <1> QED
    BY <1>1 DEF CopiedBy

LEMMA CopiedNone ==
  ASSUME NEW n \in Nat, NEW f \in 0 .. n - 1, NEW s, NEW e
  PROVE  CopiedBy(n, f, f, s, e)
  <1>1. ASSUME NEW i \in 0 .. n - 1
        PROVE  ~ (Dist(f, i, n) < Dist(f, f, n))
    BY DEF Dist
  <1> QED
    BY <1>1 DEF CopiedBy

LEMMA CopiedSlot ==
  ASSUME NEW n, NEW f, NEW x, NEW s, NEW r, NEW e, CopiedBy(n, f, x, s, e), NEW k,
         \A i \in 0 .. n - 1 : i # k => r[i] = s[i],
         r[k].by = C \/ ~ (Dist(f, k, n) < Dist(f, x, n))
  PROVE  CopiedBy(n, f, x, r, e)
  BY DEF CopiedBy, Before

LEMMA CopiedFront ==
  ASSUME NEW n \in Nat, n >= 2, NEW f \in 0 .. n - 1, NEW x \in 0 .. n - 1, NEW s, NEW e,
         CopiedBy(n, f, x, s, e), NEW v, v = (IF f + 1 = n THEN 0 ELSE f + 1), x # f
  PROVE  CopiedBy(n, v, x, s, e)
  <1>1. ASSUME NEW i \in 0 .. n - 1, Dist(v, i, n) < Dist(v, x, n)
        PROVE  Before(s[i], C, e)
    <2>1. Dist(f, i, n) < Dist(f, x, n)
      BY <1>1 DEF Dist
    <2> QED
      BY <2>1 DEF CopiedBy
  <1> QED
    BY <1>1 DEF CopiedBy

LEMMA FirstLook ==
  ASSUME NEW f, NEW l, NEW g, NEW s, NEW d \in Nat, NEW e \in Nat, d <= e, s[f].at \in Nat,
         Cut(g, l), FirstBy(f, l, s, d)
  PROVE  FirstBy(f, g, s, e)
  <1>1. ASSUME NEW j \in 1 .. Len(g), f # g[j].val
        PROVE  Before(s[f], C, g[j].at) \/ Before(s[f], C, e)
    <2>1. PICK k \in 1 .. Len(l) : g[j] = l[k]
      BY CutEntry
    <2>2. Before(s[f], C, l[k].at) \/ Before(s[f], C, d)
      BY <1>1, <2>1 DEF FirstBy
    <2> QED
      BY <2>1, <2>2 DEF Before
  <1> QED
    BY <1>1 DEF FirstBy

LEMMA FirstTail ==
  ASSUME NEW f, NEW l, NEW g, NEW s, NEW e, FirstBy(f, l, s, e), NEW v, NEW a, More(g, l, v, a),
         f # v => Before(s[f], C, a)
  PROVE  FirstBy(f, g, s, e)
  <1>1. ASSUME NEW j \in 1 .. Len(g), f # g[j].val
        PROVE  Before(s[f], C, g[j].at) \/ Before(s[f], C, e)
    <2>1. CASE j \in 1 .. Len(l) /\ g[j] = l[j]
      BY <1>1, <2>1 DEF FirstBy
    <2>2. CASE g[j].val = v /\ g[j].at = a
      BY <1>1, <2>2
    <2> QED
      BY <2>1, <2>2, MoreEntry
  <1> QED
    BY <1>1 DEF FirstBy

LEMMA FirstFront ==
  ASSUME NEW n \in Nat, n >= 2, NEW f \in 0 .. n - 1, NEW l, NEW s, FilledBy(n, f, l, s), NEW e,
         NEW v, v = (IF f + 1 = n THEN 0 ELSE f + 1),
         \A j \in 1 .. Len(l) : l[j].val \in 0 .. n - 1 /\ l[j].val # f
  PROVE  FirstBy(v, l, s, e)
  <1>1. v \in 0 .. n - 1 /\ Dist(f, v, n) = 1
    BY DistNext
  <1>2. ASSUME NEW j \in 1 .. Len(l), v # l[j].val
        PROVE  Before(s[v], C, l[j].at)
    <2>1. PICK z : z = l[j].val /\ z \in 0 .. n - 1 /\ z # f
      OBVIOUS
    <2>2. Dist(f, z, n) # 1 /\ Dist(f, z, n) # 0 /\ Dist(f, z, n) \in Nat
      <3>1. Dist(f, z, n) \in Nat /\ Dist(f, z, n) # 0
        BY <2>1, DistNat
      <3>2. Dist(f, z, n) # Dist(f, v, n)
        BY <1>1, <1>2, <2>1, DistEqual
      <3> QED
        BY <1>1, <3>1, <3>2
    <2>3. 0 < Dist(f, v, n) /\ Dist(f, v, n) < Dist(f, z, n)
      BY <1>1, <2>2
    <2> QED
      BY <1>1, <2>1, <2>3 DEF FilledBy
  <1> QED
    BY <1>2 DEF FirstBy

-------------------------------------------------------------------------------
(***************************************************************************)
(* The steps that store nothing.                                            *)
(***************************************************************************)

LEMMA RacePlace ==
  ASSUME Inv, RaceInv
  PROVE  \E pos : PosInv(pos) /\ Shown(pos)
  <1>1. PICK p : PosInv(p)
    BY DEF Inv
  <1>2. PICK q : RingInv(q) /\ Shown(q)
    BY DEF RaceInv
  <1>3. p = q
    BY <1>1, <1>2, RingUnique DEF Inv, PosInv
  <1> QED
    BY <1>1, <1>2, <1>3

LEMMA TrimCuts ==
  ASSUME MemInv, Trim, NEW loc \in Locations
  PROVE  Cut(mem'[loc], mem[loc])
  <1>1. Len(mem[loc]) \in Nat
    BY History
  <1> QED
    BY <1>1 DEF Trim, Cut

\* What may be read of front is behind front, and of tail, behind tail.
LEMMA Behind ==
  ASSUME Inv, NEW b \in 1 .. allocated
  PROVE  /\ \A j \in 1 .. Len(mem[FrontOf(b)]) :
               /\ mem[FrontOf(b)][j].val \in 0 .. size[b] - 1
               /\ Dist(localFront[b], mem[FrontOf(b)][j].val, size[b])
                     <= Dist(localFront[b], FrontIx(b), size[b])
         /\ \A j \in 1 .. Len(mem[TailOf(b)]) :
               /\ mem[TailOf(b)][j].val \in 0 .. size[b] - 1
               /\ Dist(FrontIx(b), mem[TailOf(b)][j].val, size[b])
                     <= Dist(FrontIx(b), TailIx(b), size[b])
  <1>1. BlockInv(b) /\ FrontOf(b) \in Locations /\ TailOf(b) \in Locations
    BY BlockFacts
  <1> DEFINE h == mem[FrontOf(b)]
             l == mem[TailOf(b)]
  <1>2. /\ Len(h) \in Nat /\ Len(h) >= 1 /\ FrontIx(b) = h[Len(h)].val
        /\ Len(l) \in Nat /\ Len(l) >= 1 /\ TailIx(b) = l[Len(l)].val
    BY <1>1, History DEF FrontIx, TailIx, Inv
  <1>3. /\ Len(h) \in 1 .. Len(h) /\ \A j \in 1 .. Len(h) : j <= Len(h)
        /\ Len(l) \in 1 .. Len(l) /\ \A j \in 1 .. Len(l) : j <= Len(l)
    <2> HIDE DEF h, l
    <2> QED
      BY <1>2
  <1>4. /\ \A j \in 1 .. Len(h) : /\ h[j].val \in 0 .. size[b] - 1
                                  /\ Dist(localFront[b], h[j].val, size[b])
                                        <= Dist(localFront[b], h[Len(h)].val, size[b])
        /\ \A j \in 1 .. Len(l) : /\ l[j].val \in 0 .. size[b] - 1
                                  /\ Dist(FrontIx(b), l[j].val, size[b])
                                        <= Dist(FrontIx(b), l[Len(l)].val, size[b])
    BY <1>1, <1>3 DEF BlockInv
  <1> QED
    BY <1>2, <1>4

\* What is left of a history from entry k on.
LEMMA EntryShift ==
  ASSUME NEW y \in Nat, NEW k \in 1 .. y, NEW z \in 1 .. y, z <= y - k + 1, NEW j \in 1 .. z
  PROVE  j + (y - z) \in 1 .. y /\ k <= j + (y - z)
  OBVIOUS

LEMMA LookFreed ==
  ASSUME Inv, Trim, NEW b \in 1 .. allocated, BlockRace(b), size'[b] = size[b], slot'[b] = slot[b],
         seen[P] \in Nat, seen'[P] \in Nat, seen'[P] >= seen[P],
         \/ localFront'[b] = localFront[b]
         \/ \E i : /\ ReadAt(FrontOf(b), i) /\ localFront'[b] = mem[FrontOf(b)][i].val
                   /\ mem[FrontOf(b)][i].at <= seen'[P]
  PROVE  Freed(b)'
  <1>1. PICK n, x, t, f, h, g, s, d, e :
            /\ n = size[b] /\ x = localFront[b] /\ t = TailIx(b) /\ f = FrontIx(b)
            /\ h = mem[FrontOf(b)] /\ g = mem'[FrontOf(b)] /\ s = slot[b]
            /\ d = seen[P] /\ e = seen'[P]
    OBVIOUS
  <1>2. /\ n \in Nat /\ x \in 0 .. n - 1 /\ t \in 0 .. n - 1 /\ f \in 0 .. n - 1
        /\ Dist(x, f, n) + Dist(f, t, n) < n /\ FrontOf(b) \in Locations /\ b \in Blocks
    BY <1>1, BlockFacts
  <1>3. Cut(g, h) /\ TailIx(b)' = t
    BY <1>1, <1>2, TrimCuts, TrimSame DEF Same, Inv
  <1>4. FreedBy(n, x, t, h, s, d) /\ \A i \in 0 .. n - 1 : s[i].at \in Nat
    BY <1>1 DEF BlockRace, Freed, SlotsTyped
  <1>5. CASE localFront'[b] = localFront[b]
    <2>1. FreedBy(n, x, t, g, s, e)
      BY <1>1, <1>3, <1>4, FreedLook
    <2> QED
      BY <1>1, <1>3, <1>5, <2>1 DEF Freed
  <1>6. ASSUME NEW k, ReadAt(FrontOf(b), k), localFront'[b] = mem[FrontOf(b)][k].val,
               mem[FrontOf(b)][k].at <= seen'[P]
        PROVE  Freed(b)'
    <2>1. k \in 1 .. Len(h) /\ Len(g) <= Len(h) - k + 1 /\ h[k].at \in Nat /\ h[k].at <= e
      BY <1>1, <1>2, <1>6, History DEF ReadAt, Inv
    <2>2. \A j \in 1 .. Len(h) : h[j].val \in 0 .. n - 1 /\ Dist(x, h[j].val, n) <= Dist(x, f, n)
      BY <1>1, Behind
    <2>3. ASSUME NEW j \in 1 .. Len(g)
          PROVE  Dist(x, h[k].val, n) <= Dist(x, g[j].val, n)
      <3>1. PICK m : m = j + (Len(h) - Len(g))
        OBVIOUS
      <3>a. Len(h) \in Nat /\ Len(g) \in 1 .. Len(h) /\ g[j] = h[m]
        BY <3>1, <1>3 DEF Cut
      <3>b. PICK y, z : y = Len(h) /\ z = Len(g)
        OBVIOUS
      <3>c. m \in 1 .. y /\ k <= m
        <4>1. j \in 1 .. z /\ y \in Nat /\ z \in 1 .. y /\ k \in 1 .. y /\ z <= y - k + 1
              /\ m = j + (y - z)
          BY <2>1, <3>1, <3>a, <3>b
        <4> QED
          BY <4>1, EntryShift
      <3>2. m \in 1 .. Len(h) /\ k <= m /\ g[j] = h[m]
        BY <3>a, <3>b, <3>c
      <3>3. \A i, o \in 1 .. Len(h) : i <= o => Dist(x, h[i].val, n) <= Dist(x, h[o].val, n)
        BY <1>1, BlockFacts DEF BlockInv
      <3> QED
        BY <2>1, <3>2, <3>3
    <2>4. FreedBy(n, h[k].val, t, g, s, e)
      <3>1. d \in Nat /\ e \in Nat /\ d <= e
        BY <1>1
      <3> QED
        BY <1>2, <1>3, <1>4, <2>1, <2>2, <2>3, <3>1, FreedRead
    <2> QED
      BY <1>1, <1>3, <1>6, <2>4 DEF Freed
  <1> QED
    BY <1>5, <1>6

LEMMA LookShown ==
  ASSUME Inv, Trim, NEW pos, RingInv(pos), Shown(pos), RingSize' = RingSize, UNCHANGED <<slot, born>>
  PROVE  RingInv(pos)' /\ Shown(pos)'
  <1>1. MemInv /\ TypeInv /\ Same
    BY TrimSame DEF Inv
  <1>2. RingInv(pos)' /\ Ring' = Ring
    BY <1>1, KeepsRing
  <1>3. Cut(mem'[TailBlock], mem[TailBlock])
    BY <1>1, Locs, TrimCuts
  <1>4. \A b \in Ring : FrontIx(b)' = FrontIx(b)
    BY <1>1, RingBlocks DEF Same
  <1>5. PICK g, h : g = mem'[TailBlock] /\ h = mem[TailBlock]
    OBVIOUS
  <1>6. ASSUME NEW j \in 1 .. Len(g), NEW b \in Ring, 0 < pos[b], pos[b] <= pos[g[j].val]
        PROVE  Before(slot[b][FrontIx(b)], C, g[j].at) /\ born[b] < g[j].at
    <2>1. PICK k \in 1 .. Len(h) : g[j] = h[k]
      BY <1>3, <1>5, CutEntry
    <2> QED
      BY <1>5, <1>6, <2>1 DEF Shown
  <1>7. Shown(pos)'
    BY <1>2, <1>4, <1>5, <1>6 DEF Shown
  <1> QED
    BY <1>2, <1>7

\* What the consumer copies of tail is its old copy, nothing, or a store of tail
\* whose epoch it has seen.
CopiesTail(b) ==
    \/ localTail'[b] = localTail[b]
    \/ localTail'[b] = FrontIx(b)
    \/ \E i \in 1 .. Len(mem[TailOf(b)]) : /\ localTail'[b] = mem[TailOf(b)][i].val
                                           /\ mem[TailOf(b)][i].at <= seen'[C]

LEMMA LookFront ==
  ASSUME Inv, Trim, NEW b \in 1 .. allocated, BlockRace(b), Copied(b), First(b),
         size'[b] = size[b], slot'[b] = slot[b],
         seen[C] \in Nat, seen'[C] \in Nat, seen'[C] >= seen[C], CopiesTail(b)
  PROVE  Copied(b)' /\ First(b)'
  <1>1. PICK n, x, f, l, g, s, d, e :
            /\ n = size[b] /\ x = localTail[b] /\ f = FrontIx(b)
            /\ l = mem[TailOf(b)] /\ g = mem'[TailOf(b)] /\ s = slot[b]
            /\ d = seen[C] /\ e = seen'[C]
    OBVIOUS
  <1>2. /\ n \in Nat /\ x \in 0 .. n - 1 /\ f \in 0 .. n - 1
        /\ TailOf(b) \in Locations /\ b \in Blocks
    BY <1>1, BlockFacts
  <1>3. Cut(g, l) /\ FrontIx(b)' = f
    BY <1>1, <1>2, TrimCuts, TrimSame DEF Same, Inv
  <1>4. /\ FilledBy(n, f, l, s) /\ CopiedBy(n, f, x, s, d) /\ FirstBy(f, l, s, d)
        /\ \A i \in 0 .. n - 1 : s[i].at \in Nat
    BY <1>1 DEF BlockRace, Filled, Copied, First, SlotsTyped
  <1>5. d \in Nat /\ e \in Nat /\ d <= e
    BY <1>1
  <1>6. First(b)'
    <2>1. FirstBy(f, g, s, e)
      BY <1>2, <1>3, <1>4, <1>5, FirstLook
    <2> QED
      BY <1>1, <1>3, <2>1 DEF First
  <1>7. CASE localTail'[b] = localTail[b]
    <2>1. CopiedBy(n, f, x, s, e)
      BY <1>4, <1>5, CopiedLook
    <2> QED
      BY <1>1, <1>3, <1>6, <1>7, <2>1 DEF Copied
  <1>8. CASE localTail'[b] = FrontIx(b)
    <2>1. CopiedBy(n, f, f, s, e)
      BY <1>2, CopiedNone
    <2> QED
      BY <1>1, <1>3, <1>6, <1>8, <2>1 DEF Copied
  <1>9. ASSUME NEW k \in 1 .. Len(l), localTail'[b] = l[k].val, l[k].at <= e
        PROVE  Copied(b)'
    <2>1. l[k].val \in 0 .. n - 1 /\ l[k].at \in Nat
      BY <1>1, <1>2, Behind, History DEF Inv
    <2>2. f # l[k].val => Before(s[f], C, l[k].at) \/ Before(s[f], C, d)
      BY <1>4 DEF FirstBy
    <2>3. CopiedBy(n, f, l[k].val, s, e)
      BY <1>2, <1>4, <1>5, <1>9, <2>1, <2>2, CopiedRead
    <2> QED
      BY <1>1, <1>3, <1>9, <2>3 DEF Copied
  <1> QED
    BY <1>1, <1>6, <1>7, <1>8, <1>9 DEF CopiesTail

\* What the producer copies of front.
CopiesFront(b) ==
    \/ localFront'[b] = localFront[b]
    \/ \E i : /\ ReadAt(FrontOf(b), i) /\ localFront'[b] = mem[FrontOf(b)][i].val
              /\ mem[FrontOf(b)][i].at <= seen'[P]

LEMMA LookRace ==
  ASSUME Inv, RaceInv, NEW t \in Threads, Looks(t),
         UNCHANGED <<allocated, size, slot, born>>, RingSize' = RingSize,
         \A b \in 1 .. allocated : CopiesFront(b), CopiesTail(FB), CallRace'
  PROVE  RaceInv'
  <1>1. PICK pos : PosInv(pos) /\ Shown(pos)
    BY RacePlace
  <1>2. /\ MemInv /\ TypeInv /\ MemInv' /\ Trim /\ Same /\ epoch' = epoch
    BY TrimSame DEF Inv, Looks
  <1>3. \A u \in Threads : seen[u] \in Nat /\ seen'[u] \in Nat /\ seen'[u] >= seen[u]
    <2>1. seen \in [Threads -> Nat] /\ seen' \in [Threads -> Nat]
      BY <1>2 DEF MemInv
    <2>2. seen'[t] >= seen[t] /\ \A u \in Threads : u # t => seen'[u] = seen[u]
      BY DEF Looks
    <2>3. ASSUME NEW u \in Threads PROVE seen[u] \in Nat /\ seen'[u] \in Nat /\ seen'[u] >= seen[u]
      <3>1. seen[u] \in Nat /\ seen'[u] \in Nat
        BY <2>1
      <3>2. u = t \/ seen'[u] = seen[u]
        BY <2>2
      <3> QED
        BY <2>2, <3>1, <3>2
    <2> QED
      BY <2>3
  <1>4. P \in Threads /\ C \in Threads
    BY Locs
  <1>5. RingInv(pos)' /\ Shown(pos)'
    BY <1>1, <1>2, LookShown DEF PosInv
  <1>6. ASSUME NEW b \in 1 .. allocated
        PROVE  BlockRace(b)'
    <2>1. BlockRace(b)
      BY DEF RaceInv
    <2>2. Freed(b)'
      BY <1>2, <1>3, <1>4, <2>1, LookFreed DEF CopiesFront
    <2>3. Filled(b)'
      <3>1. TailOf(b) \in Locations /\ b \in Blocks
        BY BlockFacts
      <3>2. FilledBy(size[b], FrontIx(b), mem[TailOf(b)], slot[b]) /\ Cut(mem'[TailOf(b)], mem[TailOf(b)])
        BY <1>2, <2>1, <3>1, TrimCuts DEF BlockRace, Filled
      <3>3. FilledBy(size[b], FrontIx(b), mem'[TailOf(b)], slot[b])
        BY <3>2, FilledLook
      <3>4. FrontIx(b)' = FrontIx(b)
        BY <1>2, <3>1 DEF Same
      <3> QED
        BY <3>3, <3>4 DEF Filled
    <2> QED
      BY <1>2, <2>1, <2>2, <2>3 DEF BlockRace
  <1>7. PICK c : c = FB
    OBVIOUS
  <1>8. c \in 1 .. allocated /\ FB' = c
    BY <1>1, <1>2, <1>7, RingBlocks DEF PosInv, RingInv, Same
  <1>9. BlockRace(c) /\ Copied(c) /\ First(c) /\ CopiesTail(c)
    BY <1>7, <1>8 DEF RaceInv
  <1>10. Copied(c)' /\ First(c)'
    BY <1>2, <1>3, <1>4, <1>8, <1>9, LookFront
  <1>11. Copied(FB)' /\ First(FB)'
    BY <1>8, <1>10 DEF Copied, First, FrontIx
  <1> QED
    BY <1>5, <1>6, <1>11 DEF RaceInv

-------------------------------------------------------------------------------
(***************************************************************************)
(* The steps that store nothing, one by one.                                *)
(***************************************************************************)

\* A step of the producer changes nothing of block b that the consumer is about
\* to access.
LeavesBlock(b) ==
    /\ size'[b] = size[b] /\ localTail'[b] = localTail[b] /\ born'[b] = born[b]
    /\ FrontIx(b)' = FrontIx(b)
    /\ \A i \in 0 .. size[b] - 1 : i # TailIx(b) => slot'[b][i] = slot[b][i]

LEMMA CallStays ==
  ASSUME Inv, CallRace, pc'[C] = pc[C], call'[C] = call[C], seen'[C] = seen[C],
         \A b \in 1 .. allocated : LeavesBlock(b)
  PROVE  CallRace'
  <1>1. PICK b, n, f, t, x, s, r, e : /\ b = call[C].block /\ n = size[b] /\ f = FrontIx(b)
                                      /\ t = TailIx(b) /\ x = localTail[b] /\ s = slot[b]
                                      /\ r = slot'[b] /\ e = seen[C]
    OBVIOUS
  <1>2. pc[C] \in {"take", "checkNext", "moveFront"} => b \in 1 .. allocated /\ b \in Blocks
    BY <1>1, CallBlock
  <1>3. CASE pc[C] = "moveFront"
    <2>1. LeavesBlock(b) /\ Copied(b)
      BY <1>1, <1>2, <1>3 DEF CallRace
    <2>2. n \in Nat /\ f \in 0 .. n - 1 /\ t \in 0 .. n - 1 /\ x \in 0 .. n - 1 /\ BlockInv(b)
      BY <1>1, <1>2, <1>3, BlockFacts
    <2>3. Dist(f, x, n) <= Dist(f, t, n)
      <3>1. TailCopied(b)
        BY <1>1, <1>3 DEF Inv, PosInv, ConsumerInv
      <3> QED
        BY <1>1, <1>2, <1>3, <2>2, <3>1, CopyBehindTail DEF Inv
    <2>4. ASSUME NEW i \in 0 .. n - 1, Dist(f, i, n) < Dist(f, x, n)
          PROVE  Before(r[i], C, e)
      <3>1. Dist(f, i, n) \in Nat /\ Dist(f, t, n) \in Nat /\ Dist(f, x, n) \in Nat
        BY <2>2, DistNat
      <3>2. i # t
        BY <2>3, <2>4, <3>1
      <3>3. r[i] = s[i]
        BY <1>1, <2>1, <3>2 DEF LeavesBlock
      <3> QED
        BY <1>1, <2>1, <2>4, <3>3 DEF Copied, CopiedBy
    <2>5. CopiedBy(n, f, x, r, e)
      BY <2>4 DEF CopiedBy
    <2>6. FrontIx(b)' = f /\ size'[b] = n /\ localTail'[b] = x
      BY <1>1, <2>1 DEF LeavesBlock
    <2>7. Copied(b)'
      BY <1>1, <2>5, <2>6 DEF Copied
    <2>8. Copied(call[C].block)'
      BY <1>1, <2>7 DEF Copied, FrontIx
    <2> QED
      BY <1>3, <2>8 DEF CallRace
  <1>4. CASE pc[C] = "take"
    <2>1. LeavesBlock(b) /\ Before(s[f], C, e)
      BY <1>1, <1>2, <1>4 DEF CallRace
    <2>2. n \in Nat /\ f \in 0 .. n - 1
      BY <1>1, <1>2, <1>4, BlockFacts
    <2>3. f # t
      BY <1>1, <1>4, FrontNotEmpty DEF Inv
    <2>4. r[f] = s[f]
      BY <1>1, <2>1, <2>2, <2>3 DEF LeavesBlock
    <2>5. FrontIx(b)' = f
      BY <1>1, <2>1 DEF LeavesBlock
    <2>6. FrontIx(call[C].block)' = f
      BY <1>1, <2>5 DEF FrontIx
    <2> QED
      BY <1>1, <1>4, <2>1, <2>4, <2>6 DEF CallRace
  <1>5. CASE pc[C] = "checkNext"
    <2>1. LeavesBlock(b) /\ born[b] < e
      BY <1>1, <1>2, <1>5 DEF CallRace
    <2> QED
      BY <1>1, <1>5, <2>1 DEF CallRace, LeavesBlock
  <1>6. CASE pc[C] \notin {"moveFront", "take", "checkNext"}
    BY <1>6 DEF CallRace
  <1> QED
    BY <1>3, <1>4, <1>5, <1>6

LEMMA ProducerLookRace ==
  ASSUME Inv, RaceInv, Looks(P), pc'[C] = pc[C], call'[C] = call[C],
         UNCHANGED <<allocated, size, slot, born, localTail>>, RingSize' = RingSize,
         \A b \in 1 .. allocated : CopiesFront(b)
  PROVE  RaceInv'
  <1>1. P \in Threads /\ C \in Threads /\ P # C
    BY Locs
  <1>2. Trim /\ Same /\ seen'[C] = seen[C]
    BY <1>1, TrimSame DEF Looks, Inv
  <1>3. \A b \in 1 .. allocated : LeavesBlock(b)
    BY <1>2, BlockFacts DEF LeavesBlock, Same
  <1>4. CallRace'
    BY <1>2, <1>3, CallStays DEF RaceInv
  <1>5. CopiesTail(FB)
    BY DEF CopiesTail
  <1> QED
    BY <1>1, <1>4, <1>5, LookRace

LEMMA EnqueueStartRace ==
  ASSUME Inv, RaceInv, Enqueue_Start
  PROVE  RaceInv'
  <1>1. PICK pos : PosInv(pos)
    BY DEF Inv
  <1>2. MemInv /\ TypeInv /\ CallsTyped
    BY DEF Inv, TypeInv
  <1>a. PICK b, l : b = TB /\ l = IF Full(TB, localFront'[TB]) THEN "full" ELSE "write"
    OBVIOUS
  <1>3. PICK op : Begin(P, op, None) /\ Goto(P, l)
    BY <1>a DEF Enqueue_Start, TB
  <1>4. l \in Labels /\ l \in {"full", "write"}
    BY <1>a DEF Labels
  <1>5. P \in Threads /\ C \in Threads /\ P # C
    BY Locs
  <1>6. pc[P] = "idle" /\ pc'[P] = l /\ pc'[C] = pc[C] /\ call'[C] = call[C]
    BY <1>2, <1>3, <1>4, <1>5, BeginMoves DEF Moves
  <1>7. UNCHANGED <<allocated, size, slot, born, localTail>>
    BY DEF Enqueue_Start, blockVars, cVars
  <1>8. RingSize' = RingSize
    BY <1>4, <1>6, <1>7 DEF RingSize
  <1>9. b \in 1 .. allocated
    BY <1>a, <1>1, <1>2, RingBlocks DEF PosInv, RingInv
  <1>10. b \in Blocks /\ FrontOf(b) \in Locations /\ Owner(FrontOf(b)) # P
    BY <1>5, <1>9, BlockFacts, Owners
  <1>11. \/ \E i \in DOMAIN mem[FrontOf(b)] :
                /\ Load(P, FrontOf(b), i, TRUE)
                /\ localFront' = [localFront EXCEPT ![b] = mem[FrontOf(b)][i].val]
         \/ Fence(P) /\ localFront' = localFront
    BY <1>a DEF Enqueue_Start, TB
  <1>12. CASE Fence(P) /\ localFront' = localFront
    <2>1. Looks(P)
      BY <1>2, <1>5, <1>12, FenceLooks
    <2>2. \A c \in 1 .. allocated : CopiesFront(c)
      BY <1>12 DEF CopiesFront
    <2> QED
      BY <1>6, <1>7, <1>8, <2>1, <2>2, ProducerLookRace
  <1>13. ASSUME NEW i \in DOMAIN mem[FrontOf(b)], Load(P, FrontOf(b), i, TRUE),
                localFront' = [localFront EXCEPT ![b] = mem[FrontOf(b)][i].val]
         PROVE  RaceInv'
    <2>1. Looks(P) /\ ReadAt(FrontOf(b), i) /\ mem[FrontOf(b)][i].at <= seen'[P]
      BY <1>2, <1>5, <1>10, <1>13, LoadLooks DEF ReadAt
    <2>2. localFront \in [Blocks -> Nat]
      BY <1>2 DEF TypeInv
    <2>3. \A c \in 1 .. allocated : CopiesFront(c)
      BY <1>10, <1>13, <2>1, <2>2, BlockFacts DEF CopiesFront
    <2> QED
      BY <1>6, <1>7, <1>8, <2>1, <2>3, ProducerLookRace
  <1> QED
    BY <1>11, <1>12, <1>13

LEMMA EnqueueFullRace ==
  ASSUME Inv, RaceInv, Enqueue_Full
  PROVE  RaceInv'
  <1>2. MemInv /\ TypeInv /\ CallsTyped
    BY DEF Inv, TypeInv
  <1>3. P \in Threads /\ C \in Threads /\ P # C
    BY Locs
  <1>4. pc[P] = "full" /\ UNCHANGED <<allocated, size, slot, born, localTail, localFront>>
    BY DEF Enqueue_Full, pVars, blockVars, cVars
  <1>5. PICK i \in DOMAIN mem[FrontBlock] :
            /\ Load(P, FrontBlock, i, BlockAhead(mem[FrontBlock][i].val))
            /\ GoOn(P, "advance") \/ GoOn(P, "alloc") \/ Return(P)
    BY DEF Enqueue_Full
  <1>6. PICK ahead \in BOOLEAN : ahead = BlockAhead(mem[FrontBlock][i].val)
    BY DEF BlockAhead
  <1>7. Looks(P)
    BY <1>2, <1>3, <1>5, <1>6, Locs, Owners, LoadLooks
  <1>8. /\ pc'[C] = pc[C] /\ call'[C] = call[C]
        /\ pc'[P] \in {"advance", "alloc", "idle"}
    <2>1. "advance" \in Labels /\ "alloc" \in Labels
      BY DEF Labels
    <2> QED
      BY <1>2, <1>3, <1>5, <2>1, GoOnMoves, ReturnMoves DEF Moves
  <1>9. RingSize' = RingSize /\ \A b \in 1 .. allocated : CopiesFront(b)
    BY <1>4, <1>8 DEF RingSize, CopiesFront
  <1> QED
    BY <1>4, <1>7, <1>8, <1>9, ProducerLookRace

LEMMA EnqueueAdvanceRace ==
  ASSUME Inv, RaceInv, Enqueue_Advance
  PROVE  RaceInv'
  <1>1. PICK pos : PosInv(pos)
    BY DEF Inv
  <1>2. MemInv /\ TypeInv /\ CallsTyped
    BY DEF Inv, TypeInv
  <1>3. P \in Threads /\ C \in Threads /\ P # C /\ "writeNext" \in Labels
    BY Locs DEF Labels
  <1>a. PICK b : b = NextB(TB)
    OBVIOUS
  <1>4. pc[P] = "advance" /\ UNCHANGED <<allocated, size, slot, born, localTail>>
        /\ GoOnWith(P, "writeNext", b)
    BY <1>a DEF Enqueue_Advance, blockVars, cVars, NextB, TB
  <1>5. PICK i \in DOMAIN mem[FrontOf(b)] :
            /\ Load(P, FrontOf(b), i, TRUE)
            /\ localFront' = [localFront EXCEPT ![b] = mem[FrontOf(b)][i].val]
    BY <1>a DEF Enqueue_Advance, NextB, TB
  <1>6. b \in 1 .. allocated
    BY <1>a, <1>1, <1>2, RingBlocks DEF PosInv, RingInv
  <1>7. b \in Blocks /\ FrontOf(b) \in Locations /\ Owner(FrontOf(b)) # P
    BY <1>3, <1>6, BlockFacts, Owners
  <1>8. pc'[P] = "writeNext" /\ pc'[C] = pc[C] /\ call'[C] = call[C]
    BY <1>2, <1>3, <1>4, GoOnWithMoves DEF Moves
  <1>9. Looks(P) /\ ReadAt(FrontOf(b), i) /\ mem[FrontOf(b)][i].at <= seen'[P]
    BY <1>2, <1>3, <1>5, <1>7, LoadLooks DEF ReadAt
  <1>10. localFront \in [Blocks -> Nat]
    BY <1>2 DEF TypeInv
  <1>11. \A c \in 1 .. allocated : CopiesFront(c)
    BY <1>5, <1>7, <1>9, <1>10, BlockFacts DEF CopiesFront
  <1>12. RingSize' = RingSize
    BY <1>4, <1>8 DEF RingSize
  <1> QED
    BY <1>4, <1>8, <1>9, <1>11, <1>12, ProducerLookRace

\* The producer gives up, or is in size_approx.
LEMMA ProducerStaysRace ==
  ASSUME Inv, RaceInv, Looks(P), NEW l \in Outside, Moves(P, l),
         pc[P] \in Outside \cup {"alloc"}, UNCHANGED <<slot, pVars, cVars>>
  PROVE  RaceInv'
  <1>1. UNCHANGED <<allocated, size, slot, born, localTail, localFront>>
    BY DEF pVars, blockVars, cVars
  <1>2. pc'[P] = l /\ pc'[C] = pc[C] /\ call'[C] = call[C]
    BY Locs DEF Moves
  <1>3. RingSize' = RingSize /\ \A b \in 1 .. allocated : CopiesFront(b)
    BY <1>1, <1>2 DEF RingSize, Outside, CopiesFront
  <1> QED
    BY <1>1, <1>2, <1>3, ProducerLookRace

LEMMA EnqueueNoMemoryRace ==
  ASSUME Inv, RaceInv, Enqueue_NoMemory
  PROVE  RaceInv'
  <1>1. MemInv /\ CallsTyped /\ P \in Threads /\ "idle" \in Outside
    BY Locs DEF Inv, TypeInv, Outside
  <1>2. pc[P] = "alloc" /\ Return(P) /\ UNCHANGED memVars /\ UNCHANGED <<slot, pVars, cVars>>
    BY DEF Enqueue_NoMemory
  <1>3. Looks(P) /\ Moves(P, "idle")
    BY <1>1, <1>2, StillLooks, ReturnMoves
  <1> QED
    BY <1>1, <1>2, <1>3, ProducerStaysRace

LEMMA SizeProducerRace ==
  ASSUME Inv, RaceInv, Size_Start(P) \/ Size_Count(P) \/ Size_Follow(P)
  PROVE  RaceInv'
  <1>1. PICK pos : PosInv(pos)
    BY DEF Inv
  <1>2. MemInv /\ TypeInv /\ CallsTyped /\ RingInv(pos) /\ ProducerInv(pos)
    BY <1>1 DEF Inv, TypeInv, PosInv
  <1>3. /\ P \in Threads /\ P # C
        /\ "idle" \in Outside /\ "count" \in Outside /\ "follow" \in Outside
        /\ "idle" \in Labels /\ "count" \in Labels /\ "follow" \in Labels
    BY Locs DEF Outside, Labels
  <1>4. UNCHANGED <<slot, pVars, cVars>>
    BY DEF Size_Start, Size_Count, Size_Follow
  <1>5. CASE Size_Start(P)
    <2>1. PICK i \in DOMAIN mem[FrontBlock] :
            /\ Load(P, FrontBlock, i, TRUE)
            /\ Begin(P, "size_approx", mem[FrontBlock][i].val)
      BY <1>5, <1>3 DEF Size_Start
    <2>2. Goto(P, "count")
      BY <1>5 DEF Size_Start
    <2>3. Looks(P)
      BY <1>2, <1>3, <2>1, Locs, Owners, LoadLooks
    <2>4. Moves(P, "count") /\ pc[P] = "idle"
      BY <1>2, <1>3, <2>1, <2>2, BeginMoves
    <2> QED
      BY <1>3, <1>4, <2>3, <2>4, ProducerStaysRace
  <1>6. CASE Size_Count(P)
    <2> DEFINE b == call[P].block
    <2>1. PICK i \in DOMAIN mem[FrontOf(b)] :
            /\ Load(P, FrontOf(b), i, FALSE)
            /\ \E r : call' = [call EXCEPT ![P] = [call[P] EXCEPT !.result = r]]
      BY <1>6 DEF Size_Count
    <2>2. pc[P] = "count" /\ Goto(P, "follow")
      BY <1>6 DEF Size_Count
    <2>3. b \in Ring /\ FrontOf(b) \in Locations /\ Owner(FrontOf(b)) # P
      BY <1>2, <1>3, <2>2, Locs, Owners, RingBlocks DEF ProducerInv
    <2>4. Looks(P)
      BY <1>2, <1>3, <2>1, <2>3, LoadLooks
    <2>5. Moves(P, "follow")
      BY <1>2, <1>3, <2>1, <2>2, CountMoves
    <2> QED
      BY <1>3, <1>4, <2>2, <2>4, <2>5, ProducerStaysRace
  <1>7. CASE Size_Follow(P)
    <2> DEFINE c == NextB(call[P].block)
    <2>1. pc[P] = "follow"
      BY <1>7 DEF Size_Follow
    <2>2. /\ Fence(P) \/ UNCHANGED memVars
          /\ Return(P) \/ GoOnWith(P, "count", c)
      BY <1>3, <1>7 DEF Size_Follow, NextB, Newest
    <2> HIDE DEF c
    <2>3. Looks(P)
      BY <1>2, <1>3, <2>2, FenceLooks, StillLooks
    <2>4. Moves(P, "idle") \/ Moves(P, "count")
      BY <1>2, <1>3, <2>2, ReturnMoves, GoOnWithMoves
    <2> QED
      BY <1>3, <1>4, <2>1, <2>3, <2>4, ProducerStaysRace
  <1> QED
    BY <1>5, <1>6, <1>7

\* The consumer looks into frontBlock.
LEMMA ConsumerAtFront ==
  ASSUME Inv, RaceInv, Looks(C), pc'[P] = pc[P],
         UNCHANGED <<allocated, size, slot, born, localFront>>, CopiesTail(FB),
         \/ pc'[C] \in {"idle", "checkTail", "recheck", "readNext"}
         \/ pc'[C] = "take" /\ call'[C].block = FB /\ FrontIx(FB) # localTail'[FB]
  PROVE  RaceInv'
  <1>1. PICK pos : PosInv(pos)
    BY DEF Inv
  <1>2. C \in Threads /\ MemInv /\ TypeInv /\ Trim /\ Same
    BY Locs, TrimSame DEF Inv, Looks
  <1>3. RingSize' = RingSize /\ \A c \in 1 .. allocated : CopiesFront(c)
    BY DEF RingSize, CopiesFront
  <1>4. PICK b, n, f, y : b = FB /\ n = size[b] /\ f = FrontIx(b) /\ y = localTail'[b]
    OBVIOUS
  <1>5. b \in 1 .. allocated
    BY <1>1, <1>2, <1>4, RingBlocks DEF PosInv, RingInv
  <1>6. b \in Blocks /\ n \in Nat /\ f \in 0 .. n - 1 /\ localTail[b] \in 0 .. n - 1
    BY <1>4, <1>5, BlockFacts
  <1>7. FrontIx(b)' = f
    BY <1>2, <1>4, <1>6 DEF Same
  <1>8. y \in 0 .. n - 1
    <2>1. \A j \in 1 .. Len(mem[TailOf(b)]) : mem[TailOf(b)][j].val \in 0 .. n - 1
      BY <1>4, <1>5, Behind
    <2>2. CopiesTail(b)
      BY <1>4
    <2> QED
      BY <1>4, <1>6, <2>1, <2>2 DEF CopiesTail
  <1>9. CASE pc'[C] = "take"
    <2>1. seen[C] \in Nat /\ seen'[C] \in Nat /\ seen'[C] >= seen[C]
      BY <1>2 DEF Looks, MemInv
    <2>2. BlockRace(b) /\ Copied(b) /\ First(b) /\ CopiesTail(b)
      BY <1>4, <1>5 DEF RaceInv
    <2>3. Copied(b)'
      BY <1>2, <1>5, <2>1, <2>2, LookFront
    <2>4. CopiedBy(n, f, y, slot[b], seen'[C])
      BY <1>4, <1>7, <2>3 DEF Copied
    <2>5. f # y /\ call'[C].block = b
      BY <1>4, <1>9
    <2>6. Dist(f, f, n) < Dist(f, y, n)
      BY <1>6, <1>8, <2>5 DEF Dist
    <2>7. Before(slot[b][f], C, seen'[C])
      BY <1>6, <2>4, <2>6 DEF CopiedBy
    <2>8. FrontIx(call[C].block)' = f
      BY <1>7, <2>5 DEF FrontIx
    <2>9. CallRace'
      BY <1>9, <2>5, <2>7, <2>8 DEF CallRace
    <2> QED
      BY <1>2, <1>3, <2>9, LookRace
  <1>10. CASE pc'[C] # "take"
    <2>1. CallRace'
      BY <1>10 DEF CallRace
    <2> QED
      BY <1>2, <1>3, <2>1, LookRace
  <1> QED
    BY <1>9, <1>10

LEMMA DequeueStartRace ==
  ASSUME Inv, RaceInv, Dequeue_Start
  PROVE  RaceInv'
  <1>1. PICK pos : PosInv(pos)
    BY DEF Inv
  <1>2. MemInv /\ TypeInv /\ CallsTyped
    BY DEF Inv, TypeInv
  <1>a. PICK b, l : b = FB /\ l = IF FrontIx(FB) = localTail'[FB] THEN "checkTail" ELSE "take"
    OBVIOUS
  <1>3. PICK op : Begin(C, op, b) /\ Goto(C, l)
    BY <1>a DEF Dequeue_Start, FB, FrontIx
  <1>4. l \in Labels /\ l \in {"checkTail", "take"} /\ (l = "take" => FrontIx(b) # localTail'[b])
    BY <1>a DEF Labels
  <1>5. P \in Threads /\ C \in Threads /\ P # C
    BY Locs
  <1>6. pc'[C] = l /\ pc'[P] = pc[P] /\ call'[C].block = b
    BY <1>2, <1>3, <1>4, <1>5, BeginMoves DEF Moves
  <1>7. UNCHANGED <<allocated, size, slot, born, localFront>>
    BY DEF Dequeue_Start, pVars, blockVars
  <1>8. b \in 1 .. allocated
    BY <1>a, <1>1, <1>2, RingBlocks DEF PosInv, RingInv
  <1>9. b \in Blocks /\ TailOf(b) \in Locations /\ Owner(TailOf(b)) # C
    BY <1>5, <1>8, BlockFacts, Owners
  <1>10. \/ \E i \in DOMAIN mem[TailOf(b)] :
                /\ Load(C, TailOf(b), i, FrontIx(b) # mem[TailOf(b)][i].val)
                /\ localTail' = [localTail EXCEPT ![b] = mem[TailOf(b)][i].val]
         \/ Fence(C) /\ localTail' = localTail
    BY <1>a DEF Dequeue_Start, FB, FrontIx
  <1>11. Looks(C) /\ CopiesTail(b)
    <2>1. CASE Fence(C) /\ localTail' = localTail
      BY <2>1, <1>2, <1>5, FenceLooks DEF CopiesTail
    <2>2. ASSUME NEW i \in DOMAIN mem[TailOf(b)],
                 Load(C, TailOf(b), i, FrontIx(b) # mem[TailOf(b)][i].val),
                 localTail' = [localTail EXCEPT ![b] = mem[TailOf(b)][i].val]
          PROVE  Looks(C) /\ CopiesTail(b)
      <3>1. PICK fenced \in BOOLEAN : fenced = (FrontIx(b) # mem[TailOf(b)][i].val)
        OBVIOUS
      <3>2. Looks(C) /\ i \in 1 .. Len(mem[TailOf(b)])
            /\ (fenced => mem[TailOf(b)][i].at <= seen'[C])
        BY <2>2, <3>1, <1>2, <1>5, <1>9, LoadLooks
      <3>3. localTail'[b] = mem[TailOf(b)][i].val
        BY <2>2, <1>2, <1>9 DEF TypeInv
      <3> QED
        BY <3>1, <3>2, <3>3 DEF CopiesTail
    <2> QED
      BY <2>1, <2>2, <1>10
  <1>12. CopiesTail(FB) /\ call'[C].block = FB /\ (l = "take" => FrontIx(FB) # localTail'[FB])
    BY <1>a, <1>4, <1>6, <1>11
  <1>13. \/ pc'[C] \in {"idle", "checkTail", "recheck", "readNext"}
         \/ pc'[C] = "take" /\ call'[C].block = FB /\ FrontIx(FB) # localTail'[FB]
    BY <1>4, <1>6, <1>12
  <1> QED
    BY <1>6, <1>7, <1>11, <1>12, <1>13, ConsumerAtFront

LEMMA DequeueCheckTailRace ==
  ASSUME Inv, RaceInv, Dequeue_CheckTail
  PROVE  RaceInv'
  <1>1. MemInv /\ CallsTyped
    BY DEF Inv, TypeInv
  <1>2. P \in Threads /\ C \in Threads /\ P # C /\ "recheck" \in Labels
    BY Locs DEF Labels
  <1>3. UNCHANGED <<allocated, size, slot, born, localFront, localTail>>
    BY DEF Dequeue_CheckTail, pVars, blockVars, cVars
  <1>4. PICK i \in DOMAIN mem[TailBlock] :
            /\ Load(C, TailBlock, i, ~ AtTail(mem[TailBlock][i].val))
            /\ Return(C) \/ GoOn(C, "recheck")
    BY DEF Dequeue_CheckTail
  <1>5. PICK fenced \in BOOLEAN : fenced = ~ AtTail(mem[TailBlock][i].val)
    BY DEF AtTail
  <1>6. Looks(C)
    BY <1>1, <1>2, <1>4, <1>5, Locs, Owners, LoadLooks
  <1>7. pc'[P] = pc[P] /\ pc'[C] \in {"idle", "recheck"}
    BY <1>1, <1>2, <1>4, GoOnMoves, ReturnMoves DEF Moves
  <1>8. CopiesTail(FB)
    BY <1>3 DEF CopiesTail
  <1> QED
    BY <1>3, <1>6, <1>7, <1>8, ConsumerAtFront

LEMMA DequeueRecheckRace ==
  ASSUME Inv, RaceInv, Dequeue_Recheck
  PROVE  RaceInv'
  <1>1. PICK pos : PosInv(pos)
    BY DEF Inv
  <1>2. MemInv /\ TypeInv /\ CallsTyped /\ RingInv(pos) /\ ConsumerInv(pos)
    BY <1>1 DEF Inv, TypeInv, PosInv
  <1>3. P \in Threads /\ C \in Threads /\ P # C
    BY Locs
  <1>4. pc[C] = "recheck" /\ UNCHANGED <<allocated, size, slot, born, localFront>>
    BY DEF Dequeue_Recheck, pVars, blockVars
  <1>a. PICK b, l : b = FB /\ l = IF FrontIx(FB) # localTail'[FB] THEN "take" ELSE "readNext"
    OBVIOUS
  <1>5. GoOn(C, l) /\ l \in Labels /\ l \in {"take", "readNext"}
    BY <1>a DEF Dequeue_Recheck, AfterRecheck, FB, FrontIx, Labels
  <1>6. PICK i \in DOMAIN mem[TailOf(b)] :
            /\ Load(C, TailOf(b), i, TRUE)
            /\ localTail' = [localTail EXCEPT ![b] = mem[TailOf(b)][i].val]
    BY <1>a DEF Dequeue_Recheck, FB
  <1>7. b \in 1 .. allocated
    BY <1>a, <1>2, RingBlocks DEF RingInv
  <1>8. b \in Blocks /\ TailOf(b) \in Locations /\ Owner(TailOf(b)) # C
    BY <1>3, <1>7, BlockFacts, Owners
  <1>9. Looks(C) /\ i \in 1 .. Len(mem[TailOf(b)]) /\ mem[TailOf(b)][i].at <= seen'[C]
    BY <1>2, <1>3, <1>6, <1>8, LoadLooks
  <1>10. localTail'[b] = mem[TailOf(b)][i].val
    BY <1>2, <1>6, <1>8 DEF TypeInv
  <1>11. CopiesTail(b)
    BY <1>9, <1>10 DEF CopiesTail
  <1>12. pc'[C] = l /\ pc'[P] = pc[P] /\ call' = call
    BY <1>2, <1>3, <1>5, GoOnMoves DEF Moves
  <1>13. /\ CopiesTail(FB)
         /\ \/ pc'[C] \in {"idle", "checkTail", "recheck", "readNext"}
            \/ pc'[C] = "take" /\ call'[C].block = FB /\ FrontIx(FB) # localTail'[FB]
    <2>1. call[C].block = FB
      BY <1>2, <1>4 DEF ConsumerInv
    <2> QED
      BY <2>1, <1>a, <1>5, <1>11, <1>12
  <1> QED
    BY <1>4, <1>9, <1>12, <1>13, ConsumerAtFront

\* A consumer that is about to leave frontBlock has seen the next block constructed
\* and its first slot filled.
LEMMA LeavingShown ==
  ASSUME Inv, RaceInv, Leaving, NEW b, b = NextB(FB)
  PROVE  /\ Before(slot[b][FrontIx(b)], C, seen[C]) /\ born[b] < seen[C]
         /\ b \in Ring /\ b \in 1 .. allocated
  <1>1. PICK pos : PosInv(pos) /\ Shown(pos)
    BY RacePlace
  <1>2. MemInv /\ TypeInv /\ RingInv(pos) /\ TailBlockInv(pos) /\ ConsumerInv(pos) /\ C \in Threads
    BY <1>1, Locs DEF Inv, PosInv
  <1>3. PICK s : s = mem[TailBlock][1]
    OBVIOUS
  <1>4. s.val # FB /\ s.at <= seen[C]
    BY <1>2, <1>3 DEF ConsumerInv
  <1>5. Len(mem[TailBlock]) \in Nat /\ 1 \in 1 .. Len(mem[TailBlock]) /\ s.at \in Nat
    BY <1>2, <1>3, Locs, History
  <1>6. s.val \in Ring /\ pos[s.val] > 0
    BY <1>2, <1>3, <1>4, <1>5, LaterTail DEF TailBlockInv
  <1>7. b \in Ring /\ pos[b] = 1 /\ b \in 1 .. allocated
    BY <1>1, <1>2, LeavingReads, RingBlocks
  <1>8. pos[s.val] \in Nat /\ seen[C] \in Nat
    BY <1>2, <1>6 DEF RingInv, MemInv
  <1>9. 0 < pos[b] /\ pos[b] <= pos[s.val]
    BY <1>6, <1>7, <1>8
  <1>10. Before(slot[b][FrontIx(b)], C, s.at) /\ born[b] < s.at
    BY <1>1, <1>3, <1>5, <1>7, <1>9 DEF Shown
  <1>11. BlockRace(b)
    BY <1>7 DEF RaceInv
  <1>12. slot[b][FrontIx(b)].at \in Nat /\ born[b] \in Nat
    <2>1. FrontIx(b) \in 0 .. size[b] - 1
      BY <1>7, BlockFacts
    <2> QED
      BY <2>1, <1>11 DEF BlockRace, SlotsTyped
  <1>13. Before(slot[b][FrontIx(b)], C, seen[C])
    BY <1>4, <1>5, <1>8, <1>10, <1>12, BeforeLater
  <1>14. born[b] < seen[C]
    BY <1>4, <1>5, <1>8, <1>10, <1>12
  <1> QED
    BY <1>7, <1>13, <1>14

LEMMA DequeueReadNextRace ==
  ASSUME Inv, RaceInv, Dequeue_ReadNext
  PROVE  RaceInv'
  <1>1. PICK pos : PosInv(pos)
    BY DEF Inv
  <1>2. MemInv /\ TypeInv /\ CallsTyped /\ RingInv(pos)
    BY <1>1 DEF Inv, TypeInv, PosInv
  <1>3. P \in Threads /\ C \in Threads /\ P # C /\ "checkNext" \in Labels
    BY Locs DEF Labels
  <1>4. Leaving /\ UNCHANGED <<allocated, size, slot, born, localFront, localTail>>
    BY DEF Dequeue_ReadNext, pVars, blockVars, cVars, Leaving
  <1>5. PICK loc, b : loc = NextOf(FB) /\ b = NextB(FB)
    OBVIOUS
  <1>6. PICK i \in DOMAIN mem[loc] :
            Load(C, loc, i, FALSE) /\ GoOnWith(C, "checkNext", mem[loc][i].val)
    BY <1>5 DEF Dequeue_ReadNext, FB
  <1>7. loc \in Locations /\ Owner(loc) # C
    BY <1>2, <1>3, <1>5, RingBlocks, Locs, Owners DEF RingInv
  <1>8. Looks(C) /\ i \in 1 .. Len(mem[loc])
    BY <1>2, <1>3, <1>6, <1>7, LoadLooks
  <1>9. mem[loc][i].val = b
    <2>1. Len(mem[loc]) = 1
      BY <1>1, <1>2, <1>4, <1>5, LeavingReads
    <2>2. i = Len(mem[loc])
      BY <1>8, <2>1
    <2> QED
      BY <1>5, <2>2 DEF NextB, Newest
  <1>10. pc'[C] = "checkNext" /\ pc'[P] = pc[P] /\ call'[C].block = b
    BY <1>2, <1>3, <1>6, <1>9, GoOnWithMoves DEF Moves
  <1>11. born[b] < seen'[C]
    <2>1. born[b] < seen[C] /\ b \in 1 .. allocated
      BY <1>4, <1>5, LeavingShown
    <2>2. seen[C] \in Nat /\ seen'[C] \in Nat /\ seen'[C] >= seen[C]
      BY <1>2, <1>3, <1>8 DEF Looks, MemInv
    <2>3. born[b] \in Nat
      BY <2>1 DEF RaceInv, BlockRace
    <2> QED
      BY <2>1, <2>2, <2>3
  <1>12. CallRace'
    BY <1>4, <1>10, <1>11 DEF CallRace
  <1>13. RingSize' = RingSize /\ (\A c \in 1 .. allocated : CopiesFront(c)) /\ CopiesTail(FB)
    BY <1>4, <1>10 DEF RingSize, CopiesFront, CopiesTail
  <1> QED
    BY <1>3, <1>4, <1>8, <1>12, <1>13, LookRace

LEMMA DequeueCheckNextRace ==
  ASSUME Inv, RaceInv, Dequeue_CheckNext
  PROVE  RaceInv'
  <1>1. PICK pos : PosInv(pos)
    BY DEF Inv
  <1>2. MemInv /\ TypeInv /\ CallsTyped /\ RingInv(pos) /\ ConsumerInv(pos)
    BY <1>1 DEF Inv, TypeInv, PosInv
  <1>3. P \in Threads /\ C \in Threads /\ P # C /\ "take" \in Labels /\ "moveFront" \in Labels
    BY Locs DEF Labels
  <1>4. Leaving /\ pc[C] = "checkNext" /\ UNCHANGED <<allocated, size, slot, born, localFront>>
    BY DEF Dequeue_CheckNext, pVars, blockVars, Leaving
  <1>5. PICK b, n, f, l, s : /\ b = call[C].block /\ n = size[b] /\ f = FrontIx(b)
                             /\ l = mem[TailOf(b)] /\ s = slot[b]
    OBVIOUS
  <1>6. b = NextB(FB)
    BY <1>2, <1>4, <1>5 DEF ConsumerInv
  <1>7. Before(s[f], C, seen[C]) /\ b \in Ring /\ b \in 1 .. allocated
    BY <1>4, <1>5, <1>6, LeavingShown
  <1>8. /\ b \in Blocks /\ TailOf(b) \in Locations /\ Owner(TailOf(b)) # C
        /\ n \in Nat /\ f \in 0 .. n - 1
    BY <1>3, <1>5, <1>7, BlockFacts, Owners
  <1>9. BlockRace(b)
    BY <1>7 DEF RaceInv
  <1>10. (\A i \in 0 .. n - 1 : s[i].at \in Nat) /\ FilledBy(n, f, l, s)
    BY <1>5, <1>9 DEF BlockRace, SlotsTyped, Filled
  <1>11. CASE call[C].op = "peek"
    <2>1. Fence(C) /\ GoOn(C, "take") /\ localTail' = localTail
      BY <1>11 DEF Dequeue_CheckNext
    <2>2. Looks(C)
      BY <1>2, <1>3, <2>1, FenceLooks
    <2>3. pc'[C] = "take" /\ pc'[P] = pc[P] /\ call' = call
      BY <1>2, <1>3, <2>1, GoOnMoves DEF Moves
    <2>4. FrontIx(b)' = f
      BY <1>2, <1>5, <1>8, <2>2, TrimSame DEF Same, Looks
    <2>5. Before(s[f], C, seen'[C])
      <3>1. seen[C] \in Nat /\ seen'[C] \in Nat /\ seen'[C] >= seen[C] /\ s[f].at \in Nat
        BY <1>2, <1>3, <1>8, <1>10, <2>2 DEF Looks, MemInv
      <3> QED
        BY <1>7, <3>1, BeforeLater
    <2>6. FrontIx(call[C].block)' = f
      BY <1>5, <2>3, <2>4 DEF FrontIx
    <2>7. CallRace'
      BY <1>4, <1>5, <2>3, <2>5, <2>6 DEF CallRace
    <2>8. RingSize' = RingSize /\ (\A c \in 1 .. allocated : CopiesFront(c)) /\ CopiesTail(FB)
      BY <1>4, <2>1, <2>3 DEF RingSize, CopiesFront, CopiesTail
    <2> QED
      BY <1>3, <1>4, <2>2, <2>7, <2>8, LookRace
  <1>12. CASE call[C].op # "peek"
    <2>1. PICK i \in DOMAIN mem[TailOf(b)] :
            /\ Load(C, TailOf(b), i, TRUE)
            /\ localTail' = [localTail EXCEPT ![b] = mem[TailOf(b)][i].val]
            /\ GoOn(C, "moveFront")
      BY <1>5, <1>12 DEF Dequeue_CheckNext
    <2>2. Looks(C) /\ i \in 1 .. Len(mem[TailOf(b)]) /\ mem[TailOf(b)][i].at <= seen'[C]
      BY <1>2, <1>3, <1>8, <2>1, LoadLooks
    <2>3. pc'[C] = "moveFront" /\ pc'[P] = pc[P] /\ call' = call
      BY <1>2, <1>3, <2>1, GoOnMoves DEF Moves
    <2>4. FrontIx(b)' = f
      BY <1>2, <1>5, <1>8, <2>2, TrimSame DEF Same, Looks
    <2>5. localTail'[b] = l[i].val /\ i \in 1 .. Len(l) /\ l[i].at <= seen'[C]
      BY <1>2, <1>5, <1>8, <2>1, <2>2 DEF TypeInv
    <2>6. l[i].val \in 0 .. n - 1 /\ l[i].at \in Nat
      BY <1>2, <1>5, <1>7, <1>8, <2>5, Behind, History
    <2>7. seen[C] \in Nat /\ seen'[C] \in Nat /\ seen[C] <= seen'[C]
      BY <1>2, <1>3, <2>2 DEF Looks, MemInv
    <2>8. CopiedBy(n, f, l[i].val, s, seen'[C])
      <3>1. PICK d, e : d = seen[C] /\ e = seen'[C]
        OBVIOUS
      <3>2. d \in Nat /\ e \in Nat /\ d <= e /\ l[i].at <= e
        BY <2>5, <2>7, <3>1
      <3>3. f # l[i].val => Before(s[f], C, l[i].at) \/ Before(s[f], C, d)
        BY <1>7, <3>1
      <3>4. CopiedBy(n, f, l[i].val, s, e)
        BY <1>8, <1>10, <2>5, <2>6, <3>2, <3>3, CopiedRead
      <3> QED
        BY <3>1, <3>4
    <2>9. Copied(b)'
      BY <1>4, <1>5, <2>4, <2>5, <2>8 DEF Copied
    <2>10. Copied(call[C].block)'
      BY <1>5, <2>3, <2>9 DEF Copied, FrontIx
    <2>11. CallRace'
      BY <2>3, <2>10 DEF CallRace
    <2>12. CopiesTail(FB)
      <3>1. PICK a : a = FB
        OBVIOUS
      <3>2. a \in Blocks
        BY <1>2, <3>1, RingBlocks DEF RingInv
      <3>3. localTail \in [Blocks -> Nat]
        BY <1>2 DEF TypeInv
      <3>4. CASE a # b
        BY <2>1, <3>2, <3>3, <3>4, <3>1 DEF CopiesTail
      <3>5. CASE a = b
        BY <1>5, <2>5, <3>1, <3>5 DEF CopiesTail
      <3> QED
        BY <3>4, <3>5
    <2>13. RingSize' = RingSize /\ (\A c \in 1 .. allocated : CopiesFront(c))
      BY <1>4, <2>3 DEF RingSize, CopiesFront
    <2> QED
      BY <1>3, <1>4, <2>2, <2>11, <2>12, <2>13, LookRace
  <1> QED
    BY <1>11, <1>12

-------------------------------------------------------------------------------
(***************************************************************************)
(* The steps that construct or destroy an element.                          *)
(***************************************************************************)

\* Slot k of block b becomes r, in an epoch that its writer has begun.
Rewrites(b, k, r) ==
    /\ b \in 1 .. allocated /\ k \in 0 .. size[b] - 1
    /\ SlotChanges(b, k, r) /\ UNCHANGED <<memVars, born, localFront, localTail>>
    /\ r.by \in Threads /\ r.at \in Nat /\ r.at <= epoch[r.by]

LEMMA RewriteFacts ==
  ASSUME Inv, NEW b, NEW k, NEW r, Rewrites(b, k, r)
  PROVE  /\ mem' = mem /\ epoch' = epoch /\ seen' = seen /\ size' = size /\ allocated' = allocated
         /\ born' = born /\ localFront' = localFront /\ localTail' = localTail
         /\ FB' = FB /\ TB' = TB
         /\ \A c : FrontIx(c)' = FrontIx(c) /\ TailIx(c)' = TailIx(c) /\ NextB(c)' = NextB(c)
         /\ slot'[b][k] = r /\ (\A i \in 0 .. size[b] - 1 : i # k => slot'[b][i] = slot[b][i])
         /\ \A c \in 1 .. allocated : c # b => slot'[c] = slot[c]
  <1>1. /\ mem' = mem /\ epoch' = epoch /\ seen' = seen /\ size' = size /\ allocated' = allocated
        /\ born' = born /\ localFront' = localFront /\ localTail' = localTail
        /\ slot' = [slot EXCEPT ![b] = [slot[b] EXCEPT ![k] = r]]
        /\ b \in 1 .. allocated /\ k \in 0 .. size[b] - 1
    BY DEF Rewrites, SlotChanges, memVars
  <1>2. \A loc : Newest(loc)' = Newest(loc)
    BY <1>1 DEF Newest
  <1>3. FB' = FB /\ TB' = TB
        /\ \A c : FrontIx(c)' = FrontIx(c) /\ TailIx(c)' = TailIx(c) /\ NextB(c)' = NextB(c)
    BY <1>2 DEF FB, TB, FrontIx, TailIx, NextB
  <1>4. DOMAIN slot = Blocks /\ DOMAIN slot[b] = 0 .. size[b] - 1
    BY <1>1 DEF Inv, TypeInv, SlotInv
  <1>5. \A c \in 1 .. allocated : c \in Blocks
    BY BlockFacts
  <1>6. slot'[b] = [slot[b] EXCEPT ![k] = r] /\ \A c \in 1 .. allocated : c # b => slot'[c] = slot[c]
    BY <1>1, <1>4, <1>5
  <1>7. slot'[b][k] = r /\ (\A i \in 0 .. size[b] - 1 : i # k => slot'[b][i] = slot[b][i])
    BY <1>1, <1>4, <1>6
  <1> QED
    BY <1>1, <1>3, <1>6, <1>7

LEMMA RewriteRace ==
  ASSUME Inv, RaceInv, NEW b, NEW k, NEW r, Rewrites(b, k, r), RingSize' = RingSize, CallRace',
         \/ r.by = P
         \/ /\ ~ (Dist(localFront[b], TailIx(b), size[b]) <= Dist(localFront[b], k, size[b]))
            /\ \A j \in 1 .. Len(mem[FrontOf(b)]) :
                  ~ (Dist(localFront[b], k, size[b])
                        < Dist(localFront[b], mem[FrontOf(b)][j].val, size[b])),
         r.by = C \/ k = TailIx(b)
  PROVE  RaceInv'
  <1>1. PICK pos : PosInv(pos) /\ Shown(pos)
    BY RacePlace
  <1>2. MemInv /\ TypeInv /\ RingInv(pos) /\ TailBlockInv(pos) /\ EmptyInv(pos)
    BY <1>1 DEF Inv, PosInv
  <1>3. /\ mem' = mem /\ epoch' = epoch /\ seen' = seen /\ size' = size /\ allocated' = allocated
        /\ born' = born /\ localFront' = localFront /\ localTail' = localTail
        /\ FB' = FB /\ TB' = TB
        /\ \A c : FrontIx(c)' = FrontIx(c) /\ TailIx(c)' = TailIx(c) /\ NextB(c)' = NextB(c)
        /\ slot'[b][k] = r /\ (\A i \in 0 .. size[b] - 1 : i # k => slot'[b][i] = slot[b][i])
        /\ \A c \in 1 .. allocated : c # b => slot'[c] = slot[c]
    BY RewriteFacts
  <1>4. PICK n, x, f, t, h, l, s, z :
            /\ n = size[b] /\ x = localFront[b] /\ f = FrontIx(b) /\ t = TailIx(b)
            /\ h = mem[FrontOf(b)] /\ l = mem[TailOf(b)] /\ s = slot[b] /\ z = slot'[b]
    OBVIOUS
  <1>5. b \in 1 .. allocated /\ r.by \in Threads /\ r.at \in Nat /\ r.at <= epoch[r.by]
    BY DEF Rewrites
  <1>6. n \in Nat /\ f \in 0 .. n - 1 /\ t \in 0 .. n - 1 /\ localTail[b] \in 0 .. n - 1 /\ BlockInv(b)
        /\ b \in Blocks
    BY <1>4, <1>5, BlockFacts
  <1>7. z[k] = r /\ \A i \in 0 .. n - 1 : i # k => z[i] = s[i]
    BY <1>3, <1>4
  <1>8. /\ SlotsTyped(n, s, epoch) /\ FreedBy(n, x, t, h, s, seen[P]) /\ FilledBy(n, f, l, s)
        /\ born[b] \in Nat /\ born[b] <= epoch[P]
    BY <1>4, <1>5 DEF RaceInv, BlockRace, Freed, Filled
  <1>9. \A j \in 1 .. Len(l) : l[j].val \in 0 .. n - 1 /\ Dist(f, l[j].val, n) <= Dist(f, t, n)
    BY <1>4, <1>5, Behind
  <1>10. r.by = C \/ k = t
    BY <1>4
  <1>11. SlotsTyped(n, z, epoch)
    <2>1. ASSUME NEW i \in 0 .. n - 1
          PROVE  z[i].by \in Threads /\ z[i].at \in Nat /\ z[i].at <= epoch[z[i].by]
      <3>1. CASE i = k
        BY <1>5, <1>7, <3>1
      <3>2. CASE i # k
        BY <1>7, <1>8, <3>2 DEF SlotsTyped
      <3> QED
        BY <3>1, <3>2
    <2> QED
      BY <2>1 DEF SlotsTyped
  <1>12. FreedBy(n, x, t, h, z, seen[P])
    <2>1. \/ z[k].by = P
          \/ /\ ~ (Dist(x, t, n) <= Dist(x, k, n))
             /\ \A j \in 1 .. Len(h) : ~ (Dist(x, k, n) < Dist(x, h[j].val, n))
      BY <1>4, <1>7
    <2> QED
      BY <1>7, <1>8, <2>1, FreedSlot
  <1>13. FilledBy(n, f, l, z)
    <2>1. \/ z[k].by = C
          \/ \A j \in 1 .. Len(l) : ~ (Dist(f, k, n) < Dist(f, l[j].val, n))
      <3>1. CASE k = t
        <4>1. ASSUME NEW j \in 1 .. Len(l) PROVE ~ (Dist(f, t, n) < Dist(f, l[j].val, n))
          <5>1. PICK y : y = l[j].val
            OBVIOUS
          <5>2. y \in 0 .. n - 1 /\ Dist(f, y, n) <= Dist(f, t, n)
            BY <1>9, <5>1
          <5>3. Dist(f, y, n) \in Nat /\ Dist(f, t, n) \in Nat
            BY <1>6, <5>2, DistNat
          <5>4. ~ (Dist(f, t, n) < Dist(f, y, n))
            BY <5>2, <5>3
          <5> QED
            BY <5>1, <5>4
        <4> QED
          BY <3>1, <4>1
      <3> QED
        BY <1>7, <1>10, <3>1
    <2> QED
      BY <1>7, <1>8, <2>1, FilledSlot
  <1>14. BlockRace(b)'
    BY <1>3, <1>4, <1>8, <1>11, <1>12, <1>13 DEF BlockRace, Freed, Filled
  <1>15. ASSUME NEW c \in 1 .. allocated, c # b
         PROVE  BlockRace(c)'
    <2>1. BlockRace(c) /\ slot'[c] = slot[c]
      BY <1>3, <1>15 DEF RaceInv
    <2> QED
      BY <1>3, <2>1 DEF BlockRace, Freed, Filled
  <1>16. \A c \in 1 .. allocated' : BlockRace(c)'
    BY <1>3, <1>14, <1>15
  <1>17. PICK a : a = FB /\ a \in 1 .. allocated
    BY <1>2, RingBlocks DEF RingInv
  <1>18. Copied(a) /\ First(a) /\ TailCopied(a)
    BY <1>17 DEF RaceInv, Inv, IndexInv
  <1>19. ASSUME a # b
         PROVE  Copied(FB)' /\ First(FB)'
    <2>1. Copied(a)' /\ First(a)'
      BY <1>3, <1>17, <1>18, <1>19 DEF Copied, First
    <2> QED
      BY <1>3, <1>17, <2>1 DEF Copied, First, FrontIx
  <1>20. ASSUME a = b
         PROVE  Copied(FB)' /\ First(FB)'
    <2>1. PICK y : y = localTail[b]
      OBVIOUS
    <2>2. CopiedBy(n, f, y, s, seen[C]) /\ FirstBy(f, l, s, seen[C])
      BY <1>4, <1>18, <1>20, <2>1 DEF Copied, First
    <2>3. Dist(f, y, n) <= Dist(f, t, n) /\ y \in 0 .. n - 1
      BY <1>2, <1>4, <1>6, <1>18, <1>20, <2>1, CopyBehindTail
    <2>4. z[k].by = C \/ ~ (Dist(f, k, n) < Dist(f, y, n))
      <3>1. Dist(f, y, n) \in Nat /\ Dist(f, t, n) \in Nat
        BY <1>6, <2>3, DistNat
      <3>2. ~ (Dist(f, t, n) < Dist(f, y, n))
        BY <2>3, <3>1
      <3> QED
        BY <1>7, <1>10, <3>2
    <2>5. CopiedBy(n, f, y, z, seen[C])
      BY <1>7, <2>2, <2>4, CopiedSlot
    <2>6. FirstBy(f, l, z, seen[C])
      <3>1. CASE k # f
        <4>1. z[f] = s[f]
          BY <1>6, <1>7, <3>1
        <4> QED
          BY <2>2, <4>1 DEF FirstBy
      <3>2. CASE r.by = C /\ k = f
        BY <1>7, <3>2 DEF FirstBy, Before
      <3>3. CASE k = f /\ k = t
        <4>1. ASSUME NEW j \in 1 .. Len(l) PROVE f = l[j].val
          <5>1. PICK w : w = l[j].val /\ w \in 0 .. n - 1 /\ Dist(f, w, n) <= Dist(f, f, n)
            BY <1>9, <3>3
          <5>2. f = w
            BY <1>6, <5>1 DEF Dist
          <5> QED
            BY <5>1, <5>2
        <4> QED
          BY <4>1 DEF FirstBy
      <3> QED
        BY <1>10, <3>1, <3>2, <3>3
    <2>7. Copied(b)' /\ First(b)'
      BY <1>3, <1>4, <2>1, <2>5, <2>6 DEF Copied, First
    <2> QED
      BY <1>3, <1>17, <1>20, <2>7 DEF Copied, First, FrontIx
  <1>21. Ring' = Ring /\ RingInv(pos)'
    BY <1>2, <1>3, KeepsRing DEF Same
  <1>23. \A c \in Ring : pos[c] \in Nat
    BY <1>2, RingBlocks DEF RingInv
  <1>22. Shown(pos)'
    <2>1. ASSUME NEW j \in 1 .. Len(mem[TailBlock]), NEW c \in Ring,
                 0 < pos[c], pos[c] <= pos[mem[TailBlock][j].val]
          PROVE  Before(slot'[c][FrontIx(c)], C, mem[TailBlock][j].at) /\ born[c] < mem[TailBlock][j].at
      <3>1. Before(slot[c][FrontIx(c)], C, mem[TailBlock][j].at) /\ born[c] < mem[TailBlock][j].at
        BY <1>1, <2>1 DEF Shown
      <3>2. c \in 1 .. allocated
        BY <1>2, RingBlocks
      <3>3. CASE c # b
        BY <1>3, <3>1, <3>2, <3>3
      <3>4. CASE c = b /\ r.by = C
        <4>1. slot'[c][FrontIx(c)] = slot[c][FrontIx(c)] \/ slot'[c][FrontIx(c)] = r
          BY <1>4, <1>6, <1>7, <3>4
        <4> QED
          BY <3>1, <3>4, <4>1 DEF Before
      <3>5. CASE c = b /\ k = t
        <4>1. PICK u : u = mem[TailBlock][j].val
          OBVIOUS
        <4>2. Len(mem[TailBlock]) \in Nat /\ TB \in Ring
          BY <1>2, Locs, History DEF RingInv
        <4>3. u \in Ring /\ pos[u] = pos[TB] - (Len(mem[TailBlock]) - j)
          BY <1>2, <4>1 DEF TailBlockInv
        <4>4. pos[u] \in Nat /\ pos[TB] \in Nat /\ pos[c] \in Nat
          BY <1>23, <4>2, <4>3
        <4>5. pos[c] <= pos[TB]
          <5>1. pos[c] <= pos[u]
            BY <2>1, <4>1
          <5> QED
            BY <4>2, <4>3, <4>4, <5>1
        <4>6. f # t
          BY <1>2, <1>4, <2>1, <3>5, <4>5 DEF EmptyInv
        <4>7. z[f] = s[f]
          BY <1>6, <1>7, <3>5, <4>6
        <4> QED
          BY <1>4, <3>1, <3>5, <4>7
      <3> QED
        BY <1>10, <3>3, <3>4, <3>5
    <2> QED
      BY <1>3, <1>21, <2>1 DEF Shown
  <1> QED
    BY <1>16, <1>19, <1>20, <1>21, <1>22 DEF RaceInv

LEMMA EnqueueWriteRace ==
  ASSUME Inv, RaceInv, Enqueue_Write \/ Enqueue_WriteNext
  PROVE  RaceInv'
  <1>1. PICK pos : PosInv(pos)
    BY DEF Inv
  <1>2. MemInv /\ TypeInv /\ CallsTyped /\ RingInv(pos) /\ ProducerInv(pos)
    BY <1>1 DEF Inv, TypeInv, PosInv
  <1>3. P \in Threads /\ C \in Threads /\ P # C /\ "publish" \in Labels /\ "publishNext" \in Labels
    BY Locs DEF Labels
  <1>4. PICK b, k, r, l :
            /\ b = IF pc[P] = "write" THEN TB ELSE call[P].block
            /\ k = TailIx(b)
            /\ r = [val |-> sent + 1, by |-> P, at |-> epoch[P]]
            /\ l = IF pc[P] = "write" THEN "publish" ELSE "publishNext"
    OBVIOUS
  <1>5. /\ pc[P] \in {"write", "writeNext"} /\ GoOn(P, l) /\ UNCHANGED <<memVars, pVars, cVars>>
        /\ slot' = [slot EXCEPT ![b] = [slot[b] EXCEPT ![k] = r]]
    BY <1>4 DEF Enqueue_Write, Enqueue_WriteNext, Construct, TailIx, TB
  <1>6. UNCHANGED <<memVars, allocated, size, born, localFront, localTail>>
    BY <1>5 DEF pVars, blockVars, cVars
  <1>7. pc'[P] = l /\ pc'[C] = pc[C] /\ call' = call
    BY <1>2, <1>3, <1>4, <1>5, GoOnMoves DEF Moves
  <1>8. b \in 1 .. allocated
    <2>1. TB \in Ring /\ NextB(TB) \in Ring
      BY <1>2 DEF RingInv
    <2>2. b \in Ring
      BY <1>2, <1>4, <1>5, <2>1 DEF ProducerInv, Filling
    <2> QED
      BY <1>2, <2>2, RingBlocks
  <1>9. k \in 0 .. size[b] - 1
    BY <1>4, <1>8, BlockFacts
  <1>10. r.by = P /\ r.at = epoch[P] /\ epoch[P] \in Nat
    BY <1>2, <1>3, <1>4 DEF MemInv
  <1>11. Rewrites(b, k, r)
    BY <1>3, <1>5, <1>6, <1>8, <1>9, <1>10 DEF Rewrites, SlotChanges
  <1>12. \A c \in 1 .. allocated : LeavesBlock(c)
    BY <1>4, <1>11, RewriteFacts DEF LeavesBlock
  <1>13. CallRace'
    <2>1. seen'[C] = seen[C] /\ call'[C] = call[C]
      BY <1>6, <1>7 DEF memVars
    <2> QED
      BY <1>7, <1>12, <2>1, CallStays DEF RaceInv
  <1>14. RingSize' = RingSize
    BY <1>4, <1>5, <1>6, <1>7 DEF RingSize
  <1> QED
    BY <1>4, <1>10, <1>11, <1>13, <1>14, RewriteRace

LEMMA DequeueTakeRace ==
  ASSUME Inv, RaceInv, Dequeue_Take
  PROVE  RaceInv'
  <1>1. PICK pos : PosInv(pos)
    BY DEF Inv
  <1>2. MemInv /\ TypeInv /\ IndexInv /\ CallsTyped /\ RingInv(pos) /\ ConsumerInv(pos)
    BY <1>1 DEF Inv, TypeInv, PosInv
  <1>3. P \in Threads /\ C \in Threads /\ P # C /\ "release" \in Labels
    BY Locs DEF Labels
  <1>4. pc[C] = "take" /\ UNCHANGED <<memVars, allocated, size, born, localFront, localTail>>
    BY DEF Dequeue_Take, pVars, blockVars
  <1>5. CASE call[C].op = "peek"
    <2>1. Return(C) /\ slot' = slot
      BY <1>5 DEF Dequeue_Take
    <2>2. pc'[C] = "idle" /\ pc'[P] = pc[P]
      BY <1>2, <1>3, <2>1, ReturnMoves DEF Moves
    <2>3. Looks(C)
      BY <1>2, <1>3, <1>4, StillLooks
    <2>4. CopiesTail(FB)
      BY <1>4 DEF CopiesTail
    <2> QED
      BY <1>4, <2>1, <2>2, <2>3, <2>4, ConsumerAtFront
  <1>6. CASE call[C].op # "peek"
    <2>1. PICK b, f, r, t, x, n :
              /\ b = call[C].block /\ f = FrontIx(b)
              /\ r = [val |-> Empty, by |-> C, at |-> epoch[C]]
              /\ t = TailIx(b) /\ x = localFront[b] /\ n = size[b]
      OBVIOUS
    <2>2. GoOn(C, "release") /\ slot' = [slot EXCEPT ![b] = [slot[b] EXCEPT ![f] = r]]
      BY <1>6, <2>1 DEF Dequeue_Take, FrontIx
    <2>3. pc'[C] = "release" /\ pc'[P] = pc[P]
      BY <1>2, <1>3, <2>2, GoOnMoves DEF Moves
    <2>4. b \in 1 .. allocated /\ f # t
      BY <1>1, <1>2, <1>4, <2>1, CallBlock, FrontNotEmpty
    <2>5. /\ n \in Nat /\ f \in 0 .. n - 1 /\ t \in 0 .. n - 1 /\ x \in 0 .. n - 1
          /\ Dist(x, f, n) + Dist(f, t, n) < n
      BY <2>1, <2>4, BlockFacts
    <2>6. r.by = C /\ r.at = epoch[C] /\ epoch[C] \in Nat
      BY <1>2, <1>3, <2>1 DEF MemInv
    <2>7. Rewrites(b, f, r)
      <3>1. f \in 0 .. size[b] - 1
        BY <2>1, <2>5
      <3> QED
        BY <1>3, <1>4, <2>2, <2>4, <2>6, <3>1 DEF Rewrites, SlotChanges
    <2>8. CallRace'
      BY <2>3 DEF CallRace
    <2>9. RingSize' = RingSize
      BY <1>4, <2>3 DEF RingSize
    <2>10. ~ (Dist(x, t, n) <= Dist(x, f, n))
      <3>1. Dist(x, t, n) = Dist(x, f, n) + Dist(f, t, n)
        BY <2>5, DistAdd
      <3>2. Dist(x, f, n) \in Nat /\ Dist(f, t, n) \in Nat /\ Dist(f, t, n) # 0
        BY <2>4, <2>5, DistNat
      <3> QED
        BY <3>1, <3>2
    <2>11. ASSUME NEW j \in 1 .. Len(mem[FrontOf(b)])
           PROVE  ~ (Dist(x, f, n) < Dist(x, mem[FrontOf(b)][j].val, n))
      <3>1. PICK y : y = mem[FrontOf(b)][j].val
        OBVIOUS
      <3>2. y \in 0 .. n - 1 /\ Dist(x, y, n) <= Dist(x, f, n)
        BY <2>1, <2>4, <3>1, Behind
      <3>3. Dist(x, y, n) \in Nat /\ Dist(x, f, n) \in Nat
        BY <2>5, <3>2, DistNat
      <3>4. ~ (Dist(x, f, n) < Dist(x, y, n))
        BY <3>2, <3>3
      <3> QED
        BY <3>1, <3>4
    <2>12. /\ ~ (Dist(localFront[b], TailIx(b), size[b]) <= Dist(localFront[b], f, size[b]))
           /\ \A j \in 1 .. Len(mem[FrontOf(b)]) :
                  ~ (Dist(localFront[b], f, size[b])
                        < Dist(localFront[b], mem[FrontOf(b)][j].val, size[b]))
      BY <2>1, <2>10, <2>11
    <2> QED
      BY <2>6, <2>7, <2>8, <2>9, <2>12, RewriteRace
  <1> QED
    BY <1>5, <1>6

-------------------------------------------------------------------------------
(***************************************************************************)
(* The steps that store.                                                    *)
(***************************************************************************)

\* Thread t stores v to loc, in epoch e.
StoredAt(t, loc, v, e) ==
    /\ More(mem'[loc], mem[loc], v, e) /\ Newest(loc)' = v /\ e = epoch'[t]
    /\ \A l \in Locations : l # loc => mem'[l] = mem[l] /\ Newest(l)' = Newest(l)
    /\ seen' = seen /\ seen \in [Threads -> Nat]
    /\ \A u \in Threads : epoch[u] \in Nat /\ epoch'[u] \in Nat /\ epoch[u] <= epoch'[u]

LEMMA PutMore ==
  ASSUME Relaxed, NEW h, h \in Seq(Stores), h # <<>>, NEW v \in Nat, NEW e \in Nat
  PROVE  More(Put(h, v, e), h, v, e)
  <1>1. IsPut(Put(h, v, e), h, v, e) /\ Len(h) \in Nat
    BY PutGrows, LenProperties
  <1> QED
    BY <1>1 DEF IsPut, More

LEMMA StoreMore ==
  ASSUME Relaxed, MemInv, NEW t \in Threads, NEW loc \in Locations, NEW v \in Nat, Store(t, loc, v)
  PROVE  StoredAt(t, loc, v, epoch[t])
  <1>1. mem' = [mem EXCEPT ![loc] = Put(@, v, epoch[t])] /\ epoch' = epoch /\ seen' = seen
    BY DEF Store
  <1>2. mem \in [Locations -> Seq(Stores)] /\ epoch \in [Threads -> Nat] /\ seen \in [Threads -> Nat]
    BY DEF MemInv
  <1>3. mem'[loc] = Put(mem[loc], v, epoch[t]) /\ \A l \in Locations : l # loc => mem'[l] = mem[l]
    BY <1>1, <1>2
  <1>4. mem[loc] \in Seq(Stores) /\ mem[loc] # <<>> /\ epoch[t] \in Nat
    BY <1>2, History
  <1>5. More(mem'[loc], mem[loc], v, epoch[t])
    BY <1>3, <1>4, PutMore
  <1>6. Newest(loc)' = v /\ \A l \in Locations : l # loc => Newest(l)' = Newest(l)
    BY <1>3, <1>5 DEF More, Newest
  <1>7. \A u \in Threads : epoch[u] \in Nat /\ epoch'[u] \in Nat /\ epoch[u] <= epoch'[u]
    BY <1>1, <1>2
  <1> QED
    BY <1>1, <1>2, <1>3, <1>5, <1>6, <1>7 DEF StoredAt

LEMMA ReleasedMore ==
  ASSUME Relaxed, MemInv, NEW t \in Threads, NEW loc \in Locations, NEW v \in Nat,
         StoreReleased(t, loc, v)
  PROVE  StoredAt(t, loc, v, epoch[t] + 1)
  <1>1. /\ mem' = [mem EXCEPT ![loc] = Put(@, v, epoch'[t])] /\ seen' = seen
        /\ epoch' = [epoch EXCEPT ![t] = @ + 1]
    BY DEF StoreReleased, ReleaseFence
  <1>2. mem \in [Locations -> Seq(Stores)] /\ epoch \in [Threads -> Nat] /\ seen \in [Threads -> Nat]
    BY DEF MemInv
  <1>a. epoch'[t] = epoch[t] + 1 /\ \A u \in Threads : u # t => epoch'[u] = epoch[u]
    BY <1>1, <1>2
  <1>3. mem'[loc] = Put(mem[loc], v, epoch[t] + 1) /\ \A l \in Locations : l # loc => mem'[l] = mem[l]
    BY <1>1, <1>2, <1>a
  <1>4. mem[loc] \in Seq(Stores) /\ mem[loc] # <<>> /\ epoch[t] + 1 \in Nat
    BY <1>2, History
  <1>5. More(mem'[loc], mem[loc], v, epoch[t] + 1)
    BY <1>3, <1>4, PutMore
  <1>6. Newest(loc)' = v /\ \A l \in Locations : l # loc => Newest(l)' = Newest(l)
    BY <1>3, <1>5 DEF More, Newest
  <1>7. ASSUME NEW u \in Threads
        PROVE  epoch[u] \in Nat /\ epoch'[u] \in Nat /\ epoch[u] <= epoch'[u]
    <2>1. PICK x, y : x = epoch[u] /\ y = epoch'[u]
      OBVIOUS
    <2>2. x \in Nat /\ (y = x \/ y = x + 1)
      BY <2>1, <1>2, <1>a
    <2>3. y \in Nat /\ x <= y
      BY <2>2
    <2> QED
      BY <2>1, <2>2, <2>3
  <1> QED
    BY <1>1, <1>2, <1>3, <1>5, <1>6, <1>7, <1>a DEF StoredAt

\* The memory of the other locations.
LEMMA OtherStores ==
  ASSUME NEW t, NEW loc, NEW v, NEW e, StoredAt(t, loc, v, e)
  PROVE  /\ loc # FrontBlock => FB' = FB /\ mem'[FrontBlock] = mem[FrontBlock]
         /\ loc # TailBlock => TB' = TB /\ mem'[TailBlock] = mem[TailBlock]
         /\ \A c \in Blocks :
              /\ loc # FrontOf(c) => FrontIx(c)' = FrontIx(c) /\ mem'[FrontOf(c)] = mem[FrontOf(c)]
              /\ loc # TailOf(c) => TailIx(c)' = TailIx(c) /\ mem'[TailOf(c)] = mem[TailOf(c)]
              /\ loc # NextOf(c) => NextB(c)' = NextB(c) /\ mem'[NextOf(c)] = mem[NextOf(c)]
  BY Locs DEF StoredAt, FB, TB, FrontIx, TailIx, NextB

LEMMA SlotsOlder ==
  ASSUME NEW n, NEW s, SlotsTyped(n, s, epoch),
         \A u \in Threads : epoch[u] \in Nat /\ epoch'[u] \in Nat /\ epoch[u] <= epoch'[u]
  PROVE  SlotsTyped(n, s, epoch')
  <1>1. ASSUME NEW i \in 0 .. n - 1
        PROVE  s[i].by \in Threads /\ s[i].at \in Nat /\ s[i].at <= epoch'[s[i].by]
    <2>1. PICK u : u = s[i].by
      OBVIOUS
    <2>2. u \in Threads /\ s[i].at \in Nat /\ s[i].at <= epoch[u]
      BY <2>1 DEF SlotsTyped
    <2>3. s[i].at <= epoch'[u]
      BY <2>2
    <2> QED
      BY <2>1, <2>2, <2>3
  <1> QED
    BY <1>1 DEF SlotsTyped

\* Whatever there is in a slot was written before an epoch that its writer begins.
LEMMA BeforeNow ==
  ASSUME NEW n, NEW s, SlotsTyped(n, s, epoch), NEW t \in Threads, NEW u \in Threads, u # t,
         epoch[t] \in Nat, NEW i \in 0 .. n - 1
  PROVE  Before(s[i], u, epoch[t] + 1)
  <1>1. PICK w, a : w = s[i].by /\ a = s[i].at
    OBVIOUS
  <1>2. w \in Threads /\ a \in Nat /\ a <= epoch[w]
    BY <1>1 DEF SlotsTyped
  <1>3. w = u \/ w = t
    BY <1>2, Locs
  <1>4. w = t => a < epoch[t] + 1
    BY <1>2
  <1> QED
    BY <1>1, <1>3, <1>4 DEF Before

LEMMA TailStep ==
  ASSUME NEW n \in Nat, n >= 2, NEW x \in 0 .. n - 1, NEW t \in 0 .. n - 1,
         NEW v, v = (IF t + 1 = n THEN 0 ELSE t + 1), v # x, NEW i \in 0 .. n - 1,
         Dist(x, v, n) <= Dist(x, i, n)
  PROVE  Dist(x, t, n) <= Dist(x, i, n)
  BY DEF Dist

\* A block's parts that a store to another location leaves as they are.
LEMMA BlockKept ==
  ASSUME Inv, RaceInv, NEW t, NEW loc, NEW v, NEW e, StoredAt(t, loc, v, e), NEW b \in 1 .. allocated,
         slot'[b] = slot[b], size'[b] = size[b], born'[b] = born[b], localFront'[b] = localFront[b],
         loc # FrontOf(b), loc # TailOf(b)
  PROVE  BlockRace(b)'
  <1>1. BlockRace(b) /\ b \in Blocks
    BY BlockFacts DEF RaceInv
  <1>2. /\ FrontIx(b)' = FrontIx(b) /\ mem'[FrontOf(b)] = mem[FrontOf(b)]
        /\ TailIx(b)' = TailIx(b) /\ mem'[TailOf(b)] = mem[TailOf(b)]
    BY <1>1, OtherStores
  <1>a. seen' = seen
    BY DEF StoredAt
  <1>3. SlotsTyped(size[b], slot[b], epoch')
    BY <1>1, SlotsOlder DEF BlockRace, StoredAt
  <1>4. born[b] <= epoch'[P]
    <2>1. epoch[P] \in Nat /\ epoch'[P] \in Nat /\ epoch[P] <= epoch'[P]
      BY Locs DEF StoredAt
    <2>2. born[b] \in Nat /\ born[b] <= epoch[P]
      BY <1>1 DEF BlockRace
    <2> QED
      BY <2>1, <2>2
  <1> QED
    BY <1>1, <1>2, <1>3, <1>4, <1>a DEF BlockRace, Freed, Filled

\* The producer stores to tail of block b what comes after it.
LEMMA TailStoreRace ==
  ASSUME Inv, RaceInv, NEW b \in 1 .. allocated, NEW v, NEW e, StoredAt(P, TailOf(b), v, e),
         UNCHANGED <<allocated, size, slot, born, localFront, localTail>>, RingSize' = RingSize,
         pc'[C] = pc[C], call'[C] = call[C], v # localFront[b],
         v = (IF TailIx(b) + 1 = size[b] THEN 0 ELSE TailIx(b) + 1),
         e = epoch[P] + 1 \/ (FrontIx(b) = TailIx(b) /\ b # FB)
  PROVE  RaceInv'
  <1>1. PICK pos : PosInv(pos) /\ Shown(pos)
    BY RacePlace
  <1>2. MemInv /\ TypeInv /\ RingInv(pos) /\ P \in Threads /\ C \in Threads /\ P # C
    BY <1>1, Locs DEF Inv, PosInv
  <1>3. /\ FB' = FB /\ TB' = TB /\ mem'[TailBlock] = mem[TailBlock] /\ seen' = seen
        /\ \A c \in Blocks : /\ FrontIx(c)' = FrontIx(c) /\ mem'[FrontOf(c)] = mem[FrontOf(c)]
                             /\ NextB(c)' = NextB(c)
                             /\ c # b => mem'[TailOf(c)] = mem[TailOf(c)] /\ TailIx(c)' = TailIx(c)
    BY Locs, OtherStores DEF StoredAt
  <1>4. \A c \in 1 .. allocated : LeavesBlock(c)
    BY <1>3, BlockFacts DEF LeavesBlock
  <1>5. CallRace'
    BY <1>3, <1>4, CallStays DEF RaceInv
  <1>6. PICK n, x, f, t, h, l, g, s :
            /\ n = size[b] /\ x = localFront[b] /\ f = FrontIx(b) /\ t = TailIx(b)
            /\ h = mem[FrontOf(b)] /\ l = mem[TailOf(b)] /\ g = mem'[TailOf(b)] /\ s = slot[b]
    OBVIOUS
  <1>7. /\ n \in Nat /\ n >= 2 /\ f \in 0 .. n - 1 /\ t \in 0 .. n - 1 /\ x \in 0 .. n - 1
        /\ b \in Blocks /\ Dist(x, f, n) + Dist(f, t, n) < n
    BY <1>6, BlockFacts
  <1>8. v = (IF t + 1 = n THEN 0 ELSE t + 1) /\ v # x /\ (e = epoch[P] + 1 \/ (f = t /\ b # FB))
    BY <1>6
  <1>9. More(g, l, v, e) /\ TailIx(b)' = v
    BY <1>6 DEF StoredAt, TailIx
  <1>10. /\ SlotsTyped(n, s, epoch) /\ FreedBy(n, x, t, h, s, seen[P]) /\ FilledBy(n, f, l, s)
         /\ born[b] \in Nat /\ born[b] <= epoch[P]
    BY <1>6 DEF RaceInv, BlockRace, Freed, Filled
  <1>11. /\ epoch[P] \in Nat /\ epoch'[P] \in Nat /\ epoch[P] <= epoch'[P]
         /\ SlotsTyped(n, s, epoch')
    BY <1>2, <1>10, SlotsOlder DEF StoredAt
  <1>12. e = epoch[P] + 1 => \A i \in 0 .. n - 1 : Before(s[i], C, e)
    BY <1>2, <1>10, <1>11, BeforeNow
  <1>13. FreedBy(n, x, v, h, s, seen[P])
    <2>1. \A i \in 0 .. n - 1 : Dist(x, v, n) <= Dist(x, i, n) => Dist(x, t, n) <= Dist(x, i, n)
      BY <1>7, <1>8, TailStep
    <2> QED
      BY <1>10, <2>1, FreedTail
  <1>14. FilledBy(n, f, g, s)
    <2>1. ASSUME NEW i \in 0 .. n - 1, 0 < Dist(f, i, n), Dist(f, i, n) < Dist(f, v, n)
          PROVE  Before(s[i], C, e)
      <3>1. CASE e = epoch[P] + 1
        BY <1>12, <3>1
      <3>2. CASE f = t
        <4>1. Dist(f, v, n) = 1
          BY <1>7, <1>8, <3>2, DistNext
        <4>2. Dist(f, i, n) \in Nat
          BY <1>7, DistNat
        <4> QED
          BY <2>1, <4>1, <4>2
      <3> QED
        BY <1>8, <3>1, <3>2
    <2> QED
      BY <1>9, <1>10, <2>1, FilledTail
  <1>15. BlockRace(b)'
    <2>1. born[b] <= epoch'[P]
      BY <1>10, <1>11
    <2> QED
      BY <1>3, <1>6, <1>7, <1>9, <1>10, <1>11, <1>13, <1>14, <2>1 DEF BlockRace, Freed, Filled
  <1>16. ASSUME NEW c \in 1 .. allocated
         PROVE  BlockRace(c)'
    <2>1. CASE c # b
      BY <2>1, Locs, BlockKept
    <2> QED
      BY <1>15, <2>1
  <1>17. PICK a : a = FB /\ a \in 1 .. allocated
    BY <1>2, RingBlocks DEF RingInv
  <1>18. Copied(a) /\ First(a) /\ a \in Blocks
    BY <1>17, BlockFacts DEF RaceInv
  <1>19. Copied(a)'
    BY <1>3, <1>18 DEF Copied
  <1>20. First(a)'
    <2>1. CASE a # b
      BY <1>3, <1>18, <2>1 DEF First
    <2>2. CASE a = b
      <3>1. FirstBy(f, l, s, seen[C])
        BY <1>6, <1>18, <2>2 DEF First
      <3>2. Before(s[f], C, e)
        BY <1>7, <1>8, <1>12, <1>17, <2>2
      <3>3. FirstBy(f, g, s, seen[C])
        BY <1>9, <3>1, <3>2, FirstTail
      <3> QED
        BY <1>3, <1>6, <1>18, <2>2, <3>3 DEF First
    <2> QED
      BY <2>1, <2>2
  <1>21. Copied(FB)' /\ First(FB)'
    BY <1>3, <1>17, <1>19, <1>20 DEF Copied, First, FrontIx
  <1>22. \A c \in Ring : c \in Blocks
    BY <1>2, RingBlocks
  <1>23. Ring' = Ring /\ RingInv(pos)'
    BY <1>2, <1>3, <1>22 DEF RingInv, Ring
  <1>24. Shown(pos)'
    BY <1>1, <1>3, <1>22, <1>23 DEF Shown
  <1> QED
    BY <1>5, <1>16, <1>21, <1>23, <1>24 DEF RaceInv

LEMMA EnqueuePublishRace ==
  ASSUME Relaxed, Inv, RaceInv, Enqueue_Publish \/ Enqueue_PublishNext
  PROVE  RaceInv'
  <1>1. PICK pos : PosInv(pos)
    BY DEF Inv
  <1>2. /\ MemInv /\ TypeInv /\ CallsTyped /\ RingInv(pos) /\ EmptyInv(pos) /\ ProducerInv(pos)
    BY <1>1 DEF Inv, TypeInv, PosInv
  <1>3. P \in Threads /\ C \in Threads /\ P # C /\ "publishBlock" \in Labels
    BY Locs DEF Labels
  <1>4. PICK b, v, f, t, n : /\ b = IF pc[P] = "publish" THEN TB ELSE call[P].block
                    /\ v = (TailIx(b) + 1) % size[b] /\ f = FrontIx(b) /\ t = TailIx(b) /\ n = size[b]
    OBVIOUS
  <1>5. /\ pc[P] \in {"publish", "publishNext"}
        /\ UNCHANGED <<allocated, size, slot, born, localFront, localTail>>
    BY DEF Enqueue_Publish, Enqueue_PublishNext, pVars, blockVars, cVars
  <1>6. b \in Ring /\ b \in 1 .. allocated
    <2>1. TB \in Ring /\ NextB(TB) \in Ring
      BY <1>2 DEF RingInv
    <2>2. b \in Ring
      BY <1>4, <1>2, <1>5, <2>1 DEF ProducerInv, Filling
    <2> QED
      BY <1>2, <2>2, RingBlocks
  <1>7. b \in Blocks /\ n \in Nat /\ n >= 2 /\ t \in 0 .. n - 1 /\ f \in 0 .. n - 1 /\ TailOf(b) \in Locations
    BY <1>4, <1>6, BlockFacts
  <1>8. v = (IF t + 1 = n THEN 0 ELSE t + 1) /\ v \in Nat
    <2>1. v = (IF t + 1 = n THEN 0 ELSE t + 1)
      BY <1>4, <1>7, Wrap
    <2> QED
      BY <1>7, <2>1
  <1>9. /\ pc'[C] = pc[C] /\ call'[C] = call[C] /\ pc'[P] # "link"
    <2>1. Return(P) \/ GoOn(P, "publishBlock")
      BY DEF Enqueue_Publish, Enqueue_PublishNext
    <2> QED
      BY <1>2, <1>3, <2>1, ReturnMoves, GoOnMoves DEF Moves
  <1>10. RingSize' = RingSize
    BY <1>5, <1>9 DEF RingSize
  <1>11. v = (IF TailIx(b) + 1 = size[b] THEN 0 ELSE TailIx(b) + 1)
    BY <1>4, <1>8
  <1>12. CASE pc[P] = "publish"
    <2>1. StoreReleased(P, TailOf(b), v)
      BY <1>4, <1>12 DEF Enqueue_Publish, Enqueue_PublishNext, Succ, TB, TailIx
    <2>2. StoredAt(P, TailOf(b), v, epoch[P] + 1)
      BY <1>2, <1>3, <1>7, <1>8, <2>1, ReleasedMore
    <2>3. v # localFront[b]
      BY <1>2, <1>4, <1>12 DEF ProducerInv
    <2> QED
      BY <1>5, <1>6, <1>9, <1>10, <1>11, <2>2, <2>3, TailStoreRace
  <1>13. CASE pc[P] = "publishNext"
    <2>1. Store(P, TailOf(b), v)
      BY <1>4, <1>13 DEF Enqueue_Publish, Enqueue_PublishNext, Succ, TB, TailIx
    <2>2. StoredAt(P, TailOf(b), v, epoch[P])
      BY <1>2, <1>3, <1>7, <1>8, <2>1, StoreMore
    <2>3. Advancing /\ Filling
      BY <1>13 DEF Advancing, Filling
    <2>4. b = NextB(TB) /\ localFront[b] = f
      BY <1>2, <1>4, <1>13, <2>3 DEF ProducerInv
    <2>5. b # FB /\ pos[b] = pos[TB] + 1 /\ pos[TB] \in Nat
      BY <1>2, <2>3, <2>4, FillingPlace
    <2>6. pos[b] > pos[TB]
      BY <2>5
    <2>7. f = t
      BY <1>2, <1>4, <1>6, <1>13, <2>6 DEF EmptyInv
    <2>8. v # localFront[b]
      BY <1>7, <1>8, <2>4, <2>7
    <2>9. FrontIx(b) = TailIx(b)
      BY <1>4, <2>7
    <2> QED
      BY <1>5, <1>6, <1>9, <1>10, <1>11, <2>2, <2>5, <2>8, <2>9, TailStoreRace
  <1> QED
    BY <1>5, <1>12, <1>13

\* The consumer moves front of frontBlock on: the slot it leaves is the producer's.
LEMMA DequeueReleaseRace ==
  ASSUME Relaxed, Inv, RaceInv, Dequeue_Release
  PROVE  RaceInv'
  <1>1. PICK pos : PosInv(pos) /\ Shown(pos)
    BY RacePlace
  <1>2. MemInv /\ TypeInv /\ IndexInv /\ CallsTyped /\ RingInv(pos) /\ ConsumerInv(pos)
    BY <1>1 DEF Inv, TypeInv, PosInv
  <1>3. P \in Threads /\ C \in Threads /\ P # C
    BY Locs
  <1>4. PICK b, n, x, f, t, v, h, g, l, s, e :
            /\ b = FB /\ n = size[b] /\ x = localFront[b] /\ f = FrontIx(b) /\ t = TailIx(b)
            /\ v = (f + 1) % n /\ h = mem[FrontOf(b)] /\ g = mem'[FrontOf(b)]
            /\ l = mem[TailOf(b)] /\ s = slot[b] /\ e = epoch[C] + 1
    OBVIOUS
  <1>5. pc[C] = "release" /\ UNCHANGED <<allocated, size, slot, born, localFront, localTail>>
    BY DEF Dequeue_Release, pVars, blockVars, cVars
  <1>6. call[C].block = b /\ f # localTail[b]
    BY <1>2, <1>4, <1>5 DEF ConsumerInv
  <1>7. b \in Ring /\ b \in 1 .. allocated /\ b \in Blocks
    BY <1>2, <1>4, RingBlocks DEF RingInv
  <1>8. /\ n \in Nat /\ n >= 2 /\ f \in 0 .. n - 1 /\ t \in 0 .. n - 1 /\ x \in 0 .. n - 1
        /\ localTail[b] \in 0 .. n - 1 /\ FrontOf(b) \in Locations
    BY <1>4, <1>7, BlockFacts
  <1>9. v = (IF f + 1 = n THEN 0 ELSE f + 1) /\ v \in Nat
    <2>1. v = (IF f + 1 = n THEN 0 ELSE f + 1)
      BY <1>4, <1>8, Wrap
    <2> QED
      BY <1>8, <2>1
  <1>10. StoredAt(C, FrontOf(b), v, e)
    <2>1. StoreReleased(C, FrontOf(b), v)
      BY <1>4, <1>6 DEF Dequeue_Release, Succ, FrontIx
    <2> QED
      BY <1>2, <1>3, <1>4, <1>8, <1>9, <2>1, ReleasedMore
  <1>11. pc'[C] = "idle" /\ pc'[P] = pc[P]
    <2>1. Return(C)
      BY DEF Dequeue_Release
    <2> QED
      BY <1>2, <1>3, <2>1, ReturnMoves DEF Moves
  <1>12. RingSize' = RingSize /\ CallRace'
    BY <1>5, <1>11 DEF RingSize, CallRace
  <1>13. /\ FB' = FB /\ TB' = TB /\ mem'[TailBlock] = mem[TailBlock]
         /\ \A c \in Blocks : /\ TailIx(c)' = TailIx(c) /\ mem'[TailOf(c)] = mem[TailOf(c)]
                              /\ NextB(c)' = NextB(c)
                              /\ c # b => FrontIx(c)' = FrontIx(c)
    BY <1>10, Locs, OtherStores
  <1>14. seen' = seen /\ FrontIx(b)' = v /\ More(g, h, v, e)
    BY <1>4, <1>10 DEF StoredAt, FrontIx
  <1>15. /\ SlotsTyped(n, s, epoch) /\ FreedBy(n, x, t, h, s, seen[P]) /\ FilledBy(n, f, l, s)
         /\ born[b] \in Nat /\ born[b] <= epoch[P]
    BY <1>4, <1>7 DEF RaceInv, BlockRace, Freed, Filled
  <1>16. /\ epoch[P] \in Nat /\ epoch'[P] \in Nat /\ epoch[P] <= epoch'[P] /\ epoch[C] \in Nat
         /\ SlotsTyped(n, s, epoch')
    BY <1>3, <1>10, <1>15, SlotsOlder DEF StoredAt
  <1>17. \A i \in 0 .. n - 1 : Before(s[i], P, e)
    BY <1>3, <1>4, <1>15, <1>16, BeforeNow
  <1>18. \A j \in 1 .. Len(l) : l[j].val \in 0 .. n - 1 /\ l[j].val # f
    <2>1. ASSUME NEW j \in 1 .. Len(l)
          PROVE  l[j].val \in 0 .. n - 1 /\ l[j].val # f
      <3>1. PICK z, y : z = l[j].val /\ y = localTail[b]
        OBVIOUS
      <3>2. z \in 0 .. n - 1
        BY <1>4, <1>7, <3>1, Behind
      <3>3. Dist(f, y, n) <= Dist(f, z, n)
        BY <1>2, <1>4, <3>1 DEF IndexInv, TailCopied
      <3>4. y \in 0 .. n - 1 /\ y # f
        BY <1>6, <1>8, <3>1
      <3>5. z # f
        BY <1>8, <3>2, <3>3, <3>4 DEF Dist
      <3> QED
        BY <3>1, <3>2, <3>5
    <2> QED
      BY <2>1
  <1>19. FreedBy(n, x, t, g, s, seen[P])
    BY <1>14, <1>15, <1>17, FreedFront
  <1>20. FilledBy(n, v, l, s) /\ FirstBy(v, l, s, seen[C])
    BY <1>8, <1>9, <1>15, <1>18, FilledFront, FirstFront
  <1>21. CopiedBy(n, v, localTail[b], s, seen[C])
    <2>1. CopiedBy(n, f, localTail[b], s, seen[C])
      BY <1>4 DEF RaceInv, Copied
    <2> QED
      BY <1>6, <1>8, <1>9, <2>1, CopiedFront
  <1>22. BlockRace(b)'
    <2>1. born[b] <= epoch'[P]
      BY <1>15, <1>16
    <2> QED
      BY <1>4, <1>5, <1>7, <1>13, <1>14, <1>15, <1>16, <1>19, <1>20, <2>1 DEF BlockRace, Freed, Filled
  <1>23. ASSUME NEW c \in 1 .. allocated
         PROVE  BlockRace(c)'
    <2>1. CASE c # b
      BY <1>5, <1>10, <2>1, Locs, BlockKept
    <2> QED
      BY <1>22, <2>1
  <1>24. Copied(b)' /\ First(b)'
    BY <1>4, <1>5, <1>7, <1>13, <1>14, <1>20, <1>21 DEF Copied, First
  <1>25. Copied(FB)' /\ First(FB)'
    BY <1>4, <1>13, <1>24 DEF Copied, First, FrontIx
  <1>26. \A c \in Ring : c \in Blocks /\ pos[c] \in Nat /\ (0 < pos[c] => c # b)
    <2>1. \A c \in Ring : c \in Blocks
      BY <1>2, RingBlocks
    <2>2. \A c \in Ring : pos[c] \in Nat
      BY <1>2, RingBlocks DEF RingInv
    <2>3. pos[b] = 0
      BY <1>2, <1>4 DEF RingInv
    <2> QED
      BY <2>1, <2>2, <2>3
  <1>27. Ring' = Ring /\ RingInv(pos)'
    BY <1>2, <1>12, <1>13, <1>26 DEF RingInv, Ring
  <1>28. Shown(pos)'
    BY <1>1, <1>5, <1>13, <1>26, <1>27 DEF Shown
  <1> QED
    BY <1>5, <1>12, <1>23, <1>25, <1>27, <1>28 DEF RaceInv

\* The producer makes the next block the tail block.
LEMMA EnqueuePublishBlockRace ==
  ASSUME Relaxed, Inv, RaceInv, Enqueue_PublishBlock
  PROVE  RaceInv'
  <1>1. PICK pos : PosInv(pos) /\ Shown(pos)
    BY RacePlace
  <1>2. MemInv /\ TypeInv /\ CallsTyped /\ RingInv(pos) /\ ProducerInv(pos)
    BY <1>1 DEF Inv, TypeInv, PosInv
  <1>3. P \in Threads /\ C \in Threads /\ P # C /\ TailBlock \in Locations
    BY Locs
  <1>4. PICK b, e, h, g : b = call[P].block /\ e = epoch[P] + 1 /\ h = mem[TailBlock] /\ g = mem'[TailBlock]
    OBVIOUS
  <1>5. pc[P] = "publishBlock" /\ UNCHANGED <<allocated, size, slot, born, localFront, localTail>>
    BY DEF Enqueue_PublishBlock, blockVars, cVars
  <1>6. b \in Ring /\ b \in 1 .. allocated /\ b \in Nat
    <2>1. TB \in Ring /\ NextB(TB) \in Ring
      BY <1>2 DEF RingInv
    <2>2. b \in Ring
      BY <1>4, <1>2, <1>5, <2>1 DEF ProducerInv, Filling
    <2> QED
      BY <1>2, <2>2, RingBlocks
  <1>7. StoredAt(P, TailBlock, b, e)
    <2>1. StoreReleased(P, TailBlock, b)
      BY <1>4 DEF Enqueue_PublishBlock
    <2> QED
      BY <1>2, <1>3, <1>4, <1>6, <2>1, ReleasedMore
  <1>8. pc'[C] = pc[C] /\ call'[C] = call[C] /\ pc'[P] = "idle"
    <2>1. Return(P)
      BY DEF Enqueue_PublishBlock
    <2> QED
      BY <1>2, <1>3, <2>1, ReturnMoves DEF Moves
  <1>9. RingSize' = RingSize
    BY <1>5, <1>8 DEF RingSize
  <1>10. /\ FB' = FB
         /\ \A c \in Blocks : /\ TailIx(c)' = TailIx(c) /\ mem'[TailOf(c)] = mem[TailOf(c)]
                              /\ NextB(c)' = NextB(c)
                              /\ FrontIx(c)' = FrontIx(c)
    BY <1>7, Locs, OtherStores
  <1>11. seen' = seen /\ TB' = b /\ More(g, h, b, e)
    BY <1>4, <1>7 DEF StoredAt, TB
  <1>12. ASSUME NEW c \in 1 .. allocated
         PROVE  BlockRace(c)'
    BY <1>5, <1>7, Locs, BlockKept
  <1>13. PICK a : a = FB /\ a \in 1 .. allocated /\ a \in Blocks
    BY <1>2, RingBlocks DEF RingInv
  <1>14. Copied(a)' /\ First(a)'
    BY <1>5, <1>10, <1>11, <1>13 DEF Copied, First, RaceInv
  <1>15. Copied(FB)' /\ First(FB)'
    BY <1>10, <1>13, <1>14 DEF Copied, First, FrontIx
  <1>16. \A c \in 1 .. allocated : LeavesBlock(c)
    BY <1>5, <1>10, BlockFacts DEF LeavesBlock
  <1>17. CallRace'
    BY <1>8, <1>11, <1>16, CallStays DEF RaceInv
  <1>18. \A c \in Ring : c \in Blocks
    BY <1>2, RingBlocks
  <1>19. Ring' = Ring /\ RingInv(pos)'
    <2>1. Ring' = Ring
      BY <1>9 DEF Ring
    <2>2. FB' \in Ring /\ TB' \in Ring /\ pos[FB'] = 0
      BY <1>2, <1>6, <1>10, <1>11 DEF RingInv
    <2>3. ASSUME NEW c \in Ring
          PROVE  /\ NextB(c)' \in Ring
                 /\ pos[NextB(c)'] = IF pos[c] = RingSize - 1 THEN 0 ELSE pos[c] + 1
      BY <1>2, <1>10, <1>18 DEF RingInv
    <2> QED
      BY <1>2, <1>9, <2>1, <2>2, <2>3 DEF RingInv
  <1>20. ASSUME NEW j \in 1 .. Len(g), NEW c \in Ring, 0 < pos[c], pos[c] <= pos[g[j].val]
         PROVE  Before(slot[c][FrontIx(c)], C, g[j].at) /\ born[c] < g[j].at
    <2>1. CASE j \in 1 .. Len(h) /\ g[j] = h[j]
      BY <1>1, <1>4, <1>20, <2>1 DEF Shown
    <2>2. CASE g[j].at = e
      <3>1. c \in 1 .. allocated
        BY <1>2, RingBlocks
      <3>2. SlotsTyped(size[c], slot[c], epoch) /\ born[c] \in Nat /\ born[c] <= epoch[P]
        BY <3>1 DEF RaceInv, BlockRace
      <3>3. FrontIx(c) \in 0 .. size[c] - 1 /\ epoch[P] \in Nat
        BY <1>2, <1>3, <3>1, BlockFacts DEF MemInv
      <3>4. Before(slot[c][FrontIx(c)], C, e)
        BY <1>3, <1>4, <3>2, <3>3, BeforeNow
      <3>5. born[c] < e
        BY <1>4, <3>2, <3>3
      <3> QED
        BY <2>2, <3>4, <3>5
    <2> QED
      BY <1>11, <2>1, <2>2, MoreEntry
  <1>21. Shown(pos)'
    <2>1. \A j \in 1 .. Len(g) : \A c \in Ring :
              0 < pos[c] /\ pos[c] <= pos[g[j].val] =>
                  Before(slot[c][FrontIx(c)], C, g[j].at) /\ born[c] < g[j].at
      BY <1>20
    <2> QED
      BY <1>4, <1>5, <1>10, <1>18, <1>19, <2>1 DEF Shown
  <1> QED
    BY <1>5, <1>12, <1>15, <1>17, <1>19, <1>21 DEF RaceInv

\* No store of tailBlock that a leaving consumer may read is of frontBlock.
LEMMA LeavingTails ==
  ASSUME Inv, Leaving, NEW pos, PosInv(pos), NEW j \in 1 .. Len(mem[TailBlock]), NEW d,
         d = mem[TailBlock][j].val
  PROVE  d \in Ring /\ pos[d] > 0
  <1>1. MemInv /\ TypeInv /\ RingInv(pos) /\ TailBlockInv(pos) /\ ConsumerInv(pos)
    BY DEF Inv, PosInv
  <1>2. PICK c, k : c = mem[TailBlock][1].val /\ k = Len(mem[TailBlock])
    OBVIOUS
  <1>3. k \in Nat /\ 1 \in 1 .. k /\ j \in 1 .. k
    BY <1>1, <1>2, Locs, History
  <1>4. c \in Ring /\ d \in Ring /\ pos[c] = pos[TB] - (k - 1) /\ pos[d] = pos[TB] - (k - j)
    BY <1>1, <1>2, <1>3 DEF TailBlockInv
  <1>5. c # FB
    BY <1>1, <1>2 DEF ConsumerInv
  <1>6. pos[c] \in Nat /\ pos[d] \in Nat /\ pos[TB] \in Nat /\ pos[c] # 0
    <2>1. \A m \in Ring : pos[m] \in Nat
      BY <1>1, RingBlocks DEF RingInv
    <2>2. FB \in Ring /\ TB \in Ring /\ pos[FB] = 0 /\ (pos[c] = pos[FB] => c = FB)
      BY <1>1, <1>4 DEF RingInv
    <2> QED
      BY <1>4, <1>5, <2>1, <2>2
  <1>7. pos[d] > 0
    BY <1>3, <1>4, <1>6
  <1> QED
    BY <1>4, <1>7

\* The consumer makes the next block the front block.
LEMMA DequeueMoveFrontRace ==
  ASSUME Relaxed, Inv, RaceInv, Dequeue_MoveFront
  PROVE  RaceInv'
  <1>1. PICK pos : PosInv(pos) /\ Shown(pos)
    BY RacePlace
  <1>2. MemInv /\ TypeInv /\ CallsTyped /\ RingInv(pos) /\ ConsumerInv(pos)
    BY <1>1 DEF Inv, TypeInv, PosInv
  <1>3. P \in Threads /\ C \in Threads /\ P # C /\ FrontBlock \in Locations /\ "take" \in Labels
    BY Locs DEF Labels
  <1>4. PICK b, a, e, R, q, s, f, l, x, n :
            /\ b = call[C].block /\ a = FB /\ e = epoch[C] + 1 /\ R = RingSize /\ Turned(pos, q)
            /\ s = slot[b] /\ f = FrontIx(b) /\ l = mem[TailOf(b)] /\ x = localTail[b] /\ n = size[b]
    BY DEF Turned
  <1>5. pc[C] = "moveFront" /\ Leaving /\ UNCHANGED <<allocated, size, slot, born, localFront, localTail>>
    BY DEF Dequeue_MoveFront, pVars, blockVars, cVars, Leaving
  <1>6. b = NextB(FB) /\ b \in Ring /\ b \in 1 .. allocated /\ Before(s[f], C, seen[C]) /\ pos[b] = 1
    <2>1. b = NextB(FB)
      BY <1>2, <1>4, <1>5 DEF ConsumerInv
    <2>2. pos[b] = 1
      BY <1>1, <1>2, <1>5, <2>1, LeavingReads
    <2> QED
      BY <1>4, <1>5, <2>1, <2>2, LeavingShown
  <1>7. b \in Blocks /\ b \in Nat /\ CopiedBy(n, f, x, s, seen[C])
    BY <1>2, <1>4, <1>5, <1>6, RingBlocks DEF RaceInv, CallRace, Copied
  <1>8. StoredAt(C, FrontBlock, b, e)
    <2>1. StoreReleased(C, FrontBlock, b)
      BY <1>4 DEF Dequeue_MoveFront
    <2> QED
      BY <1>2, <1>3, <1>4, <1>7, <2>1, ReleasedMore
  <1>9. pc'[C] = "take" /\ pc'[P] = pc[P] /\ call' = call
    <2>1. GoOn(C, "take")
      BY DEF Dequeue_MoveFront
    <2> QED
      BY <1>2, <1>3, <2>1, GoOnMoves DEF Moves
  <1>10. RingSize' = R /\ Ring' = Ring
    BY <1>4, <1>5, <1>9 DEF RingSize, Ring
  <1>11. /\ TB' = TB /\ mem'[TailBlock] = mem[TailBlock]
         /\ \A c \in Blocks : /\ TailIx(c)' = TailIx(c) /\ mem'[TailOf(c)] = mem[TailOf(c)]
                              /\ NextB(c)' = NextB(c)
                              /\ FrontIx(c)' = FrontIx(c)
    BY <1>8, Locs, OtherStores
  <1>12. seen' = seen /\ FB' = b
    BY <1>8 DEF StoredAt, FB
  <1>13. ASSUME NEW c \in 1 .. allocated
         PROVE  BlockRace(c)'
    BY <1>5, <1>8, Locs, BlockKept
  <1>14. FirstBy(f, l, s, seen[C])
    BY <1>6 DEF FirstBy
  <1>15. Copied(b)' /\ First(b)'
    BY <1>4, <1>5, <1>7, <1>11, <1>12, <1>14 DEF Copied, First
  <1>16. Copied(FB)' /\ First(FB)'
    BY <1>12, <1>15 DEF Copied, First, FrontIx
  <1>17. CallRace'
    <2>1. FrontIx(call[C].block)' = f
      BY <1>4, <1>7, <1>9, <1>11 DEF FrontIx
    <2> QED
      BY <1>4, <1>5, <1>6, <1>9, <1>12, <2>1 DEF CallRace
  <1>18. /\ R \in Nat /\ R >= 1 /\ q \in [Ring -> 0 .. R - 1]
         /\ \A c \in Ring : /\ pos[c] \in Nat /\ pos[c] <= R - 1
                            /\ q[c] \in Nat /\ q[c] <= R - 1
                            /\ pos[c] = 0 => q[c] = R - 1
                            /\ pos[c] # 0 => q[c] = pos[c] - 1
         /\ \A c, d \in Ring : q[c] = q[d] => c = d
         /\ \A c \in Ring : /\ NextB(c) \in Ring
                            /\ q[NextB(c)] = IF q[c] = R - 1 THEN 0 ELSE q[c] + 1
    BY <1>2, <1>4, TurnedRing
  <1>19. TB \in Ring /\ q[b] = 0 /\ \A c \in Ring : c \in Blocks
    BY <1>2, <1>6, <1>18, RingBlocks DEF RingInv
  <1>20. RingInv(q)'
    <2>1. \A c \in Ring : NextB(c)' = NextB(c)
      BY <1>11, <1>19
    <2> QED
      BY <2>1, <1>6, <1>10, <1>11, <1>12, <1>18, <1>19 DEF RingInv
  <1>21. ASSUME NEW j \in 1 .. Len(mem[TailBlock]), NEW c \in Ring, 0 < q[c],
                q[c] <= q[mem[TailBlock][j].val]
         PROVE  0 < pos[c] /\ pos[c] <= pos[mem[TailBlock][j].val]
    <2>1. PICK d : d = mem[TailBlock][j].val
      OBVIOUS
    <2>2. d \in Ring /\ pos[d] > 0
      BY <1>1, <1>5, <2>1, LeavingTails
    <2>3. q[c] <= q[d]
      BY <1>21, <2>1
    <2>4. /\ pos[d] \in Nat /\ pos[d] <= R - 1 /\ q[d] = pos[d] - 1
          /\ pos[c] \in Nat /\ (pos[c] = 0 => q[c] = R - 1) /\ (pos[c] # 0 => q[c] = pos[c] - 1)
      <3>1. pos[d] \in Nat /\ pos[d] # 0
        BY <1>18, <2>2
      <3> QED
        BY <1>18, <2>2, <3>1
    <2>5. R \in Nat
      BY <1>18
    <2>6. 0 < pos[c] /\ pos[c] <= pos[d]
      BY <2>3, <2>4, <2>5
    <2> QED
      BY <2>1, <2>6
  <1>22. ASSUME NEW j \in 1 .. Len(mem[TailBlock]), NEW c \in Ring, 0 < q[c],
                q[c] <= q[mem[TailBlock][j].val]
         PROVE  /\ Before(slot[c][FrontIx(c)], C, mem[TailBlock][j].at)
                /\ born[c] < mem[TailBlock][j].at
    BY <1>1, <1>21, <1>22 DEF Shown
  <1>23. Shown(q)'
    <2>1. \A j \in 1 .. Len(mem[TailBlock]) : \A c \in Ring :
              0 < q[c] /\ q[c] <= q[mem[TailBlock][j].val] =>
                  /\ Before(slot[c][FrontIx(c)], C, mem[TailBlock][j].at)
                  /\ born[c] < mem[TailBlock][j].at
      BY <1>22
    <2> QED
      BY <1>5, <1>10, <1>11, <1>19, <2>1 DEF Shown
  <1> QED
    BY <1>5, <1>13, <1>16, <1>17, <1>20, <1>23 DEF RaceInv

\* The producer links a new block into the ring.
LEMMA EnqueueLinkRace ==
  ASSUME Relaxed, Inv, RaceInv, Enqueue_Link
  PROVE  RaceInv'
  <1>1. PICK pos : PosInv(pos) /\ Shown(pos)
    BY RacePlace
  <1>2. MemInv /\ TypeInv /\ CallsTyped /\ RingInv(pos) /\ TailBlockInv(pos) /\ ProducerInv(pos)
    BY <1>1 DEF Inv, TypeInv, PosInv
  <1>3. P \in Threads /\ C \in Threads /\ P # C /\ "publishBlock" \in Labels
    BY Locs DEF Labels
  <1>4. PICK b, T, p, q : b = allocated /\ T = TB /\ p = pos[T] /\ Inserted(pos, b, q)
    BY DEF Inserted
  <1>5. pc[P] = "link" /\ UNCHANGED <<allocated, size, slot, born, localFront, localTail>>
    BY DEF Enqueue_Link, pVars, blockVars, cVars
  <1>6. /\ call[P].block = b /\ b \in Nat /\ T \in Ring /\ T \in Blocks /\ p \in Nat /\ Ring = 1 .. b - 1
        /\ \A c \in Ring : pos[c] \in Nat
    <2>1. call[P].block = b /\ T \in Ring /\ Ring = 1 .. b - 1
      BY <1>2, <1>4, <1>5 DEF ProducerInv, RingInv, Ring, RingSize
    <2>2. b \in Nat /\ T \in Blocks
      BY <1>2, <1>4, <2>1, RingBlocks DEF TypeInv
    <2>3. \A c \in Ring : pos[c] \in Nat
      BY <1>2, RingBlocks DEF RingInv
    <2> QED
      BY <1>4, <2>1, <2>2, <2>3
  <1>7. StoredAt(P, NextOf(T), b, epoch[P])
    <2>1. Store(P, NextOf(T), b)
      BY <1>4, <1>6 DEF Enqueue_Link, TB
    <2> QED
      BY <1>2, <1>3, <1>6, <2>1, Locs, StoreMore
  <1>8. pc'[C] = pc[C] /\ call'[C] = call[C] /\ pc'[P] = "publishBlock"
    <2>1. GoOn(P, "publishBlock")
      BY DEF Enqueue_Link
    <2> QED
      BY <1>2, <1>3, <2>1, GoOnMoves DEF Moves
  <1>9. Ring' = 1 .. b
    BY <1>4, <1>5, <1>8 DEF RingSize, Ring
  <1>10. /\ FB' = FB /\ mem'[TailBlock] = mem[TailBlock]
         /\ \A c \in Blocks : /\ TailIx(c)' = TailIx(c) /\ mem'[TailOf(c)] = mem[TailOf(c)]
                              /\ FrontIx(c)' = FrontIx(c)
    BY <1>7, Locs, OtherStores
  <1>11. seen' = seen
    BY <1>7 DEF StoredAt
  <1>12. ASSUME NEW c \in 1 .. allocated
         PROVE  BlockRace(c)'
    BY <1>5, <1>7, Locs, BlockKept
  <1>13. PICK a : a = FB /\ a \in 1 .. allocated /\ a \in Blocks
    BY <1>2, RingBlocks DEF RingInv
  <1>14. Copied(a)' /\ First(a)'
    BY <1>5, <1>10, <1>11, <1>13 DEF Copied, First, RaceInv
  <1>15. Copied(FB)' /\ First(FB)'
    BY <1>10, <1>13, <1>14 DEF Copied, First, FrontIx
  <1>16. \A c \in 1 .. allocated : LeavesBlock(c)
    BY <1>5, <1>10, BlockFacts DEF LeavesBlock
  <1>17. CallRace'
    BY <1>8, <1>11, <1>16, CallStays DEF RaceInv
  <1>18. RingInv(q)'
    BY <1>1, <1>4, LinkStep
  <1>19. q[b] = p + 1 /\ \A c \in Ring : q[c] = IF pos[c] <= p THEN pos[c] ELSE pos[c] + 1
    <2>1. b \in 1 .. b /\ \A c \in Ring : c \in 1 .. b /\ c # b
      <3>1. b >= 1
        BY <1>6
      <3> QED
        BY <1>6, <3>1
    <2> QED
      BY <1>4, <2>1 DEF Inserted
  <1>20. ASSUME NEW j \in 1 .. Len(mem[TailBlock]), NEW c \in 1 .. b, 0 < q[c],
                q[c] <= q[mem[TailBlock][j].val]
         PROVE  c \in Ring /\ 0 < pos[c] /\ pos[c] <= pos[mem[TailBlock][j].val]
    <2>1. PICK d, k : d = mem[TailBlock][j].val /\ k = Len(mem[TailBlock])
      OBVIOUS
    <2>2. k \in Nat /\ j \in 1 .. k
      BY <1>2, <2>1, Locs, History
    <2>3. d \in Ring /\ pos[d] = p - (k - j)
      BY <1>2, <1>4, <2>1 DEF TailBlockInv
    <2>4. pos[d] <= p
      BY <1>6, <2>2, <2>3
    <2>5. q[d] = pos[d] /\ pos[d] \in Nat
      BY <1>6, <1>19, <2>3, <2>4
    <2>6. q[c] <= pos[d]
      BY <1>20, <2>1, <2>5
    <2>7. c # b
      BY <1>6, <1>19, <2>4, <2>5, <2>6
    <2>8. c \in Ring
      BY <1>6, <2>7
    <2>9. pos[c] \in Nat /\ q[c] = IF pos[c] <= p THEN pos[c] ELSE pos[c] + 1
      BY <1>6, <1>19, <2>8
    <2>10. 0 < pos[c] /\ pos[c] <= pos[d]
      BY <1>6, <1>20, <2>4, <2>5, <2>6, <2>9
    <2> QED
      BY <2>1, <2>8, <2>10
  <1>21. \A j \in 1 .. Len(mem[TailBlock]) : \A c \in 1 .. b :
              0 < q[c] /\ q[c] <= q[mem[TailBlock][j].val] =>
                  /\ Before(slot[c][FrontIx(c)], C, mem[TailBlock][j].at)
                  /\ born[c] < mem[TailBlock][j].at
    BY <1>1, <1>20 DEF Shown
  <1>22. Shown(q)'
    <2>1. \A c \in 1 .. b : FrontIx(c)' = FrontIx(c)
      BY <1>4, <1>10, BlockFacts
    <2> QED
      BY <1>5, <1>9, <1>10, <1>21, <2>1 DEF Shown
  <1> QED
    BY <1>5, <1>12, <1>15, <1>17, <1>18, <1>22 DEF RaceInv

\* The producer constructs a block; the consumer cannot reach it yet.
LEMMA EnqueueAllocRace ==
  ASSUME Relaxed, Inv, RaceInv, DOMAIN born = Blocks, Enqueue_Alloc
  PROVE  RaceInv'
  <1>1. PICK pos : PosInv(pos) /\ Shown(pos)
    BY RacePlace
  <1>2. MemInv /\ TypeInv /\ CallsTyped /\ RingInv(pos)
    BY <1>1 DEF Inv, TypeInv, PosInv
  <1>3. P \in Threads /\ C \in Threads /\ P # C /\ "link" \in Labels
    BY Locs DEF Labels
  <1>4. PICK b, n, e, a, x : /\ b = allocated + 1 /\ n = NewBlockSize /\ e = epoch[P]
                             /\ a = allocated /\ x = NextB(TB)
    OBVIOUS
  <1>5. /\ pc[P] = "alloc" /\ b \in Blocks /\ allocated' = b
        /\ size' = [size EXCEPT ![b] = n] /\ born' = [born EXCEPT ![b] = e]
        /\ slot' = [slot EXCEPT ![b] = [FreshSlots(n, e) EXCEPT ![0].val = sent + 1]]
        /\ localTail' = [localTail EXCEPT ![b] = 1]
        /\ mem' = [mem EXCEPT ![TailOf(b)] = Put(@, 1, e), ![NextOf(b)] = Put(@, x, e)]
        /\ GoOnWith(P, "link", b)
        /\ UNCHANGED <<epoch, seen, localFront>>
    BY <1>4 DEF Enqueue_Alloc, NextB, TB
  <1>6. /\ a \in Nat /\ b \in Nat /\ b = a + 1 /\ b > allocated /\ e \in Nat
        /\ \A c \in 1 .. a : c \in Blocks /\ c # b
        /\ \A c \in 1 .. b : c \in 1 .. a \/ c = b
    <2>1. a \in Nat /\ \A c \in 1 .. a : c \in Blocks
      BY <1>2, <1>4, RingBlocks DEF TypeInv
    <2>2. e \in Nat
      BY <1>2, <1>3, <1>4 DEF MemInv
    <2> QED
      BY <1>4, <2>1, <2>2
  <1>7. n \in Nat /\ n >= 2
    BY <1>2, <1>4, Sizes DEF NewBlockSize, TypeInv
  <1>8. pc'[P] = "link" /\ pc'[C] = pc[C] /\ call'[C] = call[C]
    BY <1>2, <1>3, <1>5, GoOnWithMoves DEF Moves
  <1>9. /\ TailOf(b) \in Locations /\ NextOf(b) \in Locations /\ FrontOf(b) \in Locations
        /\ TailOf(b) # NextOf(b)
    BY <1>5, Locs
  <1>10. /\ mem'[TailOf(b)] = Put(mem[TailOf(b)], 1, e)
         /\ \A l \in Locations : l # TailOf(b) /\ l # NextOf(b) => mem'[l] = mem[l]
    <2>1. DOMAIN mem = Locations
      BY <1>2 DEF MemInv
    <2> QED
      BY <1>5, <1>9, <2>1
  <1>11. /\ mem'[FrontBlock] = mem[FrontBlock] /\ mem'[TailBlock] = mem[TailBlock]
         /\ \A c \in Blocks :
               /\ mem'[FrontOf(c)] = mem[FrontOf(c)]
               /\ c # b => mem'[NextOf(c)] = mem[NextOf(c)] /\ mem'[TailOf(c)] = mem[TailOf(c)]
    BY <1>10, Locs
  <1>12. /\ FB' = FB /\ TB' = TB
         /\ \A c \in Blocks : /\ FrontIx(c)' = FrontIx(c)
                              /\ c # b => NextB(c)' = NextB(c) /\ TailIx(c)' = TailIx(c)
    <2>1. \A l \in Locations : mem'[l] = mem[l] => Newest(l)' = Newest(l)
      BY DEF Newest
    <2> QED
      BY <2>1, <1>11, Locs DEF FB, TB, FrontIx, NextB, TailIx
  <1>13. /\ size'[b] = n /\ localFront[b] = 0 /\ slot'[b] = [FreshSlots(n, e) EXCEPT ![0].val = sent + 1]
         /\ mem[FrontOf(b)] = <<[val |-> 0, at |-> 0]>> /\ mem[TailOf(b)] = <<[val |-> 0, at |-> 0]>>
         /\ \A c \in Blocks : c # b => size'[c] = size[c] /\ slot'[c] = slot[c]
    <2>1. /\ size \in [Blocks -> Nat] /\ DOMAIN slot = Blocks
          /\ mem[FrontOf(b)] = <<[val |-> 0, at |-> 0]>> /\ mem[TailOf(b)] = <<[val |-> 0, at |-> 0]>>
          /\ localFront[b] = 0
      BY <1>2, <1>5, <1>6 DEF TypeInv
    <2> QED
      BY <2>1, <1>5
  <1>14. /\ born'[b] = e /\ \A c \in Blocks : c # b => born'[c] = born[c]
         /\ \A c \in Blocks : c # b => localTail'[c] = localTail[c]
    BY <1>2, <1>5 DEF TypeInv
  <1>15. RingSize' = RingSize /\ Ring' = Ring /\ Ring = 1 .. a
    <2>1. RingSize' = a /\ RingSize = a
      BY <1>4, <1>5, <1>6, <1>8 DEF RingSize
    <2> QED
      BY <2>1 DEF Ring
  <1>16. FrontIx(b)' = 0 /\ mem'[FrontOf(b)] = mem[FrontOf(b)]
    <2>1. Len(mem[FrontOf(b)]) = 1 /\ mem[FrontOf(b)][1].val = 0
      BY <1>13
    <2>2. mem'[FrontOf(b)] = mem[FrontOf(b)]
      BY <1>5, <1>11
    <2> QED
      BY <2>1, <2>2 DEF FrontIx, Newest
  <1>17. \A i \in 0 .. n - 1 : slot'[b][i].by = P /\ slot'[b][i].at = e
    BY <1>7, <1>13 DEF FreshSlots
  <1>18. \A j \in 1 .. Len(mem'[TailOf(b)]) : mem'[TailOf(b)][j].val \in {0, 1}
    <2>1. PICK g, l : g = mem'[TailOf(b)] /\ l = mem[TailOf(b)]
      OBVIOUS
    <2>2. l \in Seq(Stores) /\ l # <<>>
      BY <1>2, <1>9, <2>1, History DEF MemInv
    <2>3. g = Put(l, 1, e)
      BY <1>10, <2>1
    <2>4. More(g, l, 1, e)
      BY <1>6, <2>2, <2>3, PutMore
    <2>5. Len(l) = 1 /\ l[1].val = 0
      BY <1>13, <2>1
    <2>6. ASSUME NEW j \in 1 .. Len(g)
          PROVE  g[j].val \in {0, 1}
      <3>1. CASE j \in 1 .. Len(l) /\ g[j] = l[j]
        BY <2>5, <3>1
      <3>2. CASE g[j].val = 1
        BY <3>2
      <3> QED
        BY <2>4, <3>1, <3>2, MoreEntry
    <2> QED
      BY <2>1, <2>6
  <1>19. BlockRace(b)'
    <2>1. SlotsTyped(n, slot'[b], epoch')
      BY <1>3, <1>4, <1>5, <1>6, <1>17 DEF SlotsTyped
    <2>2. Freed(b)'
      BY <1>13, <1>17 DEF Freed, FreedBy, Before
    <2>3. FilledBy(n, 0, mem'[TailOf(b)], slot'[b])
      <3>1. ASSUME NEW i \in 0 .. n - 1, NEW z \in {0, 1}
            PROVE  ~ (0 < Dist(0, i, n) /\ Dist(0, i, n) < Dist(0, z, n))
        BY <1>7 DEF Dist
      <3> QED
        BY <1>18, <3>1 DEF FilledBy
    <2>4. born'[b] \in Nat /\ born'[b] <= epoch'[P]
      BY <1>4, <1>5, <1>6, <1>14
    <2> QED
      BY <1>13, <1>16, <2>1, <2>2, <2>3, <2>4 DEF BlockRace, Filled
  <1>20. ASSUME NEW c \in 1 .. a
         PROVE  BlockRace(c)'
    <2>1. BlockRace(c) /\ c \in Blocks /\ c # b
      BY <1>4, <1>6 DEF RaceInv
    <2> QED
      BY <2>1, <1>5, <1>11, <1>12, <1>13, <1>14 DEF BlockRace, Freed, Filled
  <1>21. PICK d : d = FB /\ d \in 1 .. a /\ d \in Blocks /\ d # b
    BY <1>2, <1>6, <1>15 DEF RingInv
  <1>22. Copied(d)' /\ First(d)'
    <2>1. Copied(d) /\ First(d)
      BY <1>21 DEF RaceInv
    <2>2. /\ size'[d] = size[d] /\ slot'[d] = slot[d] /\ localTail'[d] = localTail[d]
          /\ FrontIx(d)' = FrontIx(d) /\ mem'[TailOf(d)] = mem[TailOf(d)] /\ seen' = seen
      BY <1>5, <1>11, <1>12, <1>13, <1>14, <1>21
    <2> QED
      BY <2>1, <2>2 DEF Copied, First
  <1>23. Copied(FB)' /\ First(FB)'
    BY <1>12, <1>21, <1>22 DEF Copied, First, FrontIx
  <1>24. \A c \in 1 .. allocated : LeavesBlock(c)
    BY <1>4, <1>6, <1>12, <1>13, <1>14 DEF LeavesBlock
  <1>25. CallRace'
    BY <1>5, <1>8, <1>24, CallStays DEF RaceInv
  <1>26. RingInv(pos)'
    <2>1. \A c \in Ring : NextB(c)' = NextB(c)
      BY <1>6, <1>12, <1>15
    <2> QED
      BY <2>1, <1>2, <1>12, <1>15 DEF RingInv
  <1>27. Shown(pos)'
    <2>1. \A c \in Ring : FrontIx(c)' = FrontIx(c) /\ slot'[c] = slot[c] /\ born'[c] = born[c]
      BY <1>6, <1>12, <1>13, <1>14, <1>15
    <2> QED
      BY <1>1, <1>11, <1>15, <2>1 DEF Shown
  <1> QED
    BY <1>5, <1>6, <1>19, <1>20, <1>23, <1>25, <1>26, <1>27 DEF RaceInv

-------------------------------------------------------------------------------
(***************************************************************************)
(* The invariant holds, and what follows from it.                           *)
(***************************************************************************)

LEMMA InitRace ==
  ASSUME Init
  PROVE  RaceInv /\ DOMAIN born = Blocks
  <1>1. Inv
    BY InitInv
  <1>2. PICK pos : PosInv(pos)
    BY <1>1 DEF Inv
  <1>3. RingInv(pos) /\ P \in Threads /\ C \in Threads
    BY <1>2, Locs DEF PosInv
  <1>4. \A loc \in Locations : mem[loc] = <<[val |-> InitialValue(loc), at |-> 0]>>
    BY DEF Init
  <1>5. ASSUME NEW loc \in Locations
        PROVE  /\ Len(mem[loc]) = 1 /\ mem[loc][1].val = InitialValue(loc)
               /\ Newest(loc) = InitialValue(loc)
    <2>1. mem[loc] = <<[val |-> InitialValue(loc), at |-> 0]>>
      BY <1>4
    <2>2. Len(mem[loc]) = 1 /\ mem[loc][1] = [val |-> InitialValue(loc), at |-> 0]
      BY <2>1
    <2> QED
      BY <2>2 DEF Newest
  <1>6. ASSUME NEW b \in 1 .. allocated
        PROVE  BlockRace(b) /\ Copied(b) /\ First(b)
    <2>1. b \in Blocks /\ size[b] \in Nat /\ size[b] >= 2 /\ FrontOf(b) \in Locations /\ TailOf(b) \in Locations
      BY <1>1, BlockFacts
    <2>2. InitialValue(FrontOf(b)) = 0 /\ InitialValue(TailOf(b)) = 0
      BY DEF InitialValue, FrontOf, TailOf
    <2>3. /\ FrontIx(b) = 0 /\ Len(mem[TailOf(b)]) = 1 /\ mem[TailOf(b)][1].val = 0 /\ TailIx(b) = 0
      BY <1>5, <2>1, <2>2 DEF FrontIx, TailIx
    <2>4. \A i \in 0 .. size[b] - 1 : slot[b][i].by = P /\ slot[b][i].at = 0
      BY <2>1 DEF Init, FreshSlots
    <2>5. localTail[b] = 0 /\ born[b] = 0 /\ epoch[P] = 1
      BY <2>1 DEF Init, P
    <2>6. SlotsTyped(size[b], slot[b], epoch)
      BY <1>3, <2>4, <2>5 DEF SlotsTyped
    <2>7. Freed(b)
      BY <2>4 DEF Freed, FreedBy, Before
    <2>8. \A i \in 0 .. size[b] - 1 : ~ (Dist(0, i, size[b]) < Dist(0, 0, size[b]))
      BY <2>1 DEF Dist
    <2>9. \A j \in 1 .. Len(mem[TailOf(b)]) : mem[TailOf(b)][j].val = 0
      BY <2>3
    <2>10. Filled(b) /\ Copied(b) /\ First(b)
      BY <2>3, <2>5, <2>8, <2>9 DEF Filled, FilledBy, Copied, CopiedBy, First, FirstBy
    <2> QED
      BY <2>5, <2>6, <2>7, <2>10 DEF BlockRace
  <1>7. FB \in 1 .. allocated
    BY <1>1, <1>3, RingBlocks DEF RingInv, Inv
  <1>8. CallRace
    BY Locs DEF CallRace, Init, Threads
  <1>9. Shown(pos)
    <2>1. FB = 1 /\ Len(mem[TailBlock]) = 1 /\ mem[TailBlock][1].val = 1
      BY <1>5, Locs DEF FB, InitialValue, FrontBlock, TailBlock
    <2>2. \A j \in 1 .. Len(mem[TailBlock]) : pos[mem[TailBlock][j].val] = 0
      BY <1>3, <2>1 DEF RingInv
    <2>3. \A b \in Ring : ~ (0 < pos[b] /\ pos[b] <= 0)
      <3>1. \A b \in Ring : pos[b] \in Nat
        BY <1>1, <1>3, RingBlocks DEF RingInv, Inv
      <3> QED
        BY <3>1
    <2> QED
      BY <2>2, <2>3 DEF Shown
  <1>10. DOMAIN born = Blocks
    BY DEF Init
  <1> QED
    BY <1>3, <1>6, <1>7, <1>8, <1>9, <1>10 DEF RaceInv

LEMMA BornKept ==
  ASSUME DOMAIN born = Blocks, [Next]_vars
  PROVE  DOMAIN born' = Blocks
  <1>1. born' = born \/ \E b, e : born' = [born EXCEPT ![b] = e]
    <2>1. CASE ProducerStep
      BY <2>1 DEF ProducerStep, pVars, blockVars, Enqueue_Write, Enqueue_Publish, Enqueue_Full,
         Enqueue_Advance, Enqueue_WriteNext, Enqueue_PublishNext, Enqueue_Alloc, Enqueue_NoMemory,
         Enqueue_Link, Enqueue_PublishBlock
    <2>2. CASE ConsumerStep
      BY <2>2 DEF ConsumerStep, pVars, blockVars, Dequeue_Take, Dequeue_Release, Dequeue_CheckTail,
         Dequeue_Recheck, Dequeue_ReadNext, Dequeue_CheckNext, Dequeue_MoveFront
    <2>3. CASE SizeStep
      BY <2>3 DEF SizeStep, pVars, blockVars, Size_Start, Size_Count, Size_Follow
    <2>4. CASE Enqueue_Start \/ Dequeue_Start
      BY <2>4 DEF Enqueue_Start, Dequeue_Start, pVars, blockVars
    <2>5. CASE UNCHANGED vars
      BY <2>5 DEF vars, pVars, blockVars
    <2> QED
      BY <2>1, <2>2, <2>3, <2>4, <2>5 DEF Next
  <1> QED
    BY <1>1

LEMMA NextRace ==
  ASSUME Relaxed, C \notin SizeCallers, Inv, RaceInv, DOMAIN born = Blocks, [Next]_vars
  PROVE  RaceInv'
  <1>1. CASE Enqueue_Start
    BY <1>1, EnqueueStartRace
  <1>2. CASE ProducerStep
    BY <1>2, EnqueueWriteRace, EnqueuePublishRace, EnqueueFullRace, EnqueueAdvanceRace,
       EnqueueAllocRace, EnqueueNoMemoryRace, EnqueueLinkRace, EnqueuePublishBlockRace DEF ProducerStep
  <1>3. CASE Dequeue_Start
    BY <1>3, DequeueStartRace
  <1>4. CASE ConsumerStep
    BY <1>4, DequeueTakeRace, DequeueReleaseRace, DequeueCheckTailRace, DequeueRecheckRace,
       DequeueReadNextRace, DequeueCheckNextRace, DequeueMoveFrontRace DEF ConsumerStep
  <1>5. CASE SizeStep
    <2>1. PICK t \in SizeCallers : Size_Start(t) \/ Size_Count(t) \/ Size_Follow(t)
      BY <1>5 DEF SizeStep
    <2>2. t = P
      BY <2>1, SizeCallersAssumption DEF P, C
    <2> QED
      BY <2>1, <2>2, SizeProducerRace
  <1>6. CASE UNCHANGED vars
    <2>1. /\ UNCHANGED memVars /\ pc' = pc /\ call' = call
          /\ UNCHANGED <<allocated, size, slot, born, localFront, localTail>>
      BY <1>6 DEF vars, pVars, cVars, blockVars
    <2>2. Looks(P)
      BY <2>1, Locs, StillLooks DEF Inv
    <2>3. RingSize' = RingSize /\ \A b \in 1 .. allocated : CopiesFront(b)
      BY <2>1 DEF RingSize, CopiesFront
    <2> QED
      BY <2>1, <2>2, <2>3, ProducerLookRace
  <1> QED
    BY <1>1, <1>2, <1>3, <1>4, <1>5, <1>6 DEF Next

\* No thread accesses a slot, and the consumer reads no block, without a release
\* and an acquire fence between that and what the other thread wrote there last,
\* with all the stale indices that relaxed loads may return.
THEOREM NoRace ==
  ASSUME ~ Relaxed \/ C \notin SizeCallers
  PROVE  Spec => []NoDataRace
  <1>1. CASE ~ Relaxed
    <2>1. NoDataRace
      BY <1>1 DEF NoDataRace, Ordered
    <2> QED
      BY <2>1, PTL
  <1>2. CASE Relaxed /\ C \notin SizeCallers
    <2>1. Init => Inv /\ RaceInv /\ DOMAIN born = Blocks
      BY InitInv, InitRace
    <2>2. (Inv /\ RaceInv /\ DOMAIN born = Blocks) /\ [Next]_vars
            => (Inv /\ RaceInv /\ DOMAIN born = Blocks)'
      BY <1>2, NextInv, NextRace, BornKept
    <2>3. Inv /\ RaceInv => NoDataRace
      <3> SUFFICES ASSUME Inv, RaceInv
                   PROVE  NoDataRace
        OBVIOUS
      <3>1. PICK pos : PosInv(pos)
        BY DEF Inv
      <3>2. TypeInv /\ RingInv(pos) /\ ProducerInv(pos)
        BY <3>1 DEF Inv, PosInv
      <3>3. ASSUME NEW b, b \in Ring
            PROVE  Before(slot[b][TailIx(b)], P, seen[P])
        <4>1. b \in 1 .. allocated
          BY <3>2, <3>3, RingBlocks
        <4>2. TailIx(b) \in 0 .. size[b] - 1 /\ localFront[b] \in 0 .. size[b] - 1 /\ size[b] \in Nat
          BY <4>1, BlockFacts
        <4>3. Freed(b)
          BY <4>1 DEF RaceInv, BlockRace
        <4>4. Dist(localFront[b], TailIx(b), size[b]) \in Nat
          BY <4>2, DistNat
        <4> QED
          BY <4>2, <4>3, <4>4 DEF Freed, FreedBy
      <3>4. ASSUME NEW s \in PSlot
            PROVE  Ordered(P, slot[s[1]][s[2]].by, slot[s[1]][s[2]].at)
        <4>1. PICK b \in Ring : s = <<b, TailIx(b)>>
          <5>1. TB \in Ring /\ NextB(TB) \in Ring
            BY <3>2 DEF RingInv
          <5>2. CASE pc[P] = "write"
            BY <3>4, <5>1, <5>2 DEF PSlot, TB, TailIx
          <5>3. CASE pc[P] = "writeNext"
            <6>1. call[P].block \in Ring
              BY <3>2, <5>1, <5>3 DEF ProducerInv, Filling
            <6> QED
              BY <3>4, <5>3, <6>1 DEF PSlot, TailIx
          <5> QED
            BY <3>4, <5>2, <5>3 DEF PSlot
        <4>2. Before(slot[b][TailIx(b)], P, seen[P])
          BY <3>3
        <4> QED
          BY <4>1, <4>2 DEF Ordered, Before
      <3>5. ASSUME NEW s \in CSlot
            PROVE  Ordered(C, slot[s[1]][s[2]].by, slot[s[1]][s[2]].at)
        BY <3>5 DEF CSlot, RaceInv, CallRace, FrontIx, Ordered, Before
      <3>6. pc[C] = "checkNext" => Ordered(C, P, born[call[C].block])
        BY DEF RaceInv, CallRace, Ordered
      <3> QED
        BY <3>4, <3>5, <3>6 DEF NoDataRace
    <2> QED
      BY <2>1, <2>2, <2>3, PTL DEF Spec
  <1> QED
    BY <1>1, <1>2

===============================================================================
