--------------------------- MODULE ReaderWriterQueue ---------------------------
(***************************************************************************)
(* moodycamel::ReaderWriterQueue (libs/readerwriterqueue/                    *)
(* readerwriterqueue.h): a lock-free queue for one producer and one          *)
(* consumer, a circular list of blocks each of which is a circular buffer.   *)
(*                                                                         *)
(* Every access to a variable that the other thread writes or reads is a     *)
(* step of its own; what a thread does between two of them is part of the    *)
(* first.  The shared indices and pointers are weak_atomics (relaxed loads   *)
(* and stores) and the only order is the one that the fences give, so with   *)
(* Relaxed a load may return an old value; without it every load returns     *)
(* the last value stored.                                                  *)
(***************************************************************************)
EXTENDS Integers, Sequences, FiniteSets

CONSTANTS
    MaxSize,        \* the constructor's argument
    MaxBlockSize,   \* MAX_BLOCK_SIZE
    Relaxed,        \* the memory model: C++ relaxed atomics, or one memory
    SizeCallers,    \* the threads that call size_approx
    MaxBlocks,      \* bound: blocks there is memory for
    MaxItems        \* bound: elements enqueued

ASSUME MaxSizeAssumption == MaxSize \in Nat \ {0}
ASSUME MaxBlockSizeAssumption ==
    MaxBlockSize \in Nat /\ \E k \in 1 .. MaxBlockSize : MaxBlockSize = 2 ^ k
ASSUME RelaxedAssumption == Relaxed \in BOOLEAN
ASSUME SizeCallersAssumption == SizeCallers \subseteq {"producer", "consumer"}
ASSUME MaxItemsAssumption == MaxItems \in Nat

\* The least power of two that is not below x.
CeilToPow2(x) ==
    LET k == CHOOSE k \in 0 .. x : 2 ^ k >= x /\ \A j \in 0 .. k - 1 : 2 ^ j < x
    IN  2 ^ k

\* The constructor: one block, or several of MaxBlockSize.
SeveralBlocks == CeilToPow2(MaxSize + 1) > MaxBlockSize * 2
InitialBlockCount_NoSpare == MaxSize \div (MaxBlockSize - 1)
InitialBlockCount == (MaxSize + MaxBlockSize * 2 - 3) \div (MaxBlockSize - 1)
InitialBlocks == IF SeveralBlocks THEN InitialBlockCount ELSE 1
InitialSize == IF SeveralBlocks THEN MaxBlockSize ELSE CeilToPow2(MaxSize + 1)

ASSUME MaxBlocksAssumption == MaxBlocks \in Nat /\ MaxBlocks >= InitialBlocks

P == "producer"
C == "consumer"
Blocks == 1 .. MaxBlocks
Empty == 0      \* a slot that holds no constructed element
None == 0       \* no block

\* The weak_atomics, and the thread that stores to each.
FrontBlock == <<"frontBlock", None>>
TailBlock == <<"tailBlock", None>>
FrontOf(b) == <<"front", b>>
TailOf(b) == <<"tail", b>>
NextOf(b) == <<"next", b>>
Locations ==
    {FrontBlock, TailBlock} \cup ({"front", "tail", "next"} \X Blocks)
Owner(loc) == IF loc[1] \in {"front", "frontBlock"} THEN C ELSE P

VARIABLES
    mem,                    \* by location: the stores the other thread may read
    epoch,                  \* by thread: release fences executed
    acq, seen,              \* by thread: what its loads, and its acquire
                            \*   fences, have shown it of the other's epochs
    allocated,              \* number of blocks that exist
    born,                   \* by block: the epoch in which it was constructed
    size,                   \* by block: sizeMask + 1
    slot,                   \* data, by block and index, and who wrote it last
    largestBlockSize, localFront, localTail,
    pc,                     \* by thread: where it is in its call
    call,                   \* by thread: the call it is in, see NoCall
    sent,                   \* history: elements accepted
    received,               \* history: elements removed, in order
    peeked                  \* history: what peek showed, until it is removed

memVars == <<mem, epoch, acq, seen>>
blockVars == <<allocated, born, size, largestBlockSize>>
pVars == <<blockVars, localFront, sent>>
cVars == <<localTail, received, peeked>>
vars == <<memVars, slot, pc, call, pVars, cVars>>

-------------------------------------------------------------------------------
(***************************************************************************)
(* The memory.  A store belongs to the epoch that its thread's last release  *)
(* fence began.  A load may return any store that the loading thread does    *)
(* not yet know to be overwritten; once it has read a store of epoch e, its  *)
(* next acquire fence makes everything before epoch e known.  The release    *)
(* and acquire fences also keep a store from overtaking an earlier load, so  *)
(* reading in program order loses nothing.                                  *)
(***************************************************************************)
Larger(x, y) == IF x >= y THEN x ELSE y
Newest(loc) == mem[loc][Len(mem[loc])].val
Oldest(loc) == mem[loc][1].val
Readable(loc) == {mem[loc][i].val : i \in DOMAIN mem[loc]}

\* What thread t must know of a location.
Known(t, loc) == IF Owner(loc) = t THEN Newest(loc) ELSE Oldest(loc)

\* A history without the stores that are overwritten in an epoch before e.
Since(h, e) ==
    LET old == {i \in DOMAIN h : h[i].at < e}
    IN  IF old = {} THEN h
        ELSE SubSeq(h, CHOOSE i \in old : \A j \in old : j <= i, Len(h))

\* Thread t has read what shows it epoch a, and knows everything before e; m is
\* the memory it has left itself to read.
Observe(t, a, e, m) ==
    /\ acq' = [acq EXCEPT ![t] = a]
    /\ seen' = [seen EXCEPT ![t] = e]
    /\ mem' = [loc \in Locations |->
                  IF Owner(loc) = t THEN m[loc] ELSE Since(m[loc], e)]
    /\ UNCHANGED epoch

\* fence(memory_order_acquire)
AcquireFence(t, a) == Larger(seen[t], a)

Fence(t) == Observe(t, acq[t], AcquireFence(t, acq[t]), mem)

\* load() of store i of a location, with or without an acquire fence after it.
Load(t, loc, i, fenced) ==
    LET a == Larger(acq[t], mem[loc][i].at)
    IN  Observe(t, a, IF fenced THEN AcquireFence(t, a) ELSE seen[t],
                [mem EXCEPT ![loc] = SubSeq(@, i, Len(@))])

\* operator=, and operator= after fence(memory_order_release).
Put(h, v, e) ==
    IF Relaxed THEN Append(h, [val |-> v, at |-> e]) ELSE <<[val |-> v, at |-> 0]>>

Store(t, loc, v) ==
    /\ mem' = [mem EXCEPT ![loc] = Put(@, v, epoch[t])]
    /\ UNCHANGED <<epoch, acq, seen>>

ReleaseFence(t) == epoch' = IF Relaxed THEN [epoch EXCEPT ![t] = @ + 1] ELSE epoch

StoreReleased_NoFence(t, loc, v) == Store(t, loc, v)
StoreReleased(t, loc, v) ==
    /\ ReleaseFence(t)
    /\ mem' = [mem EXCEPT ![loc] = Put(@, v, epoch'[t])]
    /\ UNCHANGED <<acq, seen>>

\* Something thread w did in epoch e is ordered before what t does next.
Ordered(t, w, e) == ~ Relaxed \/ w = t \/ e < seen[t]

-------------------------------------------------------------------------------
(***************************************************************************)
(* What is in the queue: the elements of the blocks from frontBlock to       *)
(* tailBlock, as given by a value V(loc) for every location.                *)
(***************************************************************************)

\* The slots of block b that hold elements, in order.
Live(V(_), b) == [i \in 1 .. (V(TailOf(b)) - V(FrontOf(b))) % size[b] |->
                     <<b, (V(FrontOf(b)) + i - 1) % size[b]>>]

\* The k-th block after frontBlock.
Hop(V(_), k) == LET h[i \in 0 .. k] == IF i = 0 THEN V(FrontBlock) ELSE V(NextOf(h[i - 1]))
                IN  h[k]

\* How many blocks there are to go from frontBlock to tailBlock.
HopsToTail(V(_)) ==
    CHOOSE k \in 0 .. MaxBlocks : /\ Hop(V, k) = V(TailBlock)
                                  /\ \A j \in 0 .. k - 1 : Hop(V, j) # V(TailBlock)

Positions(V(_)) ==
    LET last == HopsToTail(V)
        upto[k \in 0 .. last] ==
            IF k = 0 THEN Live(V, V(FrontBlock)) ELSE upto[k - 1] \o Live(V, Hop(V, k))
    IN  upto[last]

\* A slot that the consumer has just emptied is still before front's release.
Content ==
    LET at == Positions(Newest)
        values == [i \in DOMAIN at |-> slot[at[i][1]][at[i][2]].val]
    IN  IF values # <<>> /\ Head(values) = Empty THEN Tail(values) ELSE values

Length(t) == Len(Positions(LAMBDA loc : Known(t, loc)))

-------------------------------------------------------------------------------
TypeOK ==
    /\ \A loc \in Locations :
        /\ mem[loc] \in Seq([val : Nat, at : Nat]) /\ mem[loc] # <<>>
        /\ ~ Relaxed => Len(mem[loc]) = 1
        /\ loc[1] \in {"frontBlock", "tailBlock"} => Readable(loc) \subseteq Blocks
        /\ loc[1] = "next" => Readable(loc) \subseteq Blocks \cup {None}
    /\ \A t \in {P, C} : {epoch[t], acq[t], seen[t]} \subseteq Nat
    /\ allocated \in Blocks /\ largestBlockSize \in Nat
    /\ \A b \in 1 .. allocated :
        /\ size[b] \in Nat \ {0} /\ born[b] \in Nat
        /\ Readable(FrontOf(b)) \cup Readable(TailOf(b))
               \cup {localFront[b], localTail[b]} \subseteq 0 .. size[b] - 1
        /\ slot[b] \in [0 .. size[b] - 1 -> [val : Nat, by : {P, C}, at : Nat]]
    /\ pc[P] \in {"idle", "write", "publish", "full", "alloc", "link", "advance",
                  "writeNext", "publishNext", "publishBlock", "count", "follow"}
    /\ pc[C] \in {"idle", "take", "release", "checkTail", "recheck", "readNext",
                  "checkNext", "moveFront", "count", "follow"}
    /\ \A t \in {P, C} :
        /\ call[t].op \in {"none", "enqueue", "try_enqueue", "try_dequeue", "pop",
                           "peek", "size_approx"}
        /\ {call[t].block, call[t].first} \subseteq Blocks \cup {None}
        /\ {call[t].result, call[t].atStart} \subseteq Nat
    /\ sent \in Nat /\ received \in Seq(Nat) /\ peeked \in Nat

\* The local variables of a call: the operation; the block that is to become the
\* tail block, that the element is taken from or that size_approx is at; first
\* and result of size_approx; and, as history, the length of the queue as the
\* thread knew it when the call began.
NoCall == [op |-> "none", block |-> None, first |-> None, result |-> 0, atStart |-> 0]

FreshSlots(n, e) == [i \in 0 .. n - 1 |-> [val |-> Empty, by |-> P, at |-> e]]

\* What a location holds first, before anybody stores to it.
InitialValue(loc) ==
    CASE loc[1] \in {"frontBlock", "tailBlock"} -> 1
      [] loc[1] = "next" /\ loc[2] < InitialBlocks -> loc[2] + 1
      [] loc[1] = "next" /\ loc[2] = InitialBlocks -> 1
      [] OTHER -> 0

Init ==
    /\ mem = [loc \in Locations |-> <<[val |-> InitialValue(loc), at |-> 0]>>]
    /\ epoch = [t \in {P, C} |-> 1]
    /\ acq = [t \in {P, C} |-> 1] /\ seen = [t \in {P, C} |-> 1]
    /\ allocated = InitialBlocks /\ largestBlockSize = InitialSize
    /\ born = [b \in Blocks |-> 0]
    /\ size = [b \in Blocks |-> IF b <= InitialBlocks THEN InitialSize ELSE 0]
    /\ slot = [b \in Blocks |-> FreshSlots(size[b], 0)]
    /\ localFront = [b \in Blocks |-> 0] /\ localTail = [b \in Blocks |-> 0]
    /\ pc = [t \in {P, C} |-> "idle"]
    /\ call = [t \in {P, C} |-> NoCall]
    /\ sent = 0 /\ received = <<>> /\ peeked = Empty

-------------------------------------------------------------------------------
Goto(t, l) == pc' = [pc EXCEPT ![t] = l]

\* A call of thread t begins, goes on (as it was, or with block b), returns.
Begin(t, op, b) ==
    /\ pc[t] = "idle"
    /\ call' = [call EXCEPT ![t] = [NoCall EXCEPT !.op = op, !.block = b, !.first = b,
                                                 !.atStart = Length(t)]]
GoOn(t, l) == Goto(t, l) /\ UNCHANGED call
GoOnWith(t, l, b) == Goto(t, l) /\ call' = [call EXCEPT ![t].block = b]
Return(t) == Goto(t, "idle") /\ call' = [call EXCEPT ![t] = NoCall]

(***************************************************************************)
(* The producer: try_enqueue and enqueue, both inner_enqueue.               *)
(* Operators whose names carry a suffix (_NoSpare, _Never, ...) are mistaken *)
(* variants of the operator that follows them; no action uses them.         *)
(***************************************************************************)
Succ(i, b) == (i + 1) % size[b]

\* A block is full when one slot is left, by a given value of its front.
Full_Never(b, f) == FALSE
Full(b, f) == Succ(Newest(TailOf(b)), b) = f

\* Is a copy of the other thread's index good enough, or must it be read anew?
MustReload_Never(copyShowsNone) == FALSE
MustReload(copyShowsNone) == copyShowsNone

\* Is there room in the tail block?  First by the producer's own copy of front,
\* then by front itself.
Enqueue_Start ==
    LET b == Newest(TailBlock) IN
    /\ sent < MaxItems
    /\ \E op \in {"enqueue", "try_enqueue"} : Begin(P, op, None)
    /\ IF MustReload(Full(b, localFront[b]))
       THEN \E i \in DOMAIN mem[FrontOf(b)] :
                /\ Load(P, FrontOf(b), i, TRUE)
                /\ localFront' = [localFront EXCEPT ![b] = mem[FrontOf(b)][i].val]
       ELSE Fence(P) /\ UNCHANGED localFront
    /\ Goto(P, IF Full(b, localFront'[b]) THEN "full" ELSE "write")
    /\ UNCHANGED <<slot, blockVars, sent, cVars>>

\* An element is constructed in the slot at the tail of block b.
Construct(b) ==
    slot' = [slot EXCEPT ![b][Newest(TailOf(b))] =
                [val |-> sent + 1, by |-> P, at |-> epoch[P]]]

Enqueue_Write ==
    /\ pc[P] = "write"
    /\ Construct(Newest(TailBlock))
    /\ GoOn(P, "publish")
    /\ UNCHANGED <<memVars, pVars, cVars>>

Enqueue_Publish ==
    LET b == Newest(TailBlock) IN
    /\ pc[P] = "publish"
    /\ StoreReleased(P, TailOf(b), Succ(Newest(TailOf(b)), b))
    /\ sent' = sent + 1
    /\ Return(P)
    /\ UNCHANGED <<slot, blockVars, localFront, cVars>>

\* The tail block is full: may the next one be used?
BlockAhead(frontBlock) == Newest(NextOf(Newest(TailBlock))) # frontBlock

Enqueue_Full ==
    /\ pc[P] = "full"
    /\ \E i \in DOMAIN mem[FrontBlock] :
        LET ahead == BlockAhead(mem[FrontBlock][i].val) IN
        /\ Load(P, FrontBlock, i, ahead)
        /\ \/ ahead /\ GoOn(P, "advance")
           \/ ~ ahead /\ call[P].op = "enqueue" /\ GoOn(P, "alloc")
           \/ ~ ahead /\ call[P].op = "try_enqueue" /\ Return(P)
    /\ UNCHANGED <<slot, pVars, cVars>>

\* The next block is free: assert that it is empty, and fill it from its tail.
Enqueue_Advance ==
    LET b == Newest(NextOf(Newest(TailBlock))) IN
    /\ pc[P] = "advance"
    /\ \E i \in DOMAIN mem[FrontOf(b)] :
        /\ Load(P, FrontOf(b), i, TRUE)
        /\ localFront' = [localFront EXCEPT ![b] = mem[FrontOf(b)][i].val]
    /\ GoOnWith(P, "writeNext", b)
    /\ UNCHANGED <<slot, blockVars, sent, cVars>>

Enqueue_WriteNext ==
    /\ pc[P] = "writeNext"
    /\ Construct(call[P].block)
    /\ GoOn(P, "publishNext")
    /\ UNCHANGED <<memVars, pVars, cVars>>

Enqueue_PublishNext ==
    /\ pc[P] = "publishNext"
    /\ Store(P, TailOf(call[P].block), Succ(Newest(TailOf(call[P].block)), call[P].block))
    /\ GoOn(P, "publishBlock")
    /\ UNCHANGED <<slot, pVars, cVars>>

\* make_block, and what the producer writes into the block before it links it;
\* or malloc fails.
NewBlockSize ==
    IF largestBlockSize >= MaxBlockSize THEN largestBlockSize
                                        ELSE largestBlockSize * 2

Enqueue_Alloc ==
    LET b == allocated + 1
        e == epoch[P]
    IN  /\ pc[P] = "alloc"
        /\ b \in Blocks
        /\ allocated' = b
        /\ largestBlockSize' = NewBlockSize
        /\ size' = [size EXCEPT ![b] = NewBlockSize]
        /\ born' = [born EXCEPT ![b] = e]
        /\ slot' = [slot EXCEPT ![b] = [FreshSlots(NewBlockSize, e) EXCEPT
                                            ![0].val = sent + 1]]
        /\ localTail' = [localTail EXCEPT ![b] = 1]
        /\ mem' = [mem EXCEPT
                      ![TailOf(b)] = Put(@, 1, e),
                      ![NextOf(b)] = Put(@, Newest(NextOf(Newest(TailBlock))), e)]
        /\ GoOnWith(P, "link", b)
        /\ UNCHANGED <<epoch, acq, seen, localFront, sent, received, peeked>>

Enqueue_NoMemory ==
    /\ pc[P] = "alloc"
    /\ Return(P)
    /\ UNCHANGED <<memVars, slot, pVars, cVars>>

Enqueue_Link ==
    /\ pc[P] = "link"
    /\ Store(P, NextOf(Newest(TailBlock)), call[P].block)
    /\ GoOn(P, "publishBlock")
    /\ UNCHANGED <<slot, pVars, cVars>>

\* The last store of both ways of leaving a full block.
Enqueue_PublishBlock ==
    /\ pc[P] = "publishBlock"
    /\ StoreReleased(P, TailBlock, call[P].block)
    /\ sent' = sent + 1
    /\ Return(P)
    /\ UNCHANGED <<slot, blockVars, localFront, cVars>>

-------------------------------------------------------------------------------
(***************************************************************************)
(* The consumer: try_dequeue, pop and peek, which differ only in what they   *)
(* do with the element they find.                                           *)
(***************************************************************************)

\* Is there an element in the front block?  First by the consumer's own copy of
\* tail, then by tail itself.
Dequeue_Start ==
    LET b == Newest(FrontBlock)
        f == Newest(FrontOf(b))
    IN  /\ \E op \in {"try_dequeue", "pop", "peek"} : Begin(C, op, b)
        /\ IF MustReload(f = localTail[b])
           THEN \E i \in DOMAIN mem[TailOf(b)] :
                    /\ Load(C, TailOf(b), i, f # mem[TailOf(b)][i].val)
                    /\ localTail' = [localTail EXCEPT ![b] = mem[TailOf(b)][i].val]
           ELSE Fence(C) /\ UNCHANGED localTail
        /\ Goto(C, IF f = localTail'[b] THEN "checkTail" ELSE "take")
        /\ UNCHANGED <<slot, received, peeked, pVars>>

\* The element at the front of call[C].block: moved out and destroyed, or only shown.
Dequeue_Take ==
    LET f == Newest(FrontOf(call[C].block))
        element == slot[call[C].block][f].val
    IN  /\ pc[C] = "take"
        /\ \/ /\ call[C].op = "peek"
              /\ peeked' = element
              /\ Return(C)
              /\ UNCHANGED <<slot, received>>
           \/ /\ call[C].op # "peek"
              /\ received' = Append(received, element)
              /\ peeked' = Empty
              /\ slot' = [slot EXCEPT ![call[C].block][f] =
                            [val |-> Empty, by |-> C, at |-> epoch[C]]]
              /\ GoOn(C, "release")
        /\ UNCHANGED <<memVars, localTail, pVars>>

Dequeue_Release ==
    /\ pc[C] = "release"
    /\ StoreReleased(C, FrontOf(call[C].block), Succ(Newest(FrontOf(call[C].block)), call[C].block))
    /\ Return(C)
    /\ UNCHANGED <<slot, pVars, cVars>>

\* The front block looked empty: is it also the tail block?
AtTail_Never(tailBlock) == FALSE
AtTail(tailBlock) == Newest(FrontBlock) = tailBlock

Dequeue_CheckTail ==
    /\ pc[C] = "checkTail"
    /\ \E i \in DOMAIN mem[TailBlock] :
        LET here == AtTail(mem[TailBlock][i].val) IN
        /\ Load(C, TailBlock, i, ~ here)
        /\ \/ here /\ Return(C)
           \/ ~ here /\ GoOn(C, "recheck")
    /\ UNCHANGED <<slot, pVars, cVars>>

\* Only now is an empty front block known to stay empty: look again.
AfterRecheck_Trusting(f, t) == "readNext"
AfterRecheck(f, t) == IF f # t THEN "take" ELSE "readNext"

Dequeue_Recheck ==
    LET b == Newest(FrontBlock) IN
    /\ pc[C] = "recheck"
    /\ \E i \in DOMAIN mem[TailOf(b)] :
        /\ Load(C, TailOf(b), i, TRUE)
        /\ localTail' = [localTail EXCEPT ![b] = mem[TailOf(b)][i].val]
    /\ GoOn(C, AfterRecheck(Newest(FrontOf(b)), localTail'[b]))
    /\ UNCHANGED <<slot, received, peeked, pVars>>

Dequeue_ReadNext ==
    LET loc == NextOf(Newest(FrontBlock)) IN
    /\ pc[C] = "readNext"
    /\ \E i \in DOMAIN mem[loc] :
        Load(C, loc, i, FALSE) /\ GoOnWith(C, "checkNext", mem[loc][i].val)
    /\ UNCHANGED <<slot, pVars, cVars>>

\* assert that the next block has an element.  peek, which stops at that block,
\* has its fence before the load of tail, the others after it.
Dequeue_CheckNext ==
    /\ pc[C] = "checkNext"
    /\ \/ call[C].op = "peek" /\ Fence(C) /\ GoOn(C, "take") /\ UNCHANGED localTail
       \/ \E i \in DOMAIN mem[TailOf(call[C].block)] :
            /\ call[C].op # "peek"
            /\ Load(C, TailOf(call[C].block), i, TRUE)
            /\ localTail' = [localTail EXCEPT ![call[C].block] = mem[TailOf(call[C].block)][i].val]
            /\ GoOn(C, "moveFront")
    /\ UNCHANGED <<slot, received, peeked, pVars>>

\* The producer may use the old front block from now on.
Dequeue_MoveFront ==
    /\ pc[C] = "moveFront"
    /\ StoreReleased(C, FrontBlock, call[C].block)
    /\ GoOn(C, "take")
    /\ UNCHANGED <<slot, pVars, cVars>>

-------------------------------------------------------------------------------
(***************************************************************************)
(* size_approx, which both threads may call: the lengths of the blocks,      *)
(* added up along the ring.  Each thread loads what the other one owns.     *)
(***************************************************************************)
Size_Start(t) ==
    /\ t \in SizeCallers
    /\ \E i \in DOMAIN mem[FrontBlock] :
        /\ t = C => i = Len(mem[FrontBlock])
        /\ IF t = P THEN Load(P, FrontBlock, i, TRUE) ELSE Fence(C)
        /\ Begin(t, "size_approx", mem[FrontBlock][i].val)
    /\ Goto(t, "count")
    /\ UNCHANGED <<slot, pVars, cVars>>

\* The length of a block by its front and its tail.
BlockLength_NoMask(b, f, l) == IF f <= l THEN l - f ELSE 0
BlockLength(b, f, l) == (l - f) % size[b]

Size_Count(t) ==
    LET b == call[t].block
        loc == IF t = P THEN FrontOf(b) ELSE TailOf(b)
    IN  /\ pc[t] = "count"
        /\ \E i \in DOMAIN mem[loc] :
            LET v == mem[loc][i].val
                n == IF t = P THEN BlockLength(b, v, Newest(TailOf(b)))
                              ELSE BlockLength(b, Newest(FrontOf(b)), v)
            IN  /\ Load(t, loc, i, FALSE)
                /\ call' = [call EXCEPT ![t].result = @ + n]
        /\ Goto(t, "follow")
        /\ UNCHANGED <<slot, pVars, cVars>>

\* The next block, or the end; the fence is the one at the head of the loop.
Size_Follow(t) ==
    LET loc == NextOf(call[t].block) IN
    /\ pc[t] = "follow"
    /\ \E i \in DOMAIN mem[loc] :
        LET b == mem[loc][i].val
            end == b = call[t].first
        IN  /\ t = P => i = Len(mem[loc])
            /\ CASE t = C -> Load(C, loc, i, ~ end)
                 [] t = P /\ ~ end -> Fence(P)
                 [] OTHER -> UNCHANGED memVars
            /\ IF end THEN Return(t) ELSE GoOnWith(t, "count", b)
    /\ UNCHANGED <<slot, pVars, cVars>>

-------------------------------------------------------------------------------
ProducerStep ==
    \/ Enqueue_Write \/ Enqueue_Publish \/ Enqueue_Full \/ Enqueue_Advance
    \/ Enqueue_WriteNext \/ Enqueue_PublishNext \/ Enqueue_Alloc
    \/ Enqueue_NoMemory \/ Enqueue_Link \/ Enqueue_PublishBlock

ConsumerStep ==
    \/ Dequeue_Take \/ Dequeue_Release \/ Dequeue_CheckTail \/ Dequeue_Recheck
    \/ Dequeue_ReadNext \/ Dequeue_CheckNext \/ Dequeue_MoveFront

SizeStep == \E t \in SizeCallers : Size_Start(t) \/ Size_Count(t) \/ Size_Follow(t)

Next == Enqueue_Start \/ ProducerStep \/ Dequeue_Start \/ ConsumerStep \/ SizeStep

Spec == Init /\ [][Next]_vars

-------------------------------------------------------------------------------
(***************************************************************************)
(* Correctness.                                                             *)
(***************************************************************************)

\* The slot each thread is about to access, if any.
PSlot ==
    CASE pc[P] = "write" -> {<<Newest(TailBlock), Newest(TailOf(Newest(TailBlock)))>>}
      [] pc[P] = "writeNext" -> {<<call[P].block, Newest(TailOf(call[P].block))>>}
      [] OTHER -> {}
CSlot == IF pc[C] = "take" THEN {<<call[C].block, Newest(FrontOf(call[C].block))>>} ELSE {}

\* An element is never constructed over one that has not been destroyed, nor
\* moved out of a slot that holds none; so the two threads never touch the same
\* slot at the same time.
SlotsUsedProperly ==
    /\ \A s \in PSlot : slot[s[1]][s[2]].val = Empty
    /\ \A s \in CSlot : slot[s[1]][s[2]].val # Empty

\* Slots, and the members of Block that are not atomic, are ordered by the
\* fences alone: whatever the other thread wrote there last happened before the
\* access.  A slot is written again only after its destruction was released, and
\* a block that the consumer steps into was constructed in an epoch it has seen.
NoDataRace ==
    /\ \A s \in PSlot : Ordered(P, slot[s[1]][s[2]].by, slot[s[1]][s[2]].at)
    /\ \A s \in CSlot : Ordered(C, slot[s[1]][s[2]].by, slot[s[1]][s[2]].at)
    /\ pc[C] = "checkNext" => Ordered(C, P, born[call[C].block])

\* The assertions of the code, for every value its loads may return: a consumer
\* that leaves its block finds an element in the next one (nextBlockFront !=
\* nextBlockTail), and a block that the producer reuses has been emptied
\* (nextBlockFront == nextBlockTail).
AssertionsHold ==
    /\ pc[C] = "checkNext" =>
        call[C].block # None /\ Newest(FrontOf(call[C].block)) \notin Readable(TailOf(call[C].block))
    /\ pc[P] = "advance" =>
        LET b == Newest(NextOf(Newest(TailBlock)))
        IN  b # Newest(FrontBlock) /\ Readable(FrontOf(b)) = {Newest(TailOf(b))}

\* A step by which thread t returns from a given point of its call.
ReturnsFrom(t, l) == pc[t] = l /\ pc'[t] = "idle"

\* try_dequeue, pop and peek say "empty" only if the queue was empty, as far as
\* the consumer had to know, when they were called, although they look at the
\* indices of one block and at tailBlock at different times.
EmptyIsHonest == [][ReturnsFrom(C, "checkTail") => call[C].atStart = 0]_vars

\* try_enqueue refuses only if the queue held, as far as the producer had to
\* know when it was called, at least the maxSize elements that the constructor
\* promises room for (an element counts until its dequeue has released the slot).
FullIsHonest == [][ReturnsFrom(P, "full") => call[P].atStart >= MaxSize]_vars

\* size_approx returns a length between the one its caller knew at the start and
\* the one the queue has at the end: the other thread only adds during a call of
\* the consumer and only removes during one of the producer.  (The consumer also
\* counts an element whose block is not yet published.)
SizeIsHonest ==
    [][/\ ReturnsFrom(C, "follow") =>
            call[C].result \in call[C].atStart .. sent - Len(received)
                                    + (IF pc[P] = "publishBlock" THEN 1 ELSE 0)
       /\ ReturnsFrom(P, "follow") =>
            call[P].result \in Len(Positions(Newest)) .. call[P].atStart]_vars

\* "Safe to call from both the producer and consumer threads", says the comment
\* of size_approx: every block it looks into was constructed before.
SizeApproxIsSafe == pc[C] = "count" => Ordered(C, P, born[call[C].block])

\* What peek showed stays the next element to be removed.
PeekIsNext == peeked # Empty => Content # <<>> /\ Head(Content) = peeked

\* The slots on which the destructor runs ~T: in every block of the ring, the
\* ones from front to tail.
Destroyed(b) == {Live(Newest, b)[i] : i \in DOMAIN Live(Newest, b)}
DestructorVisits_FrontBlock == Destroyed(Newest(FrontBlock))
DestructorVisits == UNION {Destroyed(Hop(Newest, k)) : k \in 0 .. allocated - 1}

\* Between calls the destructor would destroy every element that is still in a
\* slot, and nothing else.
DestructorIsExact ==
    pc = [t \in {P, C} |-> "idle"] =>
        DestructorVisits =
            {s \in UNION {{b} \X (0 .. size[b] - 1) : b \in 1 .. allocated} :
                slot[s[1]][s[2]].val # Empty}

\* The lock-free queue implements the sequential one: an enqueue takes effect
\* when it publishes tail or tailBlock, a dequeue when it moves the element out.
Fifo == INSTANCE SpscFifo WITH queue <- Content
ImplementsFifo == Fifo!Spec

===============================================================================
