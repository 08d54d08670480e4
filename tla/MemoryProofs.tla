---------------------------- MODULE MemoryProofs ----------------------------
(***************************************************************************)
(* Proofs about Memory, for every heap, header and set of requests.  The     *)
(* block list partitions the heap because each block ends where the next     *)
(* begins and no other begins in between; what a loop still has to visit     *)
(* lies at or after its cursor, which is what makes one pass enough.         *)
(***************************************************************************)
EXTENDS Memory, Induction, FiniteSetTheorems

\* No block reaches past the heap.
InHeap == \A a \in DOMAIN heap : After(a) <= HEAP

\* The list exists once there was a call; a loop's cursor is a block of it.
CallInList ==
  /\ head = NULL => DOMAIN heap = {}
  /\ call.op # "none" => head = 0
  /\ call.current # NULL => call.current \in DOMAIN heap
  /\ call.op = "malloc" => call.size \in Requests /\ call.size > 0

\* What a search has passed does not fit.
Passed ==
  call.op = "malloc" =>
    \A a \in DOMAIN heap : call.current = NULL \/ a < call.current => ~Fits(heap[a])

Neighbours(a) ==
  /\ heap[a].free = TRUE
  /\ heap[a].next # NULL
  /\ heap[heap[a].next].free = TRUE

\* Free neighbours are left only where a release has yet to look.
JoinAhead ==
  \A a \in DOMAIN heap :
    Neighbours(a) => call.op = "free" /\ call.current # NULL /\ a >= call.current

IInv ==
  TypeOK /\ Chained /\ HeldBlocks /\ InHeap /\ CallInList /\ Passed /\ JoinAhead

-----------------------------------------------------------------------------
(* Facts used in several places.                                            *)

\* Rounding up to a multiple of eight (memory.c:6-8) loses nothing.
LEMMA AlignUp ==
  ASSUME NEW n \in Nat
  PROVE  align8(n) \in Nat /\ align8(n) >= n
<1>1. n + 7 \in Nat /\ (n + 7) \div 8 \in Nat
  OBVIOUS
<1>2. 8 * ((n + 7) \div 8) + 7 >= n + 7
  OBVIOUS
<1>. QED BY <1>1, <1>2 DEF align8

\* What the type of the heap says of one block.
LEMMA BlockAt ==
  ASSUME TypeOK, NEW a \in DOMAIN heap
  PROVE  /\ a \in Nat
         /\ heap[a].size \in Nat
         /\ heap[a].free \in BOOLEAN
         /\ heap[a].next \in Nat \cup {NULL}
         /\ heap[a] = [size |-> heap[a].size, free |-> heap[a].free, next |-> heap[a].next]
<1>1. a \in Nat /\ heap[a] \in Block
  BY DEF TypeOK
<1>. QED BY <1>1 DEF Block

\* A step of a loop that moves the cursor to the next block passes one block.
LEMMA NextIsNearest ==
  ASSUME TypeOK, Chained, InHeap, NEW c \in DOMAIN heap, NEW a \in DOMAIN heap
  PROVE  /\ heap[c].next # NULL => (heap[c].next \in DOMAIN heap /\ c < heap[c].next)
         /\ heap[c].next # NULL => (a < heap[c].next <=> a <= c)
         /\ heap[c].next = NULL => a <= c
<1>1. /\ c \in Nat /\ a \in Nat /\ heap[c].size \in Nat /\ heap[a].size \in Nat
      /\ HEADER \in Nat /\ HEADER > 0
  BY BlockAt, MemoryAssumption
<1>2. /\ c < a => After(c) <= a
      /\ After(a) <= HEAP
  BY DEF Chained, InHeap
<1>3. heap[c].next # NULL => heap[c].next = After(c) /\ After(c) \in DOMAIN heap
  BY DEF Chained
<1>4. heap[c].next = NULL => After(c) = HEAP
  <2>1. After(c) \in Nat
    BY <1>1 DEF After
  <2>. QED BY <2>1, MemoryAssumption DEF Chained
<1>. QED BY <1>1, <1>2, <1>3, <1>4, MemoryAssumption DEF After
-----------------------------------------------------------------------------
(* The invariant is inductive.                                              *)

LEMMA InitInv == Init => IInv
<1>. SUFFICES ASSUME Init PROVE IInv
  OBVIOUS
<1>1. DOMAIN heap = {} /\ DOMAIN live = {} /\ head = NULL /\ call = NoCall /\ reply = NULL
  BY DEF Init
<1>2. heap \in [DOMAIN heap -> Block] /\ live \in [DOMAIN live -> Nat]
  BY <1>1, Zenon DEF Init
<1>3. head # 0 /\ call.op = "none" /\ call.current = NULL
  BY <1>1, MemoryAssumption DEF NoCall
<1>4. call \in Call
  BY <1>1 DEF NoCall, Call
<1>5. TypeOK
  BY <1>1, <1>2, <1>4 DEF TypeOK
<1>. QED
  BY <1>1, <1>3, <1>5 DEF IInv, Chained, HeldBlocks, InHeap, CallInList, Passed, JoinAhead

\* The first call makes one free block of the whole heap (memory.c:21-23).
LEMMA FirstCall ==
  ASSUME IInv, NEW size \in Requests, os_malloc(size), head = NULL
  PROVE  IInv'
<1>. USE MemoryAssumption
<1>1. /\ DOMAIN heap = {} /\ DOMAIN heap' = {0} /\ head' = 0
      /\ heap'[0] = InitialBlock
      /\ call' = [op |-> "malloc", size |-> size, current |-> 0]
      /\ live' = live /\ reply' = reply
      /\ size \in Nat /\ size > 0
  BY DEF IInv, CallInList, os_malloc, memory_init
<1>2. DOMAIN live = {}
  BY <1>1 DEF IInv, HeldBlocks
<1>3. HEAP - HEADER \in Nat /\ InitialBlock \in Block
  BY DEF InitialBlock, Block
<1>4. call'.op = "malloc" /\ call'.size = size /\ call'.current = 0 /\ call' \in Call
  BY <1>1 DEF Call
<1>5. heap' \in [DOMAIN heap' -> Block]
  BY <1>1, <1>3 DEF os_malloc, memory_init
<1>6. TypeOK'
  BY <1>1, <1>4, <1>5 DEF IInv, TypeOK
<1>7. /\ heap'[0].size = HEAP - HEADER
      /\ heap'[0].next = NULL
      /\ heap'[0].free = TRUE
  BY <1>1 DEF InitialBlock
<1>8. Chained' /\ InHeap'
  BY <1>1, <1>3, <1>7 DEF Chained, InHeap, After
<1>9. HeldBlocks'
  BY <1>1, <1>2, <1>7 DEF HeldBlocks
<1>10. CallInList'
  BY <1>1, <1>4 DEF CallInList
<1>11. Passed' /\ JoinAhead'
  BY <1>1, <1>4, <1>7 DEF Passed, JoinAhead, Neighbours
<1>. QED BY <1>6, <1>8, <1>9, <1>10, <1>11 DEF IInv

\* Steps that leave the list and what is held alone: what is left to show is
\* about the cursor.
LEMMA CursorMoves ==
  ASSUME IInv, UNCHANGED <<heap, head, live>>,
         call' \in Call, reply' \in Nat \cup {NULL},
         CallInList', Passed', JoinAhead'
  PROVE  IInv'
<1>1. TypeOK'
  BY DEF IInv, TypeOK
<1>2. Chained' /\ InHeap'
  BY DEF IInv, Chained, InHeap, After
<1>3. HeldBlocks'
  BY DEF IInv, HeldBlocks
<1>. QED BY <1>1, <1>2, <1>3 DEF IInv

LEMMA LaterCall ==
  ASSUME IInv, NEW size \in Requests, os_malloc(size), head # NULL
  PROVE  IInv'
<1>1. /\ UNCHANGED <<heap, head, live, reply>> /\ head = 0
      /\ call' = [op |-> "malloc", size |-> size, current |-> 0]
      /\ size \in Nat /\ size > 0
  BY MemoryAssumption DEF os_malloc, IInv, TypeOK
<1>2. call'.op = "malloc" /\ call'.size = size /\ call'.current = 0 /\ call' \in Call
  BY <1>1 DEF Call
<1>3. CallInList'
  BY <1>1, <1>2, MemoryAssumption DEF IInv, CallInList, Chained
<1>4. Passed'
  <2>1. \A a \in DOMAIN heap : ~(a < 0)
    BY DEF IInv, TypeOK
  <2>. QED BY <1>1, <1>2, <2>1, MemoryAssumption DEF Passed
<1>5. JoinAhead'
  <2>1. \A a \in DOMAIN heap : ~Neighbours(a)
    BY DEF os_malloc, Idle, IInv, JoinAhead
  <2>. QED BY <1>1, <2>1 DEF JoinAhead, Neighbours
<1>. QED BY <1>1, <1>2, <1>3, <1>4, <1>5, CursorMoves DEF IInv, TypeOK

\* A call that is over leaves no neighbours behind.
LEMMA CallEnds ==
  ASSUME IInv, UNCHANGED <<heap, head, live>>, call' = NoCall, reply' \in Nat \cup {NULL},
         \A a \in DOMAIN heap : ~Neighbours(a)
  PROVE  IInv'
<1>1. call'.op = "none" /\ call'.current = NULL /\ call' \in Call
  BY DEF NoCall, Call
<1>2. CallInList' /\ Passed' /\ JoinAhead'
  BY <1>1 DEF IInv, CallInList, Passed, JoinAhead, Neighbours
<1>. QED BY <1>1, <1>2, CursorMoves

\* Only the loop of a release leaves neighbours, and only ahead of its cursor.
LEMMA NoNeighboursElse ==
  ASSUME IInv, call.op # "free" \/ call.current = NULL
  PROVE  \A a \in DOMAIN heap : ~Neighbours(a)
BY DEF IInv, JoinAhead

LEMMA MallocSkip == ASSUME IInv, malloc_skip PROVE IInv'
<1>. DEFINE c == call.current
<1>1. /\ call.op = "malloc" /\ c \in DOMAIN heap
      /\ UNCHANGED <<heap, head, live, reply>>
      /\ call' = [call EXCEPT !.current = heap[c].next]
      /\ ~Fits(heap[c])
  BY DEF malloc_skip, Searching, IInv, CallInList, current, NextBlock
<1>2. call \in Call /\ heap[c].next \in Nat \cup {NULL}
  BY <1>1, BlockAt DEF IInv, TypeOK
<1>3. /\ call'.op = "malloc" /\ call'.size = call.size /\ call'.current = heap[c].next
      /\ call' \in Call
  BY <1>1, <1>2 DEF Call
<1>4. CallInList'
  BY <1>1, <1>3, NextIsNearest DEF IInv, CallInList
<1>5. Passed'
  <2>1. ASSUME NEW a \in DOMAIN heap, heap[c].next = NULL \/ a < heap[c].next
        PROVE  ~Fits(heap[a])
    <3>1. a <= c
      BY <1>1, <2>1, NextIsNearest DEF IInv
    <3>2. CASE a = c
      BY <1>1, <3>2
    <3>3. CASE a # c
      <4>1. a < c
        BY <1>1, <3>1, <3>3 DEF IInv, TypeOK
      <4>. QED BY <1>1, <4>1 DEF IInv, Passed
    <3>. QED BY <3>2, <3>3
  <2>. QED BY <1>1, <1>3, <2>1 DEF Passed, Fits, Request
<1>6. JoinAhead'
  BY <1>1, NoNeighboursElse DEF JoinAhead, Neighbours
<1>. QED BY <1>1, <1>3, <1>4, <1>5, <1>6, CursorMoves DEF IInv, TypeOK

LEMMA MallocFail == ASSUME IInv, malloc_fail PROVE IInv'
BY CallEnds, NoNeighboursElse DEF malloc_fail

LEMMA FreeDone == ASSUME IInv, free_done PROVE IInv'
<1>1. call.op = "free" /\ ~Joining /\ call' = NoCall /\ UNCHANGED <<heap, head, live, reply>>
  BY DEF free_done
<1>2. CASE call.current = NULL
  BY <1>1, <1>2, CallEnds, NoNeighboursElse DEF IInv, TypeOK
<1>3. CASE call.current # NULL
  <2>1. call.current \in DOMAIN heap /\ heap[call.current].next = NULL
    BY <1>1, <1>3 DEF Joining, current, IInv, CallInList
  <2>2. ASSUME NEW a \in DOMAIN heap PROVE ~Neighbours(a)
    <3>1. a <= call.current
      BY <2>1, NextIsNearest DEF IInv
    <3>2. a = call.current => ~Neighbours(a)
      BY <2>1 DEF Neighbours
    <3>3. a < call.current => ~Neighbours(a)
      BY <2>1 DEF IInv, JoinAhead, TypeOK
    <3>. QED BY <2>1, <3>1, <3>2, <3>3 DEF IInv, TypeOK
  <2>. QED BY <1>1, <2>2, CallEnds DEF IInv, TypeOK
<1>. QED BY <1>2, <1>3

LEMMA FreeSkip == ASSUME IInv, free_skip PROVE IInv'
<1>. DEFINE c == call.current
<1>1. /\ call.op = "free" /\ c \in DOMAIN heap /\ heap[c].next # NULL
      /\ UNCHANGED <<heap, head, live, reply>>
      /\ call' = [call EXCEPT !.current = heap[c].next]
  BY DEF free_skip, Joining, IInv, CallInList, current, NextBlock
<1>2. ~Neighbours(c)
  BY DEF free_skip, MayMerge, current, Neighbours
<1>3. call \in Call /\ heap[c].next \in DOMAIN heap
  BY <1>1, NextIsNearest DEF IInv, TypeOK
<1>4. /\ call'.op = "free" /\ call'.current = heap[c].next
      /\ call' \in Call
  BY <1>1, <1>3 DEF Call, IInv, TypeOK
<1>5. CallInList'
  BY <1>1, <1>3, <1>4 DEF IInv, CallInList
<1>6. Passed'
  BY <1>4 DEF Passed
<1>7. JoinAhead'
  <2>1. ASSUME NEW a \in DOMAIN heap, Neighbours(a) PROVE a >= heap[c].next
    <3>1. a >= c /\ a # c
      BY <1>1, <1>2, <2>1 DEF IInv, JoinAhead
    <3>. QED BY <1>1, <1>3, <3>1, NextIsNearest DEF IInv, TypeOK
  <2>2. heap[c].next # NULL
    BY <1>1
  <2>. QED BY <1>1, <1>4, <2>1, <2>2 DEF JoinAhead, Neighbours
<1>. QED BY <1>1, <1>4, <1>5, <1>6, <1>7, CursorMoves DEF IInv, TypeOK
-----------------------------------------------------------------------------
(* A search that takes a block.                                             *)

LEMMA TakenBlock ==
  ASSUME IInv, malloc_take
  PROVE  /\ call.op = "malloc" /\ call.current \in DOMAIN heap /\ call.current \in Nat
         /\ call.size \in Nat /\ call.size > 0 /\ call.size \in Requests
         /\ Request \in Nat /\ Request >= call.size
         /\ heap[call.current].free = TRUE
         /\ heap[call.current].size \in Nat /\ heap[call.current].size >= Request
         /\ reply' = call.current + HEADER /\ reply' \in Nat /\ reply' \notin DOMAIN live
<1>1. call.op = "malloc" /\ call.current \in DOMAIN heap /\ Fits(heap[call.current])
  BY DEF malloc_take, Searching, current, IInv, CallInList
<1>2. /\ call.current \in Nat
      /\ heap[call.current].size \in Nat /\ heap[call.current].free \in BOOLEAN
  BY <1>1, BlockAt DEF IInv
<1>3. call.size \in Nat /\ call.size > 0 /\ call.size \in Requests
  BY <1>1 DEF IInv, TypeOK, Call, CallInList
<1>4. Request \in Nat /\ Request >= call.size
  BY <1>3, AlignUp DEF Request
<1>5. heap[call.current].free = TRUE
  BY <1>1, <1>2, Zenon DEF Fits
<1>6. heap[call.current].size >= Request
  BY <1>1 DEF Fits
<1>7. reply' = call.current + HEADER /\ reply' \in Nat
  BY <1>2, MemoryAssumption DEF malloc_take
<1>8. reply' - HEADER = call.current
  BY <1>2, <1>7, MemoryAssumption
<1>9. reply' \notin DOMAIN live
  BY <1>5, <1>8, Zenon DEF IInv, HeldBlocks
<1>. QED BY <1>1, <1>2, <1>3, <1>4, <1>5, <1>6, <1>7, <1>9

\* What a caller holds after a block was taken, whichever way it was cut.
LEMMA TakenIsHeld ==
  ASSUME IInv, malloc_take,
         DOMAIN heap \subseteq DOMAIN heap',
         heap'[call.current].free = FALSE,
         heap'[call.current].size >= Request, heap'[call.current].size \in Nat,
         \A a \in DOMAIN heap : a # call.current => heap'[a] = heap[a],
         \A a \in DOMAIN heap' \ DOMAIN heap : heap'[a].free = TRUE
  PROVE  HeldBlocks'
<1>. DEFINE c == call.current
<1>1. /\ live' = [p \in DOMAIN live \cup {reply'} |-> IF p = reply' THEN call.size ELSE live[p]]
      /\ DOMAIN live' = DOMAIN live \cup {reply'}
  BY DEF malloc_take
<1>2. /\ c \in DOMAIN heap /\ c \in Nat /\ reply' = c + HEADER /\ reply' - HEADER = c
      /\ call.size \in Nat /\ Request \in Nat /\ Request >= call.size /\ heap[c].free = TRUE
  <2>1. /\ c \in DOMAIN heap /\ c \in Nat /\ reply' = c + HEADER
        /\ call.size \in Nat /\ Request \in Nat /\ Request >= call.size /\ heap[c].free = TRUE
    BY TakenBlock
  <2>2. reply' - HEADER = c
    <3>1. c \in Nat /\ reply' = c + HEADER
      BY <2>1
    <3>. QED BY <3>1, MemoryAssumption
  <2>. QED BY <2>1, <2>2
<1>3. ASSUME NEW p \in DOMAIN live'
      PROVE  /\ p - HEADER \in DOMAIN heap' /\ ~heap'[p - HEADER].free
             /\ live'[p] <= heap'[p - HEADER].size
  <2>1. CASE p = reply'
    <3>1. live'[p] = call.size
      BY <1>1, <2>1
    <3>. QED BY <1>2, <2>1, <3>1
  <2>2. CASE p # reply'
    <3>1. p \in DOMAIN live /\ live'[p] = live[p]
      BY <1>1, <2>2
    <3>2. p - HEADER \in DOMAIN heap /\ ~heap[p - HEADER].free /\ live[p] <= heap[p - HEADER].size
      BY <3>1 DEF IInv, HeldBlocks
    <3>3. p - HEADER # c
      BY <1>2, <3>2, Zenon
    <3>. QED BY <3>1, <3>2, <3>3, Zenon
  <2>. QED BY <2>1, <2>2
<1>4. ASSUME NEW a \in DOMAIN heap', ~heap'[a].free PROVE a + HEADER \in DOMAIN live'
  <2>1. a \in DOMAIN heap
    BY <1>4, Zenon
  <2>2. CASE a = c
    BY <1>1, <1>2, <2>2
  <2>3. CASE a # c
    <3>1. heap'[a] = heap[a]
      BY <2>1, <2>3
    <3>2. a + HEADER \in DOMAIN live
      BY <1>4, <2>1, <3>1 DEF IInv, HeldBlocks
    <3>. QED BY <1>1, <3>2
  <2>. QED BY <2>2, <2>3
<1>. QED BY <1>3, <1>4, Zenon DEF HeldBlocks

LEMMA TakenTypes ==
  ASSUME IInv, malloc_take, DOMAIN heap' \subseteq Nat, heap' \in [DOMAIN heap' -> Block]
  PROVE  TypeOK'
<1>1. /\ call' = NoCall /\ head' = head
      /\ live' = [p \in DOMAIN live \cup {reply'} |-> IF p = reply' THEN call.size ELSE live[p]]
  BY DEF malloc_take
<1>2. reply' \in Nat /\ call.size \in Nat
  BY TakenBlock
<1>3. call' \in Call
  BY <1>1 DEF NoCall, Call
<1>4. DOMAIN live' \subseteq Nat /\ live' \in [DOMAIN live' -> Nat]
  BY <1>1, <1>2 DEF IInv, TypeOK
<1>. QED BY <1>1, <1>2, <1>3, <1>4 DEF IInv, TypeOK

\* A block too small to be split is taken whole.
LEMMA TakeWhole == ASSUME IInv, malloc_take, ~Splits PROVE IInv'
<1>. DEFINE c == call.current
<1>1. /\ heap' = [heap EXCEPT ![c].free = FALSE] /\ head' = head /\ call' = NoCall
  BY DEF malloc_take
<1>2. c \in DOMAIN heap /\ heap[c].free = TRUE /\ heap[c].size \in Nat /\ heap[c].size >= Request
  BY TakenBlock
<1>3. heap[c] = [size |-> heap[c].size, free |-> heap[c].free, next |-> heap[c].next]
      /\ heap[c].next \in Nat \cup {NULL}
  BY <1>2, BlockAt DEF IInv
<1>4. /\ DOMAIN heap' = DOMAIN heap
      /\ heap'[c] = [size |-> heap[c].size, free |-> FALSE, next |-> heap[c].next]
      /\ \A a \in DOMAIN heap : a # c => heap'[a] = heap[a]
  BY <1>1, <1>2, <1>3
<1>5. /\ heap'[c].size = heap[c].size /\ heap'[c].next = heap[c].next /\ heap'[c].free = FALSE
  BY <1>4
<1>6. heap' \in [DOMAIN heap' -> Block]
  <2>1. heap'[c] \in Block
    BY <1>2, <1>3, <1>4 DEF Block
  <2>. QED BY <1>1, <1>4, <2>1 DEF IInv, TypeOK
<1>7. TypeOK'
  BY <1>4, <1>6, TakenTypes DEF IInv, TypeOK
<1>8. \A a \in DOMAIN heap : heap'[a].size = heap[a].size /\ heap'[a].next = heap[a].next
  BY <1>4, <1>5
<1>9. Chained' /\ InHeap'
  BY <1>1, <1>4, <1>8 DEF IInv, Chained, InHeap, After
<1>10. HeldBlocks'
  BY <1>2, <1>4, <1>5, TakenIsHeld
<1>11. call'.op = "none" /\ call'.current = NULL
  BY <1>1 DEF NoCall
<1>12. CallInList' /\ Passed'
  BY <1>1, <1>4, <1>11 DEF IInv, CallInList, Passed
<1>13. JoinAhead'
  <2>1. \A a \in DOMAIN heap : ~Neighbours(a)
    BY TakenBlock, NoNeighboursElse
  <2>2. \A a \in DOMAIN heap : heap'[a].free = TRUE => heap[a].free = TRUE
    BY <1>4, <1>5, Zenon
  <2>3. \A a \in DOMAIN heap : heap[a].next # NULL => heap[a].next \in DOMAIN heap
    BY NextIsNearest DEF IInv
  <2>4. ASSUME NEW a \in DOMAIN heap, Neighbours(a)' PROVE FALSE
    <3>1. /\ heap'[a].free = TRUE /\ heap[a].next # NULL
          /\ heap'[heap[a].next].free = TRUE
      BY <1>8, <2>4 DEF Neighbours
    <3>2. heap[a].free = TRUE /\ heap[heap[a].next].free = TRUE
      BY <2>2, <2>3, <3>1
    <3>. QED BY <2>1, <3>1, <3>2 DEF Neighbours
  <2>. QED BY <1>4, <2>4 DEF JoinAhead
<1>. QED BY <1>7, <1>9, <1>10, <1>12, <1>13 DEF IInv
\* A larger block is cut: the rest becomes a free block behind it.
LEMMA TakeSplit == ASSUME IInv, malloc_take, Splits PROVE IInv'
<1>c. PICK c : c = call.current
  OBVIOUS
<1>s. PICK s : s = SplitAt
  OBVIOUS
<1>r. PICK rest : rest = heap[c].size - Request - HEADER
  OBVIOUS
<1>1. /\ heap' = Split /\ head' = head /\ call' = NoCall
  BY DEF malloc_take
<1>2. /\ c \in DOMAIN heap /\ c \in Nat /\ heap[c].free = TRUE /\ heap[c].size \in Nat
      /\ Request \in Nat /\ HEADER \in Nat /\ HEADER > 0
      /\ heap[c].size >= Request + HEADER
  <2>1. heap[c].size >= Request + HEADER + MIN_BODY
    BY <1>c DEF Splits, current
  <2>2. /\ c \in DOMAIN heap /\ c \in Nat /\ heap[c].free = TRUE /\ heap[c].size \in Nat
        /\ Request \in Nat
    BY <1>c, TakenBlock
  <2>3. heap[c].size >= Request + HEADER
    BY <2>1, <2>2, MemoryAssumption
  <2>. QED BY <2>2, <2>3, MemoryAssumption
<1>3. /\ s \in Nat /\ c < s /\ rest \in Nat
      /\ s = c + HEADER + Request
      /\ s + HEADER + rest = After(c) /\ s < After(c)
  BY <1>2, <1>c, <1>s, <1>r DEF SplitAt, After
<1>4. s \notin DOMAIN heap
  <2>1. SUFFICES ASSUME s \in DOMAIN heap PROVE FALSE
    OBVIOUS
  <2>2. After(c) <= s
    BY <1>2, <1>3, <2>1 DEF IInv, Chained
  <2>. QED BY <1>2, <1>3, <2>2 DEF After
<1>5. heap[c].next \in Nat \cup {NULL}
  BY <1>2, BlockAt DEF IInv
<1>6. /\ DOMAIN heap' = DOMAIN heap \cup {s}
      /\ heap'[c] = [size |-> Request, free |-> FALSE, next |-> s]
      /\ heap'[s] = [size |-> rest, free |-> TRUE, next |-> heap[c].next]
      /\ \A a \in DOMAIN heap : a # c => heap'[a] = heap[a]
  <2>1. heap' = [a \in DOMAIN heap \cup {s} |->
                   IF a = c THEN [size |-> Request, free |-> FALSE, next |-> s]
                   ELSE IF a = s THEN [size |-> rest, free |-> TRUE, next |-> heap[c].next]
                   ELSE heap[a]]
    BY <1>1, <1>c, <1>s, <1>r DEF Split, current
  <2>. QED BY <1>2, <1>3, <1>4, <2>1
<1>7. /\ heap'[c].size = Request /\ heap'[c].next = s /\ heap'[c].free = FALSE
      /\ heap'[s].size = rest /\ heap'[s].next = heap[c].next /\ heap'[s].free = TRUE
  BY <1>6
<1>8. heap' \in [DOMAIN heap' -> Block]
  <2>1. heap'[c] \in Block /\ heap'[s] \in Block
    BY <1>2, <1>3, <1>5, <1>6 DEF Block
  <2>2. \A a \in DOMAIN heap' : heap'[a] \in Block
    BY <1>6, <2>1 DEF IInv, TypeOK
  <2>3. heap' = [a \in DOMAIN heap' |-> heap'[a]]
    BY <1>1, <1>6 DEF Split
  <2>. QED BY <2>2, <2>3
<1>9. TypeOK'
  BY <1>3, <1>6, <1>8, TakenTypes DEF IInv, TypeOK
<1>10. /\ After(c)' = s /\ After(s)' = After(c)
       /\ \A a \in DOMAIN heap : a # c => After(a)' = After(a)
  <2>1. After(c)' = s
    BY <1>3, <1>7 DEF After
  <2>2. After(s)' = After(c)
    BY <1>3, <1>7 DEF After
  <2>3. \A a \in DOMAIN heap : a # c => After(a)' = After(a)
    BY <1>6 DEF After
  <2>. QED BY <2>1, <2>2, <2>3
<1>11. /\ \A a \in DOMAIN heap : a \in Nat /\ After(a) \in Nat /\ a < After(a)
       /\ \A a, b \in DOMAIN heap : a < b => After(a) <= b
       /\ \A a \in DOMAIN heap : After(a) <= HEAP
  <2>1. ASSUME NEW a \in DOMAIN heap PROVE a \in Nat /\ After(a) \in Nat /\ a < After(a)
    BY <1>2, BlockAt DEF IInv, After
  <2>. QED BY <2>1 DEF IInv, Chained, InHeap
<1>12. Chained'
  <2>1. ASSUME NEW a \in DOMAIN heap'
        PROVE  \/ heap'[a].next = After(a)' /\ After(a)' \in DOMAIN heap'
               \/ heap'[a].next = NULL /\ After(a)' = HEAP
    <3>1. CASE a = c
      BY <1>6, <1>7, <1>10, <3>1
    <3>2. CASE a = s
      BY <1>2, <1>6, <1>7, <1>10, <3>2 DEF IInv, Chained
    <3>3. CASE a # c /\ a # s
      BY <1>6, <1>10, <3>3 DEF IInv, Chained
    <3>. QED BY <3>1, <3>2, <3>3
  <2>2. ASSUME NEW a \in DOMAIN heap', NEW b \in DOMAIN heap', a < b
        PROVE  After(a)' <= b
    <3>1. CASE a = c
      <4>1. b # s => b \in DOMAIN heap
        BY <1>6
      <4>2. b # s => After(c) <= b
        BY <1>2, <1>11, <2>2, <3>1, <4>1
      <4>. QED BY <1>2, <1>3, <1>10, <1>11, <3>1, <4>1, <4>2
    <3>2. CASE a = s
      <4>1. b \in DOMAIN heap /\ b \in Nat
        BY <1>3, <1>6, <1>11, <2>2, <3>2
      <4>2. c < b
        BY <1>2, <1>3, <2>2, <3>2, <4>1
      <4>. QED BY <1>2, <1>10, <1>11, <3>2, <4>1, <4>2
    <3>3. CASE a # c /\ a # s
      <4>1. a \in DOMAIN heap /\ After(a)' = After(a) /\ a \in Nat /\ After(a) \in Nat
        BY <1>6, <1>10, <1>11, <3>3
      <4>2. CASE b = s
        <5>1. ~(c < a)
          <6>1. SUFFICES ASSUME c < a PROVE FALSE
            OBVIOUS
          <6>2. After(c) <= a
            BY <1>2, <1>11, <4>1, <6>1
          <6>. QED BY <1>2, <1>3, <1>11, <2>2, <4>1, <4>2, <6>2
        <5>2. a < c
          BY <1>2, <3>3, <4>1, <5>1
        <5>3. After(a) <= c
          BY <1>2, <1>11, <4>1, <5>2
        <5>. QED BY <1>2, <1>3, <4>1, <4>2, <5>3
      <4>3. CASE b # s
        BY <1>6, <1>11, <2>2, <4>1, <4>3
      <4>. QED BY <4>2, <4>3
    <3>. QED BY <3>1, <3>2, <3>3
  <2>3. head' = 0 <=> 0 \in DOMAIN heap'
    <3>1. head = 0
      BY TakenBlock DEF IInv, CallInList
    <3>. QED BY <1>1, <1>6, <3>1 DEF IInv, Chained
  <2>. QED BY <2>1, <2>2, <2>3, Zenon DEF Chained
<1>13. InHeap'
  <2>1. ASSUME NEW a \in DOMAIN heap' PROVE After(a)' <= HEAP
    <3>1. s <= HEAP
      BY <1>2, <1>3, <1>11, MemoryAssumption
    <3>. QED BY <1>2, <1>6, <1>10, <1>11, <3>1
  <2>. QED BY <2>1 DEF InHeap
<1>14. HeldBlocks'
  <2>1. /\ \A a \in DOMAIN heap' \ DOMAIN heap : heap'[a].free = TRUE
        /\ heap'[call.current].free = FALSE /\ heap'[call.current].size = Request
    BY <1>6, <1>7, <1>c
  <2>2. DOMAIN heap \subseteq DOMAIN heap'
    BY <1>6
  <2>3. \A a \in DOMAIN heap : a # call.current => heap'[a] = heap[a]
    BY <1>6, <1>c
  <2>4. heap'[call.current].size \in Nat /\ heap'[call.current].size >= Request
    BY <1>2, <2>1
  <2>. QED BY <2>1, <2>2, <2>3, <2>4, TakenIsHeld, Zenon
<1>15. call'.op = "none" /\ call'.current = NULL
  BY <1>1 DEF NoCall
<1>16. CallInList' /\ Passed'
  <2>1. head' = 0
    BY <1>1, TakenBlock DEF IInv, CallInList
  <2>. QED BY <1>15, <2>1, MemoryAssumption DEF CallInList, Passed
<1>17. JoinAhead'
  <2>1. \A a \in DOMAIN heap : ~Neighbours(a)
    BY TakenBlock, NoNeighboursElse
  <2>2. \A a \in DOMAIN heap : heap[a].next # NULL => heap[a].next \in DOMAIN heap
    BY NextIsNearest DEF IInv
  <2>3. ASSUME NEW a \in DOMAIN heap', Neighbours(a)' PROVE FALSE
    <3>1. /\ heap'[a].free = TRUE /\ heap'[a].next # NULL /\ heap'[heap'[a].next].free = TRUE
      BY <2>3 DEF Neighbours
    <3>2. a # c
      BY <1>7, <3>1
    <3>3. CASE a = s
      <4>1. heap[c].next # NULL /\ heap'[heap[c].next].free = TRUE
        BY <1>7, <3>1, <3>3
      <4>2. heap[c].next \in DOMAIN heap /\ heap[c].next # c
        BY <1>2, <1>7, <2>2, <4>1
      <4>3. heap[heap[c].next].free = TRUE
        BY <1>6, <4>1, <4>2
      <4>. QED BY <1>2, <2>1, <4>1, <4>3 DEF Neighbours
    <3>4. CASE a # s
      <4>1. a \in DOMAIN heap /\ heap'[a] = heap[a]
        BY <1>6, <3>2, <3>4
      <4>2. heap[a].next \in DOMAIN heap /\ heap[a].next # c
        BY <1>7, <2>2, <3>1, <4>1
      <4>3. heap[heap[a].next].free = TRUE
        BY <1>6, <3>1, <4>1, <4>2
      <4>. QED BY <2>1, <3>1, <4>1, <4>3 DEF Neighbours
    <3>. QED BY <3>3, <3>4
  <2>. QED BY <2>3 DEF JoinAhead
<1>. QED BY <1>9, <1>12, <1>13, <1>14, <1>16, <1>17 DEF IInv
-----------------------------------------------------------------------------
(* A release.                                                               *)

LEMMA FreeBegins == ASSUME IInv, NEW ptr \in DOMAIN live, os_free(ptr) PROVE IInv'
<1>b. PICK b : b = ptr - HEADER
  OBVIOUS
<1>1. /\ heap' = [heap EXCEPT ![b].free = TRUE]
      /\ DOMAIN live' = DOMAIN live \ {ptr}
      /\ \A p \in DOMAIN live' : live'[p] = live[p]
      /\ head' = head /\ reply' = NULL
      /\ call' = [op |-> "free", size |-> 0, current |-> head]
  BY <1>b DEF os_free
<1>2. b \in DOMAIN heap /\ ~heap[b].free
  BY <1>b DEF IInv, HeldBlocks
<1>3. head = 0 /\ 0 \in DOMAIN heap
  BY <1>2 DEF IInv, TypeOK, CallInList, Chained
<1>4. /\ heap[b].size \in Nat /\ heap[b].next \in Nat \cup {NULL}
      /\ heap[b] = [size |-> heap[b].size, free |-> heap[b].free, next |-> heap[b].next]
  BY <1>2, BlockAt DEF IInv
<1>5. /\ DOMAIN heap' = DOMAIN heap
      /\ heap'[b] = [size |-> heap[b].size, free |-> TRUE, next |-> heap[b].next]
      /\ \A a \in DOMAIN heap : a # b => heap'[a] = heap[a]
  BY <1>1, <1>2, <1>4
<1>6. heap'[b].free = TRUE
  BY <1>5
<1>7. \A a \in DOMAIN heap : heap'[a].size = heap[a].size /\ heap'[a].next = heap[a].next
  BY <1>5
<1>8. call'.op = "free" /\ call'.current = 0 /\ call' \in Call
  BY <1>1, <1>3 DEF Call
<1>9. TypeOK'
  <2>1. heap'[b] \in Block
    BY <1>4, <1>5 DEF Block
  <2>2. heap' \in [DOMAIN heap' -> Block]
    BY <1>1, <1>5, <2>1 DEF IInv, TypeOK
  <2>3. live' \in [DOMAIN live' -> Nat] /\ DOMAIN live' \subseteq Nat
    BY DEF IInv, TypeOK, os_free
  <2>. QED BY <1>1, <1>5, <1>8, <2>2, <2>3 DEF IInv, TypeOK
<1>10. Chained' /\ InHeap'
  BY <1>1, <1>5, <1>7 DEF IInv, Chained, InHeap, After
<1>11. HeldBlocks'
  <2>1. ASSUME NEW p \in DOMAIN live'
        PROVE  /\ p - HEADER \in DOMAIN heap' /\ ~heap'[p - HEADER].free
               /\ live'[p] <= heap'[p - HEADER].size
    <3>1. p \in DOMAIN live /\ p # ptr /\ live'[p] = live[p]
      BY <1>1
    <3>2. p \in Nat /\ ptr \in Nat
      BY <3>1 DEF IInv, TypeOK
    <3>3. p - HEADER # b
      BY <1>b, <3>1, <3>2, MemoryAssumption
    <3>4. p - HEADER \in DOMAIN heap /\ ~heap[p - HEADER].free /\ live[p] <= heap[p - HEADER].size
      BY <3>1 DEF IInv, HeldBlocks
    <3>. QED BY <1>5, <3>1, <3>3, <3>4, Zenon
  <2>2. ASSUME NEW a \in DOMAIN heap', ~heap'[a].free PROVE a + HEADER \in DOMAIN live'
    <3>1. a \in DOMAIN heap /\ a # b
      BY <1>5, <1>6, <2>2, Zenon
    <3>2. ~heap[a].free
      BY <1>5, <2>2, <3>1, Zenon
    <3>3. a + HEADER \in DOMAIN live
      BY <3>1, <3>2, Zenon DEF IInv, HeldBlocks
    <3>4. a \in Nat /\ ptr \in Nat
      BY <3>1 DEF IInv, TypeOK
    <3>5. a + HEADER # ptr
      BY <1>b, <3>1, <3>4, MemoryAssumption
    <3>. QED BY <1>1, <3>3, <3>5
  <2>. QED BY <2>1, <2>2, Zenon DEF HeldBlocks
<1>12. CallInList' /\ Passed'
  BY <1>1, <1>3, <1>5, <1>8, MemoryAssumption DEF CallInList, Passed
<1>13. JoinAhead'
  <2>1. \A a \in DOMAIN heap' : a >= 0
    BY <1>5 DEF IInv, TypeOK
  <2>2. 0 # NULL
    BY MemoryAssumption
  <2>. QED BY <1>8, <2>1, <2>2 DEF JoinAhead
<1>. QED BY <1>9, <1>10, <1>11, <1>12, <1>13 DEF IInv

\* A merge takes the block behind the cursor out of the list.
LEMMA FreeMerge == ASSUME IInv, free_merge PROVE IInv'
<1>c. PICK c : c = call.current
  OBVIOUS
<1>n. PICK n : n = heap[c].next
  OBVIOUS
<1>z. PICK size : size = heap[c].size + HEADER + heap[n].size
  OBVIOUS
<1>1. /\ call.op = "free" /\ c \in DOMAIN heap /\ n # NULL
      /\ heap' = Merged /\ UNCHANGED <<head, call, live, reply>>
  BY <1>c, <1>n DEF free_merge, Joining, IInv, CallInList, current
<1>2. /\ n \in DOMAIN heap /\ c < n /\ n = After(c)
  BY <1>1, <1>n, NextIsNearest DEF IInv, Chained
<1>3. /\ c \in Nat /\ heap[c].size \in Nat /\ heap[c].free \in BOOLEAN
      /\ n \in Nat /\ heap[n].size \in Nat /\ heap[n].free \in BOOLEAN
      /\ heap[n].next \in Nat \cup {NULL}
      /\ heap[c] = [size |-> heap[c].size, free |-> heap[c].free, next |-> heap[c].next]
      /\ HEADER \in Nat /\ HEADER > 0
  BY <1>1, <1>2, BlockAt, MemoryAssumption DEF IInv
<1>4. heap[c].free = TRUE /\ heap[n].free = TRUE
  <2>1. heap[c].free /\ heap[n].free
    BY <1>c, <1>n DEF free_merge, MayMerge, current
  <2>. QED BY <1>3, <2>1, Zenon
<1>5. /\ size \in Nat
      /\ c + HEADER + size = After(n) /\ After(n) \in Nat /\ n < After(n)
  BY <1>2, <1>3, <1>z DEF After
<1>6. heap' = [a \in DOMAIN heap \ {n} |->
                 IF a = c THEN [size |-> size, free |-> TRUE, next |-> heap[n].next]
                 ELSE heap[a]]
  BY <1>1, <1>c, <1>n, <1>z DEF Merged, current
<1>7. /\ DOMAIN heap' = DOMAIN heap \ {n}
      /\ c \in DOMAIN heap'
      /\ heap'[c] = [size |-> size, free |-> TRUE, next |-> heap[n].next]
      /\ \A a \in DOMAIN heap' : a # c => heap'[a] = heap[a]
  BY <1>1, <1>2, <1>3, <1>6
<1>8. heap'[c].size = size /\ heap'[c].next = heap[n].next /\ heap'[c].free = TRUE
  BY <1>7
<1>9. TypeOK'
  <2>1. heap'[c] \in Block
    BY <1>3, <1>5, <1>7 DEF Block
  <2>2. \A a \in DOMAIN heap' : heap'[a] \in Block
    BY <1>7, <2>1 DEF IInv, TypeOK
  <2>3. heap' = [a \in DOMAIN heap' |-> heap'[a]]
    BY <1>6, <1>7
  <2>. QED BY <1>1, <1>7, <2>2, <2>3 DEF IInv, TypeOK
<1>10. /\ After(c)' = After(n)
       /\ \A a \in DOMAIN heap' : a # c => After(a)' = After(a)
  <2>1. After(c)' = After(n)
    BY <1>5, <1>8 DEF After
  <2>2. \A a \in DOMAIN heap' : a # c => After(a)' = After(a)
    BY <1>7 DEF After
  <2>. QED BY <2>1, <2>2
<1>11. /\ \A a \in DOMAIN heap : a \in Nat /\ After(a) \in Nat /\ a < After(a)
       /\ \A a, b \in DOMAIN heap : a < b => After(a) <= b
       /\ \A a \in DOMAIN heap : After(a) <= HEAP
  <2>1. ASSUME NEW a \in DOMAIN heap PROVE a \in Nat /\ After(a) \in Nat /\ a < After(a)
    BY <1>3, BlockAt DEF IInv, After
  <2>. QED BY <2>1 DEF IInv, Chained, InHeap
<1>12. \A b \in DOMAIN heap' : c < b => n < b
  BY <1>2, <1>3, <1>7, <1>11, <1>1
<1>13. Chained'
  <2>1. ASSUME NEW a \in DOMAIN heap'
        PROVE  \/ heap'[a].next = After(a)' /\ After(a)' \in DOMAIN heap'
               \/ heap'[a].next = NULL /\ After(a)' = HEAP
    <3>1. CASE a = c
      <4>1. After(n) # n
        BY <1>3, <1>5
      <4>. QED BY <1>2, <1>7, <1>8, <1>10, <3>1, <4>1 DEF IInv, Chained
    <3>2. CASE a # c
      <4>1. a \in DOMAIN heap /\ a # n /\ heap'[a] = heap[a] /\ After(a)' = After(a)
        BY <1>7, <1>10, <3>2
      <4>2. After(a) # n
        <5>1. CASE a < c
          BY <1>1, <1>2, <1>3, <1>11, <4>1, <5>1
        <5>2. CASE ~(a < c)
          BY <1>2, <1>3, <1>7, <1>11, <1>12, <3>2, <4>1, <5>2
        <5>. QED BY <5>1, <5>2
      <4>. QED BY <1>7, <4>1, <4>2 DEF IInv, Chained
    <3>. QED BY <3>1, <3>2
  <2>2. ASSUME NEW a \in DOMAIN heap', NEW b \in DOMAIN heap', a < b
        PROVE  After(a)' <= b
    <3>1. CASE a = c
      BY <1>2, <1>7, <1>10, <1>11, <1>12, <2>2, <3>1
    <3>2. CASE a # c
      BY <1>7, <1>10, <1>11, <2>2, <3>2
    <3>. QED BY <3>1, <3>2
  <2>3. head' = 0 <=> 0 \in DOMAIN heap'
    BY <1>1, <1>2, <1>3, <1>7 DEF IInv, Chained
  <2>. QED BY <2>1, <2>2, <2>3, Zenon DEF Chained
<1>14. InHeap'
  BY <1>2, <1>7, <1>10, <1>11 DEF InHeap
<1>15. HeldBlocks'
  <2>1. ASSUME NEW p \in DOMAIN live'
        PROVE  /\ p - HEADER \in DOMAIN heap' /\ ~heap'[p - HEADER].free
               /\ live'[p] <= heap'[p - HEADER].size
    <3>1. p \in DOMAIN live /\ live'[p] = live[p]
      BY <1>1
    <3>2. p - HEADER \in DOMAIN heap /\ ~heap[p - HEADER].free /\ live[p] <= heap[p - HEADER].size
      BY <3>1 DEF IInv, HeldBlocks
    <3>3. p - HEADER # c /\ p - HEADER # n
      BY <1>4, <3>2, Zenon
    <3>4. p - HEADER \in DOMAIN heap'
      BY <1>7, <3>2, <3>3
    <3>. QED BY <1>7, <3>1, <3>2, <3>3, <3>4, Zenon
  <2>2. ASSUME NEW a \in DOMAIN heap', ~heap'[a].free PROVE a + HEADER \in DOMAIN live'
    <3>1. a # c
      BY <1>8, <2>2, Zenon
    <3>2. a \in DOMAIN heap /\ ~heap[a].free
      BY <1>7, <2>2, <3>1
    <3>. QED BY <1>1, <3>2 DEF IInv, HeldBlocks
  <2>. QED BY <2>1, <2>2, Zenon DEF HeldBlocks
<1>16. CallInList' /\ Passed'
  BY <1>1, <1>7, <1>c DEF IInv, CallInList, Passed
<1>17. JoinAhead'
  <2>1. ASSUME NEW a \in DOMAIN heap', Neighbours(a)' PROVE a >= c
    <3>1. CASE a = c
      BY <1>3, <3>1
    <3>2. CASE a # c
      <4>1. a \in DOMAIN heap /\ heap'[a] = heap[a] /\ heap[a].free = TRUE /\ heap[a].next # NULL
        BY <1>7, <2>1, <3>2 DEF Neighbours
      <4>2. heap[a].next \in DOMAIN heap
        BY <4>1, NextIsNearest DEF IInv
      <4>3. CASE a < c
        <5>1. heap[a].next = After(a) /\ After(a) <= c
          BY <1>1, <1>11, <4>1, <4>3 DEF IInv, Chained
        <5>2. heap[a].next # n
          BY <1>2, <1>3, <1>11, <4>1, <5>1
        <5>3. heap[heap[a].next].free = TRUE
          <6>1. heap'[heap[a].next].free = TRUE
            BY <2>1, <4>1 DEF Neighbours
          <6>2. CASE heap[a].next = c
            BY <1>4, <6>2
          <6>3. CASE heap[a].next # c
            BY <1>7, <4>2, <5>2, <6>1, <6>3
          <6>. QED BY <6>2, <6>3
        <5>4. Neighbours(a)
          BY <4>1, <5>3 DEF Neighbours
        <5>. QED BY <1>c, <4>1, <5>4 DEF IInv, JoinAhead
      <4>4. CASE ~(a < c)
        BY <1>1, <1>11, <4>1, <4>4
      <4>. QED BY <4>3, <4>4
    <3>. QED BY <3>1, <3>2
  <2>2. call'.op = "free" /\ call'.current = c /\ c # NULL
    BY <1>1, <1>3, <1>c, MemoryAssumption
  <2>. QED BY <2>1, <2>2 DEF JoinAhead
<1>. QED BY <1>9, <1>13, <1>14, <1>15, <1>16, <1>17 DEF IInv
-----------------------------------------------------------------------------
(* Theorems.                                                                *)

LEMMA StepInv == IInv /\ [Next]_vars => IInv'
<1>. SUFFICES ASSUME IInv, [Next]_vars PROVE IInv'
  OBVIOUS
<1>1. ASSUME NEW size \in Requests, malloc_nothing(size) PROVE IInv'
  <2>1. call.op = "none" /\ UNCHANGED <<heap, head, call, live>> /\ reply' = NULL
    BY <1>1 DEF malloc_nothing, Idle
  <2>2. CallInList' /\ Passed' /\ JoinAhead'
    BY <2>1 DEF IInv, CallInList, Passed, JoinAhead, Neighbours
  <2>. QED BY <2>1, <2>2, CursorMoves DEF IInv, TypeOK
<1>2. ASSUME NEW size \in Requests, os_malloc(size) PROVE IInv'
  BY <1>2, FirstCall, LaterCall
<1>3. CASE free_nothing
  <2>1. call.op = "none" /\ UNCHANGED <<heap, head, call, live>> /\ reply' = NULL
    BY <1>3 DEF free_nothing, Idle
  <2>2. CallInList' /\ Passed' /\ JoinAhead'
    BY <2>1 DEF IInv, CallInList, Passed, JoinAhead, Neighbours
  <2>. QED BY <2>1, <2>2, CursorMoves DEF IInv, TypeOK
<1>4. ASSUME NEW ptr \in DOMAIN live, os_free(ptr) PROVE IInv'
  BY <1>4, FreeBegins
<1>5. CASE Loop
  BY <1>5, TakeSplit, TakeWhole, MallocSkip, MallocFail, FreeMerge, FreeSkip, FreeDone DEF Loop
<1>6. CASE UNCHANGED vars
  <2>1. UNCHANGED <<heap, head, call, live, reply>>
    BY <1>6 DEF vars
  <2>2. CallInList' /\ Passed' /\ JoinAhead'
    <3>1. CallInList'
      BY <2>1 DEF IInv, CallInList
    <3>2. Passed'
      BY <2>1 DEF IInv, Passed, Fits, Request
    <3>3. JoinAhead'
      BY <2>1 DEF IInv, JoinAhead, Neighbours
    <3>. QED BY <3>1, <3>2, <3>3
  <2>. QED BY <2>1, <2>2, CursorMoves DEF IInv, TypeOK
<1>. QED BY <1>1, <1>2, <1>3, <1>4, <1>5, <1>6 DEF Next

\* The inductive invariant: the list partitions the heap, callers hold what is
\* used, and each loop knows what it has passed (memory.c:26-42, 53-61).
THEOREM Invariance == Spec => []IInv
<1>. QED BY InitInv, StepInv, PTL DEF Spec

\* Headers, cursor and pointers keep their types; no size is ever negative,
\* splits included (memory.c:29-31).
THEOREM TypeCorrect == Spec => []TypeOK
<1>1. IInv => TypeOK
  BY DEF IInv
<1>. QED BY <1>1, Invariance, PTL

\* The blocks of the list lie one behind the other from the first byte of the
\* heap to its last (memory.c:29-36, 55-59).
THEOREM ListIsPartition == Spec => []Tiling
<1>1. IInv => Tiling
  BY DEF IInv, TypeOK, Block, Tiling
<1>. QED BY <1>1, Invariance, PTL

\* Callers hold exactly the used blocks, each large enough (memory.c:28, 37, 51).
THEOREM HeldIsUsed == Spec => []HeldBlocks
<1>1. IInv => HeldBlocks
  BY DEF IInv
<1>. QED BY <1>1, Invariance, PTL

\* One pass of a release leaves no two free blocks side by side (memory.c:53-61).
THEOREM OnePassJoins == Spec => []Coalesced
<1>1. IInv => Coalesced
  <2>. SUFFICES ASSUME IInv, Idle, NEW a \in DOMAIN heap, heap[a].free, heap[a].next # NULL,
                       heap[heap[a].next].free
                PROVE  FALSE
    BY Zenon DEF Coalesced
  <2>1. heap[a].next \in DOMAIN heap
    BY NextIsNearest DEF IInv
  <2>2. heap[a].free \in BOOLEAN /\ heap[heap[a].next].free \in BOOLEAN
    BY <2>1, BlockAt DEF IInv
  <2>3. heap[a].free = TRUE /\ heap[heap[a].next].free = TRUE
    BY <2>2, Zenon
  <2>4. call.op # "free"
    BY DEF Idle
  <2>. QED BY <2>3, <2>4, NoNeighboursElse DEF Neighbours
<1>. QED BY <1>1, Invariance, PTL

\* Every byte of the heap lies in a block.
LEMMA BlockOfByte ==
  ASSUME IInv, head = 0, NEW n \in Nat, n < HEAP
  PROVE  \E a \in DOMAIN heap : a <= n /\ n < After(a)
<1>. DEFINE T == {n - a : a \in {b \in DOMAIN heap : b <= n}}
<1>1. 0 \in DOMAIN heap /\ \A a \in DOMAIN heap : a \in Nat
  BY DEF IInv, Chained, TypeOK
<1>2. T \subseteq Nat /\ n - 0 \in T
  BY <1>1
<1>3. PICK d \in T : \A e \in T : d <= e
  <2>. HIDE DEF T
  <2>. QED BY <1>2, LeastNatural
<1>4. PICK a \in DOMAIN heap : a <= n /\ d = n - a
  BY <1>3
<1>5. ASSUME NEW b \in DOMAIN heap, b <= n PROVE b <= a
  <2>1. d <= n - b
    BY <1>3, <1>5
  <2>. QED BY <1>1, <1>4, <2>1
<1>6. a \in Nat /\ heap[a].size \in Nat
  BY BlockAt DEF IInv
<1>7. ASSUME After(a) <= n PROVE FALSE
  <2>1. After(a) # HEAP
    BY <1>6, <1>7, MemoryAssumption DEF After
  <2>2. After(a) \in DOMAIN heap
    BY <2>1 DEF IInv, Chained
  <2>3. After(a) <= a
    BY <1>5, <1>7, <2>2
  <2>. QED BY <1>6, <2>3, MemoryAssumption DEF After
<1>. QED BY <1>4, <1>6, <1>7, MemoryAssumption DEF After

\* A search that has passed every block has found used bytes in every stretch.
LEMMA NoRoom ==
  ASSUME IInv, malloc_fail, NEW start \in 0 .. HEAP - HEADER - Request
  PROVE  \E a \in DOMAIN heap :
           ~heap[a].free /\ start < After(a) /\ a < start + HEADER + Request
<1>1. call.op = "malloc" /\ call.current = NULL /\ head = 0
  BY DEF malloc_fail, IInv, CallInList
<1>2. Request \in Nat
  <2>1. call.size \in Nat
    BY DEF IInv, TypeOK, Call
  <2>. QED BY <2>1, AlignUp DEF Request
<1>3. start \in Nat /\ start < HEAP /\ start + HEADER + Request <= HEAP
  BY <1>2, MemoryAssumption
<1>4. PICK a \in DOMAIN heap : a <= start /\ start < After(a)
  BY <1>1, <1>3, BlockOfByte
<1>5. a \in Nat /\ heap[a].size \in Nat /\ heap[a].free \in BOOLEAN
  BY BlockAt DEF IInv
<1>6. CASE ~heap[a].free
  BY <1>2, <1>3, <1>4, <1>5, <1>6, MemoryAssumption
<1>7. CASE heap[a].free
  <2>1. heap[a].size < Request
    BY <1>1, <1>2, <1>5, <1>7 DEF IInv, Passed, Fits
  <2>2. After(a) < start + HEADER + Request /\ After(a) \in Nat /\ After(a) # HEAP
    BY <1>2, <1>3, <1>4, <1>5, <2>1, MemoryAssumption DEF After
  <2>3. heap[a].next = After(a) /\ After(a) \in DOMAIN heap
    BY <2>2 DEF IInv, Chained
  <2>. DEFINE b == After(a)
  <2>4. b \in DOMAIN heap /\ b \in Nat /\ heap[a].next = b /\ b # NULL
    BY <2>2, <2>3, MemoryAssumption
  <2>5. start < b /\ b < start + HEADER + Request
    BY <1>4, <2>2
  <2>. HIDE DEF b
  <2>6. heap[b].size \in Nat /\ heap[b].free \in BOOLEAN
    BY <2>4, BlockAt DEF IInv
  <2>7. ~heap[b].free
    <3>1. ~Neighbours(a)
      BY <1>1 DEF IInv, JoinAhead
    <3>. QED BY <1>5, <1>7, <2>4, <2>6, <3>1 DEF Neighbours
  <2>8. start < After(b)
    BY <1>3, <2>4, <2>5, <2>6, MemoryAssumption DEF After
  <2>. QED BY <2>4, <2>5, <2>7, <2>8
<1>. QED BY <1>5, <1>6, <1>7

\* A request is refused only if there is no room for it anywhere in the heap: no
\* block is passed that is large enough, and no free blocks lie side by side that
\* would be together (memory.c:26-42, 53-61).
THEOREM RefusesOnlyIfFull == Spec => FailsOnlyIfFull
<1>1. IInv /\ [Next]_vars =>
        [malloc_fail =>
           \A start \in 0 .. HEAP - HEADER - Request :
             \E a \in DOMAIN heap :
               ~heap[a].free /\ start < After(a) /\ a < start + HEADER + Request]_vars
  BY NoRoom, Zenon
<1>. QED BY <1>1, Invariance, PTL DEF Spec, FailsOnlyIfFull

\* The blocks a loop has still to look at, and the iterations they allow.
Ahead == {a \in DOMAIN heap : call.current # NULL /\ a >= call.current}

Iterations == IF Idle THEN 0 ELSE 1 + Cardinality(Ahead)

IterationsOK == Iterations \in 0 .. 1 + Cardinality(DOMAIN heap)

\* The list is finite, and a loop looks at each block once at most.
LEMMA ListFinite == IInv => IterationsOK /\ IsFiniteSet(Ahead)
<1>. SUFFICES ASSUME IInv PROVE IterationsOK /\ IsFiniteSet(Ahead)
  OBVIOUS
<1>1. DOMAIN heap \subseteq 0 .. HEAP
  <2>. SUFFICES ASSUME NEW a \in DOMAIN heap PROVE a \in 0 .. HEAP
    OBVIOUS
  <2>1. a \in Nat /\ heap[a].size \in Nat /\ After(a) <= HEAP
    BY BlockAt DEF IInv, InHeap
  <2>. QED BY <2>1, MemoryAssumption DEF After
<1>2. IsFiniteSet(0 .. HEAP)
  BY MemoryAssumption, FS_Interval
<1>3. IsFiniteSet(DOMAIN heap)
  BY <1>1, <1>2, FS_Subset
<1>4. Ahead \subseteq DOMAIN heap
  BY DEF Ahead
<1>5. /\ IsFiniteSet(Ahead) /\ Cardinality(Ahead) <= Cardinality(DOMAIN heap)
      /\ Cardinality(Ahead) \in Nat /\ Cardinality(DOMAIN heap) \in Nat
  BY <1>3, <1>4, FS_Subset, FS_CardinalityType
<1>. QED BY <1>5 DEF IterationsOK, Iterations

\* A loop that goes on leaves one block behind or takes it off the list.
LEMMA OneBlockLess ==
  ASSUME IInv, malloc_skip \/ free_merge \/ free_skip
  PROVE  ~Idle /\ ~Idle' /\ \E b \in Ahead : Ahead' = Ahead \ {b}
<1>c. PICK c : c = call.current
  OBVIOUS
<1>n. PICK n : n = heap[c].next
  OBVIOUS
<1>1. c \in DOMAIN heap /\ c \in Nat /\ c # NULL /\ c \in Ahead
  <2>1. c # NULL
    BY <1>c DEF malloc_skip, free_merge, free_skip, Searching, Joining
  <2>2. c \in DOMAIN heap
    BY <1>c, <2>1 DEF IInv, CallInList
  <2>3. c \in Nat
    BY <2>2 DEF IInv, TypeOK
  <2>. QED BY <1>c, <2>1, <2>2, <2>3 DEF Ahead
<1>2. /\ n # NULL => n \in DOMAIN heap /\ n \in Nat /\ c < n
      /\ \A a \in DOMAIN heap : a \in Nat
      /\ \A a \in DOMAIN heap : n # NULL => (a < n <=> a <= c)
      /\ \A a \in DOMAIN heap : n = NULL => a <= c
  BY <1>1, <1>n, NextIsNearest DEF IInv, TypeOK
<1>3. ASSUME malloc_skip \/ free_skip
      PROVE  ~Idle /\ ~Idle' /\ Ahead' = Ahead \ {c}
  <2>1. /\ heap' = heap /\ call' = [call EXCEPT !.current = n]
        /\ call.op \in {"malloc", "free"}
    BY <1>3, <1>c, <1>n DEF malloc_skip, free_skip, Searching, Joining, NextBlock, current
  <2>2. call'.op = call.op /\ call'.current = n
    BY <2>1 DEF IInv, TypeOK, Call
  <2>3. Ahead' = {a \in DOMAIN heap : n # NULL /\ a >= n}
    BY <2>1, <2>2 DEF Ahead
  <2>4. ASSUME NEW a \in DOMAIN heap
        PROVE  (n # NULL /\ a >= n) <=> (a >= c /\ a # c)
    BY <1>1, <1>2
  <2>5. Ahead = {a \in DOMAIN heap : a >= c}
    BY <1>1, <1>c DEF Ahead
  <2>6. Ahead' = Ahead \ {c}
    BY <2>3, <2>4, <2>5
  <2>. QED BY <2>1, <2>2, <2>6 DEF Idle
<1>4. ASSUME free_merge
      PROVE  ~Idle /\ ~Idle' /\ n \in Ahead /\ Ahead' = Ahead \ {n}
  <2>1. /\ heap' = Merged /\ call' = call /\ call.op = "free" /\ n # NULL
    BY <1>4, <1>c, <1>n DEF free_merge, Joining, current
  <2>2. DOMAIN heap' = DOMAIN heap \ {n}
    BY <2>1, <1>c, <1>n DEF Merged, current
  <2>3. n \in Ahead
    BY <1>1, <1>2, <1>c, <2>1 DEF Ahead
  <2>4. Ahead' = Ahead \ {n}
    BY <2>1, <2>2 DEF Ahead
  <2>. QED BY <2>1, <2>3, <2>4 DEF Idle
<1>. QED BY <1>1, <1>3, <1>4

\* Every iteration of either loop leaves fewer to come, of which there are never
\* more than blocks in the list and one: a merge that stays at its block takes
\* the next one off the list (memory.c:27-41, 54-61).
THEOREM LoopsEnd ==
  Spec => [][Loop => IterationsOK /\ IterationsOK' /\ Iterations' < Iterations]_vars
<1>1. ASSUME IInv, IInv', IterationsOK, IterationsOK', IsFiniteSet(Ahead), Loop
      PROVE  Iterations' < Iterations
  <2>1. CASE malloc_take \/ malloc_fail \/ free_done
    <3>1. Idle' /\ ~Idle
      BY <2>1 DEF malloc_take, malloc_fail, free_done, Searching, NoCall, Idle
    <3>2. Iterations' = 0
      BY <3>1 DEF Iterations
    <3>3. Cardinality(Ahead) \in Nat /\ Iterations = 1 + Cardinality(Ahead)
      BY <1>1, <3>1, FS_CardinalityType DEF Iterations
    <3>. QED BY <3>2, <3>3
  <2>2. CASE malloc_skip \/ free_merge \/ free_skip
    <3>1. PICK b \in Ahead : Ahead' = Ahead \ {b}
      BY <1>1, <2>2, OneBlockLess
    <3>2. ~Idle /\ ~Idle'
      BY <1>1, <2>2, OneBlockLess
    <3>3. Cardinality(Ahead \ {b}) = Cardinality(Ahead) - 1 /\ Cardinality(Ahead) \in Nat
      BY <1>1, <3>1, FS_RemoveElement, FS_CardinalityType
    <3>4. Iterations = 1 + Cardinality(Ahead) /\ Iterations' = 1 + Cardinality(Ahead \ {b})
      BY <3>1, <3>2 DEF Iterations
    <3>. QED BY <3>3, <3>4
  <2>. QED BY <1>1, <2>1, <2>2 DEF Loop
<1>2. IInv /\ IInv' /\ IterationsOK /\ IterationsOK' /\ IsFiniteSet(Ahead) =>
        [Loop => IterationsOK /\ IterationsOK' /\ Iterations' < Iterations]_vars
  BY <1>1
<1>. QED BY <1>2, ListFinite, Invariance, PTL DEF Spec

\* The allocator implements the abstract one: pieces given out lie in the heap
\* and share no byte (memory.c:28-39).
THEOREM PiecesApart == Spec => ImplementsAllocator
<1>1. Init => Alloc!Init
  BY DEF Init, Alloc!Init
<1>2. IInv /\ [Next]_vars => [Alloc!Next]_<<live, reply>>
  <2>. SUFFICES ASSUME IInv, [Next]_vars, ~UNCHANGED <<live, reply>> PROVE Alloc!Next
    OBVIOUS
  <2>1. ASSUME NEW size \in Requests, malloc_nothing(size) PROVE Alloc!Next
    BY <2>1 DEF malloc_nothing, Alloc!Next, Alloc!Refuse
  <2>2. ASSUME NEW size \in Requests, os_malloc(size) PROVE Alloc!Next
    BY <2>2 DEF os_malloc
  <2>3. CASE free_nothing
    BY <2>3 DEF free_nothing, Alloc!Next, Alloc!Refuse
  <2>4. ASSUME NEW ptr \in DOMAIN live, os_free(ptr) PROVE Alloc!Next
    BY <2>4 DEF os_free, Alloc!Next, Alloc!Release
  <2>5. CASE malloc_take
    <3>c. PICK c : c = call.current
      OBVIOUS
    <3>p. PICK p : p = c + HEADER
      OBVIOUS
    <3>n. PICK n : n = call.size
      OBVIOUS
    <3>1. /\ c \in DOMAIN heap /\ c \in Nat /\ n \in Nat /\ n > 0 /\ n \in Requests
          /\ Request \in Nat /\ Request >= n /\ heap[c].free = TRUE
          /\ heap[c].size \in Nat /\ heap[c].size >= Request /\ reply' = p
      BY <2>5, <3>c, <3>n, <3>p, TakenBlock
    <3>2. /\ p + n <= After(c) /\ After(c) <= HEAP /\ p \in 0 .. HEAP
      <4>1. p \in Nat /\ p + n <= After(c) /\ After(c) \in Nat /\ p <= After(c)
        BY <3>1, <3>p, MemoryAssumption DEF After
      <4>2. After(c) <= HEAP
        BY <3>1 DEF IInv, InHeap
      <4>. QED BY <4>1, <4>2, MemoryAssumption
    <3>3. ASSUME NEW q \in DOMAIN live PROVE Alloc!Apart(p, n, q, live[q])
      <4>b. PICK b : b = q - HEADER
        OBVIOUS
      <4>1. b \in DOMAIN heap /\ ~heap[b].free /\ live[q] <= heap[b].size
        BY <4>b DEF IInv, HeldBlocks
      <4>2. b # c
        BY <3>1, <4>1, Zenon
      <4>3. /\ b \in Nat /\ heap[b].size \in Nat /\ q \in Nat /\ live[q] \in Nat
            /\ q = b + HEADER /\ HEADER \in Nat
        <5>1. b \in Nat /\ heap[b].size \in Nat
          BY <4>1, BlockAt DEF IInv
        <5>2. q \in Nat /\ live[q] \in Nat
          BY DEF IInv, TypeOK
        <5>. QED BY <4>b, <5>1, <5>2, MemoryAssumption
      <4>4. (b < c => After(b) <= c) /\ (c < b => After(c) <= b)
        BY <3>1, <4>1 DEF IInv, Chained
      <4>5. CASE b < c
        <5>1. b + HEADER + heap[b].size <= c
          BY <4>4, <4>5 DEF After
        <5>2. q + live[q] <= p
          BY <3>1, <3>p, <4>1, <4>3, <5>1
        <5>. QED BY <5>2 DEF Alloc!Apart
      <4>6. CASE c < b
        <5>1. c + HEADER + heap[c].size <= b
          BY <4>4, <4>6 DEF After
        <5>2. p + n <= q
          BY <3>1, <3>p, <4>3, <5>1
        <5>. QED BY <5>2 DEF Alloc!Apart
      <4>. QED BY <3>1, <4>2, <4>3, <4>5, <4>6
    <3>4. /\ live' = [q \in DOMAIN live \cup {p} |-> IF q = p THEN n ELSE live[q]]
          /\ reply' = p
      BY <2>5, <3>1, <3>n DEF malloc_take
    <3>5. p + n <= HEAP
      BY <3>1, <3>2, <3>p, MemoryAssumption DEF After
    <3>6. Alloc!Grant(n, p)
      BY <3>3, <3>4, <3>5 DEF Alloc!Grant
    <3>7. n \in (Requests \cap Nat) \ {0}
      BY <3>1
    <3>. QED BY <3>2, <3>6, <3>7 DEF Alloc!Next
  <2>6. CASE malloc_skip
    BY <2>6 DEF malloc_skip
  <2>7. CASE malloc_fail
    BY <2>7 DEF malloc_fail, Alloc!Next, Alloc!Refuse
  <2>8. CASE free_merge
    BY <2>8 DEF free_merge
  <2>9. CASE free_skip
    BY <2>9 DEF free_skip
  <2>10. CASE free_done
    BY <2>10 DEF free_done
  <2>11. CASE UNCHANGED vars
    BY <2>11 DEF vars
  <2>. QED
    BY <2>1, <2>2, <2>3, <2>4, <2>5, <2>6, <2>7, <2>8, <2>9, <2>10, <2>11 DEF Next, Loop
<1>. QED BY <1>1, <1>2, Invariance, PTL DEF Spec, ImplementsAllocator, Alloc!Spec
=============================================================================
