------------------------------- MODULE Memory -------------------------------
(***************************************************************************)
(* The heap of Khukhuri OS (memory/memory.c): a list of blocks in one array, *)
(* first fit, split on allocation, coalescing on release.  Both calls walk   *)
(* the list in a loop; an iteration is one step.                             *)
(*                                                                          *)
(* An address is an offset into heap_area, a block is known by the address   *)
(* of its header, and heap holds the headers that are in the list.  Callers  *)
(* release only what they were given, once.  Sizes near the largest int,     *)
(* where align8 overflows, are not asked for.                                *)
(***************************************************************************)
EXTENDS Integers

CONSTANTS
  HEAP,     \* bytes of heap_area
  HEADER,   \* sizeof(MemoryBlock)
  MIN_BODY, \* the smallest body worth splitting off: 8
  NULL,     \* no block, no pointer
  Requests  \* sizes a caller asks for

ASSUME MemoryAssumption ==
  /\ HEAP \in Nat /\ HEADER \in Nat \ {0} /\ MIN_BODY \in Nat
  /\ HEADER <= HEAP
  /\ NULL \notin Nat
  /\ Requests \subseteq Int

VARIABLES
  heap,   \* heap[a]: the header at address a
  head,
  call,   \* the call under way: which, for how much, and where its loop is
  live,   \* live[p]: bytes asked for at p and not released (kept by the callers)
  reply   \* pointer the last call returned

vars == <<heap, head, call, live, reply>>

Block == [size : Nat, free : BOOLEAN, next : Nat \cup {NULL}]

NoCall == [op |-> "none", size |-> 0, current |-> NULL]
Call   == [op : {"none", "malloc", "free"}, size : Nat, current : Nat \cup {NULL}]
Idle   == call.op = "none"

\* heap_area before the first call: head = 0.
Init ==
  /\ heap = [a \in {} |-> 0]
  /\ head = NULL
  /\ call = NoCall
  /\ live = [p \in {} |-> 0]
  /\ reply = NULL

align8_Down(size) == (size \div 8) * 8 \* faulty: rounds down

align8(size) == ((size + 7) \div 8) * 8

InitialBlock == [size |-> HEAP - HEADER, free |-> TRUE, next |-> NULL]

memory_init ==
  /\ heap' = [a \in {0} |-> InitialBlock]
  /\ head' = 0

-----------------------------------------------------------------------------
(* os_malloc.                                                               *)

malloc_nothing(size) ==
  /\ Idle
  /\ size <= 0
  /\ reply' = NULL
  /\ UNCHANGED <<heap, head, call, live>>

os_malloc(size) ==
  /\ Idle
  /\ size > 0
  /\ \/ head = NULL /\ memory_init
     \/ head # NULL /\ UNCHANGED <<heap, head>>
  /\ call' = [op |-> "malloc", size |-> size, current |-> head']
  /\ UNCHANGED <<live, reply>>

Searching == call.op = "malloc" /\ call.current # NULL

current == heap[call.current]
Request == align8(call.size)
Fits_Taken(b) == b.size >= Request \* faulty: used blocks are taken again

Fits(b) == b.free /\ b.size >= Request

Splits_Tight == current.size >= Request + MIN_BODY \* faulty: no room for a header

Splits == current.size >= Request + HEADER + MIN_BODY

SplitAt == call.current + HEADER + Request

\* The block is cut to the request; what is left becomes a block of its own.
Split ==
  [a \in DOMAIN heap \cup {SplitAt} |->
     IF a = call.current
     THEN [size |-> Request, free |-> FALSE, next |-> SplitAt]
     ELSE IF a = SplitAt
     THEN [size |-> current.size - Request - HEADER, free |-> TRUE, next |-> current.next]
     ELSE heap[a]]

malloc_take ==
  /\ Searching
  /\ Fits(current)
  /\ heap' = IF Splits THEN Split ELSE [heap EXCEPT ![call.current].free = FALSE]
  /\ reply' = call.current + HEADER
  /\ live' = [p \in DOMAIN live \cup {reply'} |-> IF p = reply' THEN call.size ELSE live[p]]
  /\ call' = NoCall
  /\ UNCHANGED head

NextBlock_SkipsOne == \* faulty: two steps at a time
  IF current.next = NULL THEN NULL ELSE heap[current.next].next

NextBlock == current.next

malloc_skip ==
  /\ Searching
  /\ ~Fits(current)
  /\ call' = [call EXCEPT !.current = NextBlock]
  /\ UNCHANGED <<heap, head, live, reply>>

malloc_fail ==
  /\ call.op = "malloc" /\ call.current = NULL
  /\ reply' = NULL
  /\ call' = NoCall
  /\ UNCHANGED <<heap, head, live>>

-----------------------------------------------------------------------------
(* os_free.                                                                 *)

free_nothing ==
  /\ Idle
  /\ reply' = NULL
  /\ UNCHANGED <<heap, head, call, live>>

os_free(ptr) ==
  /\ Idle
  /\ ptr \in DOMAIN live
  /\ heap' = [heap EXCEPT ![ptr - HEADER].free = TRUE]
  /\ live' = [p \in DOMAIN live \ {ptr} |-> live[p]]
  /\ call' = [op |-> "free", size |-> 0, current |-> head]
  /\ reply' = NULL
  /\ UNCHANGED head

Joining == call.op = "free" /\ call.current # NULL /\ current.next # NULL

MayMerge == current.free /\ heap[current.next].free

Merged ==
  [a \in DOMAIN heap \ {current.next} |->
     IF a = call.current
     THEN [size |-> current.size + HEADER + heap[current.next].size,
           free |-> TRUE, next |-> heap[current.next].next]
     ELSE heap[a]]

free_merge_Advances == \* faulty: no continue, the enlarged block is left behind
  /\ Joining
  /\ MayMerge
  /\ heap' = Merged
  /\ call' = [call EXCEPT !.current = Merged[call.current].next]
  /\ UNCHANGED <<head, live, reply>>

\* The loop stays at the block it has enlarged.
free_merge ==
  /\ Joining
  /\ MayMerge
  /\ heap' = Merged
  /\ UNCHANGED <<head, call, live, reply>>

free_skip_UsedOnly == \* faulty: a free block with a used neighbour is not passed
  /\ Joining
  /\ ~MayMerge
  /\ call' = IF current.free THEN call ELSE [call EXCEPT !.current = NextBlock]
  /\ UNCHANGED <<heap, head, live, reply>>

free_skip ==
  /\ Joining
  /\ ~MayMerge
  /\ call' = [call EXCEPT !.current = NextBlock]
  /\ UNCHANGED <<heap, head, live, reply>>

free_done ==
  /\ call.op = "free" /\ ~Joining
  /\ call' = NoCall
  /\ UNCHANGED <<heap, head, live, reply>>

-----------------------------------------------------------------------------

Loop == malloc_take \/ malloc_skip \/ malloc_fail \/ free_merge \/ free_skip \/ free_done

Next ==
  \/ \E size \in Requests : malloc_nothing(size) \/ os_malloc(size)
  \/ free_nothing
  \/ \E ptr \in DOMAIN live : os_free(ptr)
  \/ Loop

Spec == Init /\ [][Next]_vars

\* A call, once made, goes on: its loop never waits for anything.
FairSpec == Spec /\ WF_vars(Loop)

-----------------------------------------------------------------------------
(* Properties.                                                              *)

TypeOK ==
  /\ DOMAIN heap \subseteq Nat /\ heap \in [DOMAIN heap -> Block]
  /\ head \in {0, NULL}
  /\ call \in Call
  /\ DOMAIN live \subseteq Nat /\ live \in [DOMAIN live -> Nat]
  /\ reply \in Nat \cup {NULL}

\* Where the block after the one at a begins.
After(a) == a + HEADER + heap[a].size

\* The blocks of the list lie one behind the other, from the first byte of the
\* heap to its last.
Chained ==
  /\ head = 0 <=> 0 \in DOMAIN heap
  /\ \A a \in DOMAIN heap :
       /\ \/ heap[a].next = After(a) /\ After(a) \in DOMAIN heap
          \/ heap[a].next = NULL /\ After(a) = HEAP
       /\ \A b \in DOMAIN heap : a < b => After(a) <= b

\* The list is a partition of the heap whatever has been split and merged, and
\* no header reaches into the next one (memory.c:29-36, 55-59).
Tiling == Chained /\ \A a \in DOMAIN heap : heap[a].size >= 0

\* What callers hold is exactly what is not free, and it is large enough.
HeldBlocks ==
  /\ \A p \in DOMAIN live :
       /\ p - HEADER \in DOMAIN heap
       /\ ~heap[p - HEADER].free
       /\ live[p] <= heap[p - HEADER].size
  /\ \A a \in DOMAIN heap : ~heap[a].free => a + HEADER \in DOMAIN live

\* Between calls no two free blocks lie side by side: one pass over the list is
\* enough to join whatever a release has brought together (memory.c:53-61).
Coalesced ==
  Idle => \A a \in DOMAIN heap :
            heap[a].free /\ heap[a].next # NULL => ~heap[heap[a].next].free

\* A request is refused only if there is no room for it anywhere: every stretch of
\* the heap that could hold a header and the request touches a block in use,
\* whatever has been split before and however the free bytes are cut into blocks
\* (memory.c:26-42, 53-61).
FailsOnlyIfFull ==
  [][malloc_fail =>
       \A start \in 0 .. HEAP - HEADER - Request :
         \E a \in DOMAIN heap :
           ~heap[a].free /\ start < After(a) /\ a < start + HEADER + Request]_vars

Alloc == INSTANCE Allocator
  WITH HeapSize <- HEAP, Sizes <- Requests \cap Nat, Nothing <- NULL,
       pieces <- live, answer <- reply

\* Pieces given out never share a byte, nor reach past the heap.
ImplementsAllocator == Alloc!Spec

\* Every call returns.
CallsReturn == ~Idle ~> Idle
=============================================================================
