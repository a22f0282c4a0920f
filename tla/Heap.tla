-------------------------------- MODULE Heap -------------------------------
(***************************************************************************)
(* The kernel heap (kernel/heap.c): a first-fit allocator over one arena.  *)
(*                                                                         *)
(* The linked list of blocks, in address order, is a sequence of records;  *)
(* "at" is the offset of the block's header in the arena.  Sizes are       *)
(* size_t: arithmetic is modulo WORD.  No part of the kernel calls the     *)
(* heap yet; the client below does what include/heap.h allows, which       *)
(* leaves out freeing a block twice.                                       *)
(***************************************************************************)
EXTENDS Integers, SequencesExt

CONSTANTS
  HEAP_SIZE,    \* bytes in the arena
  HEADER,       \* sizeof(struct block)
  ALIGNMENT,
  WORD,         \* size_t counts modulo WORD
  Requests,     \* sizes a client asks for
  Counts        \* element counts given to kcalloc

ASSUME HeapAssumption ==
  /\ HEAP_SIZE \in Nat /\ HEADER \in Nat /\ ALIGNMENT \in Nat /\ WORD \in Nat
  /\ 0 < ALIGNMENT /\ ALIGNMENT < HEADER /\ HEADER < HEAP_SIZE
  /\ HEAP_SIZE + HEADER + ALIGNMENT < WORD /\ WORD % ALIGNMENT = 0
  /\ HEAP_SIZE % ALIGNMENT = 0
  /\ Requests \cup Counts \subseteq 0 .. WORD - 1

VARIABLES
  blocks,   \* the list that starts at "first"
  live      \* the client's blocks: [ptr, asked]

vars == <<blocks, live>>

NULL == -1

(* Rounds up to a multiple of ALIGNMENT; the sum may wrap. *)
align_up(value) ==
  LET sum == (value + ALIGNMENT - 1) % WORD IN sum - (sum % ALIGNMENT)

payload(b) == b.at + HEADER

heap_init == <<[at |-> 0, size |-> HEAP_SIZE - HEADER, free |-> 1]>>

(* Mutant: no room is kept for the header of the rest. *)
split_NoHeader(list, i, wanted) ==
  LET b    == list[i]
      rest == [at   |-> payload(b) + wanted,
               size |-> b.size - wanted - HEADER,
               free |-> 1]
  IN  IF b.size < wanted + ALIGNMENT THEN list
      ELSE InsertAt([list EXCEPT ![i].size = wanted], i + 1, rest)

(* The list with block i cut down to "wanted" bytes, if the rest is worth  *)
(* a block of its own.                                                     *)
split(list, i, wanted) ==
  LET b    == list[i]
      rest == [at   |-> payload(b) + wanted,
               size |-> b.size - wanted - HEADER,
               free |-> 1]
  IN  IF b.size < wanted + HEADER + ALIGNMENT THEN list
      ELSE InsertAt([list EXCEPT ![i].size = wanted], i + 1, rest)

Fits(size) == {i \in 1 .. Len(blocks) :
                 blocks[i].free = 1 /\ blocks[i].size >= size}

(* What kmalloc(size) returns, and the list it leaves: the first block     *)
(* that fits is split and taken.                                           *)
kmalloc(size) ==
  LET wanted == align_up(size)
      i      == Min(Fits(wanted))
  IN  IF size = 0 \/ Fits(wanted) = {} THEN [ptr |-> NULL, list |-> blocks]
      ELSE [ptr  |-> payload(blocks[i]),
            list |-> [split(blocks, i, wanted) EXCEPT ![i].free = 0]]

(* What is left of the list when nearly every byte of memory is set to 0:  *)
(* "first" is gone, and the code with it.                                  *)
Wiped == <<>>

(* The list after memset(ptr, 0, total).  The bytes of the block itself    *)
(* are the client's.  More than it holds is asked for only when align_up   *)
(* has wrapped: then total is all of the address space but a few bytes,    *)
(* which lie in the block's own header.                                    *)
Zeroed(list, ptr, total) ==
  IF \E b \in ToSet(list) : payload(b) = ptr /\ total <= b.size THEN list
  ELSE Wiped

(* Mutant: a product that wraps is not noticed. *)
kcalloc_NoTest(count, size) ==
  LET got == kmalloc((count * size) % WORD) IN
  IF got.ptr = NULL THEN got
  ELSE [got EXCEPT !.list = Zeroed(@, got.ptr, (count * size) % WORD)]

(* NULL if the product wraps; then kmalloc, and what it returns is zeroed. *)
kcalloc(count, size) ==
  LET total == (count * size) % WORD
      got   == kmalloc(total)
  IN  IF count # 0 /\ total \div count # size
        THEN [ptr |-> NULL, list |-> blocks]
      ELSE IF got.ptr = NULL THEN got
      ELSE [got EXCEPT !.list = Zeroed(@, got.ptr, total)]

(* Mutant: the header of the merged block is lost. *)
Merge_NoHeader(done, b) ==
  IF done # <<>> /\ Last(done).free = 1 /\ b.free = 1
    THEN [done EXCEPT ![Len(done)].size = @ + b.size]
    ELSE Append(done, b)

(* Every run of free blocks becomes one block, in one pass over the list. *)
Merge(done, b) ==
  IF done # <<>> /\ Last(done).free = 1 /\ b.free = 1
    THEN [done EXCEPT ![Len(done)].size = @ + HEADER + b.size]
    ELSE Append(done, b)

coalesce(list) == FoldLeft(Merge, <<>>, list)

Header(ptr) == CHOOSE i \in 1 .. Len(blocks) : blocks[i].at = ptr - HEADER

(* Mutant: free blocks are left in pieces. *)
kfree_NoCoalesce(ptr) == [blocks EXCEPT ![Header(ptr)].free = 1]

kfree(ptr) == coalesce([blocks EXCEPT ![Header(ptr)].free = 1])

-----------------------------------------------------------------------------
(* A client.  A call that does not return because it wiped the memory has  *)
(* its request in "live"; it is the last one.                              *)

Take(result, asked) ==
  /\ blocks' = result.list
  /\ live' = IF result.ptr = NULL THEN live
             ELSE live \cup {[ptr |-> result.ptr, asked |-> asked]}

Malloc(size) == Take(kmalloc(size), size)

Calloc(count, size) == Take(kcalloc(count, size), count * size)

Free(x) == blocks' = kfree(x.ptr) /\ live' = live \ {x}

Init == blocks = heap_init /\ live = {}

Next ==
  /\ blocks # Wiped
  /\ \/ \E size \in Requests : Malloc(size)
     \/ \E count \in Counts, size \in Requests : Calloc(count, size)
     \/ \E x \in live : Free(x)

Spec == Init /\ [][Next]_vars

-----------------------------------------------------------------------------
(* Properties *)

(* The list holds blocks of the arena, and clients hold addresses in it. *)
TypeOK ==
  /\ blocks \in
       Seq([at : 0 .. HEAP_SIZE, size : 0 .. HEAP_SIZE, free : {0, 1}])
  /\ \A x \in live : x.ptr \in 0 .. HEAP_SIZE

(* The sizes for which align_up wraps to 0. *)
WrappingSizes == WORD - ALIGNMENT + 1 .. WORD - 1

(* The list can only be lost to a request of such a size. *)
OrWipedByWrap(claim) ==
  IF blocks = Wiped THEN \E x \in live : x.asked \in WrappingSizes ELSE claim

(* No byte of the arena is lost or in two blocks: each block starts where  *)
(* the previous one ends, and the last one ends with the arena.  Nothing   *)
(* writes over the headers but a kcalloc of nearly 2^32 bytes.             *)
BlocksTileTheArena ==
  LET End(b) == b.at + HEADER + b.size IN
  OrWipedByWrap(
    /\ blocks[1].at = 0
    /\ \A i \in 1 .. Len(blocks) - 1 : blocks[i + 1].at = End(blocks[i])
    /\ End(Last(blocks)) = HEAP_SIZE)

(* The blocks in use are exactly the ones clients hold, each at least as   *)
(* large as the client asked for (heap.h), products of kcalloc that do not *)
(* fit in size_t included; left out are the sizes that align_up wraps.     *)
ClientsOwnTheirBlocks ==
  OrWipedByWrap(
    /\ {payload(b) : b \in {c \in ToSet(blocks) : c.free = 0}}
         = {x.ptr : x \in live}
    /\ \A x \in live :
         x.asked \notin WrappingSizes => blocks[Header(x.ptr)].size >= x.asked
    /\ \A x, y \in live : x.ptr = y.ptr => x = y)

(* Freeing puts the heap together again: no two neighbours are both free,  *)
(* so that when nothing is in use all of the arena is one block.           *)
FullyMerged ==
  \A i \in 1 .. Len(blocks) - 1 : blocks[i].free = 0 \/ blocks[i + 1].free = 0
=============================================================================
