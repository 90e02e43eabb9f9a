------------------------------ MODULE MemPool ------------------------------
(***************************************************************************)
(* mem::Pool (mempool.hpp), from which commands are made.  A pool is a     *)
(* chain of lists of blocks, one for each size; PoolBuilder (poolbuilder.hpp) *)
(* computes the sizes, PoolFinder the list that serves a type.             *)
(*                                                                         *)
(* One thread, the core's worker, allocates, resizes and shrinks.  It      *)
(* walks a list block by block while any other thread may destroy the      *)
(* object in any block and clear the block's flag.  Each atomic operation  *)
(* on a flag is a step of its own.                                         *)
(***************************************************************************)
EXTENDS Integers, Sequences, FiniteSets, SequencesExt

CONSTANTS
  Block,        \* the addresses the heap gives to blocks
  TypeSizes,    \* sizeof of the types given to PoolSuitableFor, in their order
  InitialCount, \* block_count of the constructor
  Counts        \* bound: the values Resize is called with

ASSUME PoolAssumption ==
  /\ TypeSizes \in Seq(Nat \ {0}) /\ TypeSizes # <<>>
  /\ InitialCount \in Nat \ {0}
  /\ Counts \subseteq Nat \ {0}
  /\ IsFiniteSet(Block)

-----------------------------------------------------------------------------
(* PoolBuilder.                                                              *)

(* Of equal sizes the last is kept; kept[n] is what is left of the last n. *)
EliminateDuplicates ==
  LET count == Len(TypeSizes)
      kept[n \in 0 .. count] ==
        IF n = 0 THEN <<>>
        ELSE LET i == count + 1 - n
             IN IF \E j \in i + 1 .. count : TypeSizes[j] = TypeSizes[i] THEN kept[n - 1]
                ELSE <<TypeSizes[i]>> \o kept[n - 1]
  IN kept[count]

(* Before the first that is not smaller *)
InsertOrdered(v, seq) ==
  InsertAt(seq, Min({i \in 1 .. Len(seq) + 1 : i \in DOMAIN seq => v <= seq[i]}), v)

(* InsertionSort: the last ones first *)
Sizes ==
  LET count == Len(EliminateDuplicates)
      sorted[n \in 0 .. count] ==
        IF n = 0 THEN <<>>
        ELSE InsertOrdered(EliminateDuplicates[count + 1 - n], sorted[n - 1])
  IN sorted[count]

Pool == DOMAIN Sizes

(* The first list, from the small ones on, whose blocks hold a T. *)
Suits(p, size) == size <= Sizes[p] /\ \A q \in 1 .. p - 1 : Sizes[q] < size

(* Mutant: the search begins with the base class. *)
SuitablePoolMutantBase(size) == Len(Sizes)

SuitablePool(size) == CHOOSE p \in Pool : Suits(p, size)

(* The static_asserts: "Block sizes must be in ascending order", and never   *)
(* "Type is too big, no suitable pool found".                                *)
StaticAsserts ==
  /\ Sizes \in Seq(Nat)
  /\ \A p, q \in Pool : p < q => Sizes[p] < Sizes[q]
  /\ \A i \in DOMAIN TypeSizes : \E p \in Pool : Suits(p, TypeSizes[i])

(* PoolBuilder drops repeated sizes, and no other. *)
SizesKept == \A i \in DOMAIN TypeSizes : \E p \in Pool : Sizes[p] = TypeSizes[i]

-----------------------------------------------------------------------------
VARIABLES
  blocks,   \* m_blocks of each pool of the chain
  taken,    \* Block::taken
  buffer,   \* what is in Block::buffer
  call      \* the call the owning thread is in

vars == <<blocks, taken, buffer, call>>

(* The states of a buffer; size is sizeof of the object, 0 without one. *)
Contents == [is : {"raw", "building", "object", "dying"}, size : Nat]
Raw            == [is |-> "raw", size |-> 0]
Building(size) == [is |-> "building", size |-> size]
Object(size)   == [is |-> "object", size |-> size]
Dying(size)    == [is |-> "dying", size |-> size]

(***************************************************************************)
(* A call walks pool "pool" and is before the block at position "at".      *)
(* "extra" is Resize's extra_blocks once it is known.  "busy" is no part   *)
(* of the code: the blocks of this pool that were taken when the walk      *)
(* began.                                                                  *)
(***************************************************************************)
Call == [op : {"none", "allocate", "construct", "resize", "shrink"},
         pool : Nat, at : Nat, size : Nat, count : Nat, extra : Int,
         busy : SUBSET Block]
NoCall == [op |-> "none", pool |-> 0, at |-> 0, size |-> 0, count |-> 0,
           extra |-> 0, busy |-> {}]

Members(p) == Range(blocks[p])
InLists    == UNION {Members(p) : p \in Pool}
Fresh      == Block \ InLists
Busy(p)    == {b \in Members(p) : taken[b]}

Begin(c) == call.op = "none" /\ call' = c

Init ==
  /\ \E f \in [Pool -> [1 .. InitialCount -> Block]] :
       /\ \A p, q \in Pool : \A i, j \in 1 .. InitialCount :
            f[p][i] = f[q][j] => p = q /\ i = j
       /\ blocks = f
  /\ taken  = [b \in Block |-> FALSE]
  /\ buffer = [b \in Block |-> Raw]
  /\ call   = NoCall

-----------------------------------------------------------------------------
(* MakeUnique, MakeShared.                                                   *)

BeginAllocate(size) ==
  LET p == SuitablePool(size)
  IN /\ Begin([op |-> "allocate", pool |-> p, at |-> 1, size |-> size,
               count |-> 0, extra |-> 0, busy |-> Busy(p)])
     /\ UNCHANGED <<blocks, taken, buffer>>

Walked == blocks[call.pool]

(* Whether the walk tests the next block at all. *)
Testing ==
  /\ \/ call.op \in {"allocate", "shrink"}
     \/ call.op = "resize" /\ call.extra < 0
  /\ call.at \in DOMAIN Walked

(* Mutant: the iterator is moved in the body of the loop, too. *)
SkipTakenMutantTwice ==
  /\ Testing /\ taken[Walked[call.at]]
  /\ call' = [call EXCEPT !.at = @ + 2]
  /\ UNCHANGED <<blocks, taken, buffer>>

(* test_and_set finds the flag set. *)
SkipTaken ==
  /\ Testing /\ taken[Walked[call.at]]
  /\ call' = [call EXCEPT !.at = @ + 1]
  /\ UNCHANGED <<blocks, taken, buffer>>

(* A free block is taken and moved to the end of its list. *)
TakeFree ==
  LET b == Walked[call.at]
  IN /\ Testing /\ call.op = "allocate" /\ ~ taken[b]
     /\ taken'  = [taken EXCEPT ![b] = TRUE]
     /\ buffer' = [buffer EXCEPT ![b] = Building(call.size)]
     /\ blocks' = [blocks EXCEPT ![call.pool] = Append(RemoveAt(@, call.at), b)]
     /\ call'   = [call EXCEPT !.op = "construct", !.at = Len(Walked)]

(* Mutant: the loop ends before the last block. *)
GrowMutantEarly ==
  /\ call.op = "allocate" /\ call.at \in {Len(Walked), Len(Walked) + 1}
  /\ \E b \in Fresh :
       /\ taken'  = [taken EXCEPT ![b] = TRUE]
       /\ buffer' = [buffer EXCEPT ![b] = Building(call.size)]
       /\ blocks' = [blocks EXCEPT ![call.pool] = Append(@, b)]
  /\ call' = [call EXCEPT !.op = "construct", !.at = Len(Walked) + 1]

(* No block was free.  Others do not know the new one before it is taken. *)
Grow ==
  /\ call.op = "allocate" /\ call.at = Len(Walked) + 1
  /\ \E b \in Fresh :
       /\ taken'  = [taken EXCEPT ![b] = TRUE]
       /\ buffer' = [buffer EXCEPT ![b] = Building(call.size)]
       /\ blocks' = [blocks EXCEPT ![call.pool] = Append(@, b)]
  /\ call' = [call EXCEPT !.op = "construct"]

Construct ==
  /\ call.op = "construct"
  /\ buffer' = [buffer EXCEPT ![Walked[call.at]] = Object(call.size)]
  /\ call' = NoCall
  /\ UNCHANGED <<blocks, taken>>

(* The constructor throws, and so does Allocate. *)
ConstructorThrows ==
  LET b == Walked[call.at]
  IN /\ call.op = "construct"
     /\ buffer' = [buffer EXCEPT ![b] = Raw]
     /\ taken'  = [taken EXCEPT ![b] = FALSE]
     /\ call' = NoCall
     /\ UNCHANGED blocks

-----------------------------------------------------------------------------
(* Deallocate, on any thread: the destructor runs, then the flag is cleared. *)

(* Mutant: the flag is cleared first. *)
DestroyMutantEarly(b) ==
  /\ buffer[b].is = "object"
  /\ buffer' = [buffer EXCEPT ![b] = Dying(buffer[b].size)]
  /\ taken' = [taken EXCEPT ![b] = FALSE]
  /\ UNCHANGED <<blocks, call>>

Destroy(b) ==
  /\ buffer[b].is = "object"
  /\ buffer' = [buffer EXCEPT ![b] = Dying(buffer[b].size)]
  /\ UNCHANGED <<blocks, taken, call>>

Clear(b) ==
  /\ buffer[b].is = "dying"
  /\ buffer' = [buffer EXCEPT ![b] = Raw]
  /\ taken'  = [taken EXCEPT ![b] = FALSE]
  /\ UNCHANGED <<blocks, call>>

-----------------------------------------------------------------------------
(* ShrinkToFit and Resize: the base class, with the larger blocks, first.    *)

Walk(op, p, n) ==
  [op |-> op, pool |-> p, at |-> 1, size |-> 0, count |-> n,
   extra |-> IF op = "resize" THEN n - Len(blocks[p]) ELSE 0, busy |-> Busy(p)]

BeginShrink ==
  /\ Begin(Walk("shrink", Len(Sizes), 0))
  /\ UNCHANGED <<blocks, taken, buffer>>

BeginResize(n) ==
  /\ Begin(Walk("resize", Len(Sizes), n))
  /\ UNCHANGED <<blocks, taken, buffer>>

(* emplace_front, until no block is missing. *)
Extend ==
  /\ call.op = "resize" /\ call.extra > 0
  /\ \E b \in Fresh :
       /\ blocks' = [blocks EXCEPT ![call.pool] = <<b>> \o @]
       /\ taken'  = [taken EXCEPT ![b] = FALSE]
  /\ call' = [call EXCEPT !.extra = @ - 1]
  /\ UNCHANGED buffer

(* Mutant: the predicate counts, but does not look at the flag. *)
RemoveFreeMutantBlind ==
  /\ Testing /\ call.op \in {"resize", "shrink"}
  /\ blocks' = [blocks EXCEPT ![call.pool] = RemoveAt(@, call.at)]
  /\ call' = [call EXCEPT !.extra = IF call.op = "resize" THEN @ + 1 ELSE @]
  /\ UNCHANGED <<taken, buffer>>

(* Mutant: a hand-written loop steps over the successor of what it erases. *)
RemoveFreeMutantStep ==
  /\ Testing /\ call.op \in {"resize", "shrink"} /\ ~ taken[Walked[call.at]]
  /\ blocks' = [blocks EXCEPT ![call.pool] = RemoveAt(@, call.at)]
  /\ call' = [call EXCEPT !.extra = IF call.op = "resize" THEN @ + 1 ELSE @,
                          !.at = @ + 1]
  /\ UNCHANGED <<taken, buffer>>

(* remove_if removes a free block; the flag it has set dies with the block. *)
RemoveFree ==
  /\ Testing /\ call.op \in {"resize", "shrink"} /\ ~ taken[Walked[call.at]]
  /\ blocks' = [blocks EXCEPT ![call.pool] = RemoveAt(@, call.at)]
  /\ call' = [call EXCEPT !.extra = IF call.op = "resize" THEN @ + 1 ELSE @]
  /\ UNCHANGED <<taken, buffer>>

WalkOver ==
  \/ call.op = "shrink" /\ call.at = Len(Walked) + 1
  \/ call.op = "resize" /\ \/ call.extra = 0
                           \/ call.extra < 0 /\ call.at = Len(Walked) + 1

LeavePool ==
  /\ WalkOver
  /\ call' = IF call.pool = 1 THEN NoCall
             ELSE Walk(call.op, call.pool - 1, call.count)
  /\ UNCHANGED <<blocks, taken, buffer>>

-----------------------------------------------------------------------------
Next ==
  \/ \E i \in DOMAIN TypeSizes : BeginAllocate(TypeSizes[i])
  \/ SkipTaken \/ TakeFree \/ Grow \/ Construct \/ ConstructorThrows
  \/ \E b \in Block : Destroy(b) \/ Clear(b)
  \/ BeginShrink
  \/ \E n \in Counts : BeginResize(n)
  \/ Extend \/ RemoveFree \/ LeavePool

Spec == Init /\ [][Next]_vars

-----------------------------------------------------------------------------
(* The lists hold blocks, and the walk of the owning thread never leaves the *)
(* list it walks, whatever it removes or moves on its way.                   *)
TypeOK ==
  /\ blocks \in [Pool -> Seq(Block)]
  /\ taken \in [Block -> BOOLEAN]
  /\ buffer \in [Block -> Contents]
  /\ call \in Call
  /\ call.op # "none" => /\ call.pool \in Pool
                         /\ call.at \in 1 .. Len(blocks[call.pool]) + 1
  /\ call.op = "construct" => call.at \in DOMAIN blocks[call.pool]

(***************************************************************************)
(* Deallocate runs on other threads while the owner removes blocks it finds *)
(* free (mempool.hpp:107, 123): as long as an object is made, lives or is   *)
(* being destroyed, its block stays in a list, with its flag set, and thus  *)
(* is neither given out again nor given back to the heap.                   *)
(***************************************************************************)
InUseKept ==
  \A b \in Block : buffer[b].is # "raw" => taken[b] /\ b \in InLists

(***************************************************************************)
(* An object is in a block of the smallest size that holds it, for any      *)
(* order and repetition of the types PoolBuilder is given.                  *)
(***************************************************************************)
SmallestFit ==
  \A p \in Pool : \A b \in Members(p) : buffer[b].is # "raw" =>
    /\ buffer[b].size <= Sizes[p]
    /\ \A s \in {TypeSizes[i] : i \in DOMAIN TypeSizes} :
         buffer[b].size <= s => Sizes[p] <= s

(***************************************************************************)
(* Blocks become free behind the back of Allocate's loop.  It takes memory  *)
(* from the heap only if every block of its list was taken when it began;   *)
(* blocks no object has needed come from the constructor and Resize only.   *)
(***************************************************************************)
GrowsOnlyWhenFull ==
  [][Grow => Members(call.pool) \subseteq call.busy]_vars

(***************************************************************************)
(* When ShrinkToFit or Resize is done with a list, the list has the size    *)
(* asked for, or it is larger and every block left was taken when the walk  *)
(* began: none that was free all the time stays.                            *)
(***************************************************************************)
GivesBackFree ==
  [][LeavePool =>
       \/ call.op = "resize" /\ Len(Walked) = call.count
       \/ Len(Walked) >= call.count /\ Members(call.pool) \subseteq call.busy]_vars

(***************************************************************************)
(* The pool implements an allocator: an object gets memory nobody uses, and *)
(* memory in use is not given back to the heap.                             *)
(***************************************************************************)
InUse == {b \in Block : buffer[b].is # "raw"}

Memory == INSTANCE Allocator WITH memory <- InLists, inUse <- InUse

AllocatorSpec == Memory!Spec
=============================================================================
