------------------------------ MODULE Tensors ------------------------------
(***************************************************************************)
(* Tensors and the allocators behind them (core/tensor.hpp,                *)
(* core/allocator.hpp).  Tensor is move-only and owns its bytes; the heap  *)
(* and page allocators take them from the C++ runtime, the arena hands out *)
(* one buffer from the front and frees it all at once in reset().          *)
(*                                                                         *)
(* A block of the C++ runtime is an address that holds one value; the      *)
(* arena is an array of bytes.  What fresh memory holds is whatever was    *)
(* last there.  operator new does not fail.                                *)
(***************************************************************************)
EXTENDS Integers, FiniteSets

CONSTANTS
  Names,      \* variables of type Tensor
  Addresses,  \* blocks of the C++ runtime
  Capacity,   \* of the arena
  Align,      \* what a Tensor asks an allocator for: alignof(double), 8; a
              \* power of two, as every alignment
  Sizes,      \* byte sizes of tensors
  Values      \* what a kernel fills a tensor with

MaxAlign == 16                    \* alignof(std::max_align_t)
kPage == 4096
Null == -1                        \* nullptr

ASSUME TensorsAssumption ==
  /\ Capacity \in Nat /\ Sizes \subseteq Nat
  /\ Align \in Nat \ {0}
  /\ Values \subseteq Nat /\ 0 \in Values
  /\ \A a \in Addresses : a \notin Int

VARIABLES
  tensor,   \* name -> the Tensor, or Dead outside its lifetime
  block,    \* address -> alignment it was allocated with, 0 if not allocated
  held,     \* address -> value in its bytes
  offset,   \* offset_ of the arena
  bytes,    \* value of each byte of the arena
  written,  \* ghost: name -> value its owner last wrote, or Unwritten if it has
            \* written none or its arena was reset since
  stale     \* ghost: names of tensors whose arena was reset under them

vars == <<tensor, block, held, offset, bytes, written, stale>>

Unwritten == -1
Dead == [alloc |-> "dead", size |-> 0, data |-> Null]
Empty == [alloc |-> "none", size |-> 0, data |-> Null]   \* Tensor()
Tensors == [alloc : {"dead", "none", "heap", "page", "arena"}, size : Nat,
            data : Addresses \cup Nat \cup {Null}]

Init ==
  /\ tensor = [t \in Names |-> Dead]
  /\ block = [a \in Addresses |-> 0]
  /\ held \in {[a \in Addresses |-> v] : v \in Values}
  /\ offset = 0
  /\ bytes \in {[i \in 0 .. Capacity - 1 |-> v] : v \in Values}
  /\ written = [t \in Names |-> Unwritten]
  /\ stale = {}

---------------------------------------------------------------------------
(* Allocators *)

\* The alignment a block is allocated with, and the one it is freed with: the
\* heap allocator's free does not know what its alloc was asked for.
HeapAlign(align) == IF align < MaxAlign THEN MaxAlign ELSE align
NewAlign(alloc) == IF alloc = "page" THEN kPage ELSE HeapAlign(Align)
DeleteAlign(alloc) == IF alloc = "page" THEN kPage ELSE MaxAlign

\* Mutant: the start is rounded down to the alignment.
ArenaStartDown(from, align) == (from \div align) * align

\* (offset_ + align - 1) & ~(align - 1)
ArenaStart(from, align) == ((from + align - 1) \div align) * align

\* What ArenaAllocator::alloc returns and leaves in offset_: no data if the
\* arena is too full.
Fits(size) == size # 0 /\ ArenaStart(offset, Align) + size <= Capacity
ArenaData(size) == IF Fits(size) THEN ArenaStart(offset, Align) ELSE Null
ArenaNext(size) == IF Fits(size) THEN ArenaStart(offset, Align) + size ELSE offset

\* What HeapAllocator::alloc and PageAlignedAllocator::alloc do.
BlockAlloc(size, at) == IF size = 0 THEN at = Null ELSE at \in Addresses /\ block[at] = 0

\* The blocks after release() of t: IAllocator::free on its data.
Released(t) ==
  [a \in Addresses |->
     IF tensor[t].alloc \in {"heap", "page"} /\ tensor[t].data = a THEN 0 ELSE block[a]]

---------------------------------------------------------------------------
(* Lifetime of a tensor *)

\* Tensor()
Default(t) ==
  /\ tensor[t] = Dead
  /\ tensor' = [tensor EXCEPT ![t] = Empty]
  /\ UNCHANGED <<block, held, offset, bytes, written, stale>>

\* Tensor(dt, shape, alloc) on the heap or page allocator.
NewBlock(t, size, alloc, at) ==
  /\ tensor[t] = Dead
  /\ BlockAlloc(size, at)
  /\ tensor' = [tensor EXCEPT ![t] = [alloc |-> alloc, size |-> size, data |-> at]]
  /\ block' = [a \in Addresses |-> IF a = at THEN NewAlign(alloc) ELSE block[a]]
  /\ UNCHANGED <<held, offset, bytes, written, stale>>

\* Tensor(dt, shape, arena).
NewInArena(t, size) ==
  /\ tensor[t] = Dead
  /\ tensor' = [tensor EXCEPT ![t] = [alloc |-> "arena", size |-> size, data |-> ArenaData(size)]]
  /\ offset' = ArenaNext(size)
  /\ UNCHANGED <<block, held, bytes, written, stale>>

\* A kernel fills t, or zero() does with v = 0: no data, no write.  The
\* caller that resets an arena no longer writes to the tensors left in it.
Fill(t, v) ==
  /\ tensor[t].data # Null /\ t \notin stale
  /\ held' = [a \in Addresses |-> IF tensor[t].data = a THEN v ELSE held[a]]
  /\ bytes' = [i \in 0 .. Capacity - 1 |->
                 IF tensor[t].alloc = "arena" /\ i \in tensor[t].data .. tensor[t].data + tensor[t].size - 1
                 THEN v ELSE bytes[i]]
  /\ written' = [written EXCEPT ![t] = v]
  /\ UNCHANGED <<tensor, block, offset, stale>>

\* ~Tensor()
Destroy(t) ==
  /\ tensor[t] # Dead
  /\ block' = Released(t)
  /\ tensor' = [tensor EXCEPT ![t] = Dead]
  /\ written' = [written EXCEPT ![t] = Unwritten]
  /\ stale' = stale \ {t}
  /\ UNCHANGED <<held, offset, bytes>>

\* steal(): the shape, which is a vector, moves with the rest.
Stolen(t, other) == [tensor EXCEPT ![t] = tensor[other], ![other] = Empty]

StaleMoved(t, other) == (stale \ {t, other}) \cup (IF other \in stale THEN {t} ELSE {})

\* Tensor(Tensor&&)
MoveNew(t, other) ==
  /\ tensor[t] = Dead /\ tensor[other] # Dead
  /\ tensor' = Stolen(t, other)
  /\ written' = [written EXCEPT ![t] = written[other], ![other] = Unwritten]
  /\ stale' = StaleMoved(t, other)
  /\ UNCHANGED <<block, held, offset, bytes>>

\* Mutant: what t held is not freed.
MoveAssignLeaks(t, other) ==
  /\ tensor[t] # Dead /\ tensor[other] # Dead /\ t # other
  /\ tensor' = Stolen(t, other)
  /\ written' = [written EXCEPT ![t] = written[other], ![other] = Unwritten]
  /\ stale' = StaleMoved(t, other)
  /\ UNCHANGED <<block, held, offset, bytes>>

\* operator=(Tensor&&); of itself, nothing.
MoveAssign(t, other) ==
  /\ tensor[t] # Dead /\ tensor[other] # Dead /\ t # other
  /\ block' = Released(t)
  /\ tensor' = Stolen(t, other)
  /\ written' = [written EXCEPT ![t] = written[other], ![other] = Unwritten]
  /\ stale' = StaleMoved(t, other)
  /\ UNCHANGED <<held, offset, bytes>>

\* ArenaAllocator::reset(), with or without tensors left in the arena.
Reset ==
  /\ offset' = 0
  /\ written' = [t \in Names |-> IF tensor[t].alloc = "arena" THEN Unwritten ELSE written[t]]
  /\ stale' = {t \in Names : tensor[t].alloc = "arena"}
  /\ UNCHANGED <<tensor, block, held, bytes>>

Create(t) ==
  \/ Default(t)
  \/ \E size \in Sizes, alloc \in {"heap", "page"}, at \in Addresses \cup {Null} :
       NewBlock(t, size, alloc, at)
  \/ \E size \in Sizes : NewInArena(t, size)

Next ==
  \/ \E t \in Names : Create(t) \/ Destroy(t)
  \/ \E t \in Names, v \in Values : Fill(t, v)
  \/ \E t, other \in Names : MoveNew(t, other) \/ MoveAssign(t, other)
  \/ Reset

Spec == Init /\ [][Next]_vars

---------------------------------------------------------------------------
(* Properties *)

\* Memory that t owns: a block, or the bytes it was given in the arena.
HasBlock(t) == tensor[t].alloc \in {"heap", "page"} /\ tensor[t].data # Null
InArena(t) == tensor[t].alloc = "arena" /\ tensor[t].data # Null
Extent(t) == tensor[t].data .. tensor[t].data + tensor[t].size - 1

TypeOK ==
  /\ tensor \in [Names -> Tensors]
  /\ \A t \in Names : /\ HasBlock(t) => tensor[t].data \in Addresses
                      /\ InArena(t) => tensor[t].data \in Nat
                      /\ tensor[t].alloc \in {"dead", "none"} => tensor[t].data = Null
  /\ block \in [Addresses -> Nat]
  /\ offset \in 0 .. Capacity

\* Every allocated block has one owner, who frees it with the alignment it was
\* allocated with: no leak, no double free and no use after free, whatever
\* was moved where.  The alignments agree as long as Tensor asks for no more
\* than MaxAlign.
OneOwner ==
  /\ \A t \in Names : HasBlock(t) => block[tensor[t].data] = DeleteAlign(tensor[t].alloc)
  /\ \A s, t \in Names : HasBlock(s) /\ HasBlock(t) /\ tensor[s].data = tensor[t].data => s = t
  /\ \A a \in Addresses : block[a] # 0 => \E t \in Names : HasBlock(t) /\ tensor[t].data = a

\* A tensor holds what was last written to it, until its arena is reset,
\* however many tensors come, move and go meanwhile: live tensors never
\* overlap.
ContentsKept ==
  \A t \in Names :
    written[t] # Unwritten =>
      /\ HasBlock(t) => held[tensor[t].data] = written[t]
      /\ InArena(t) => \A i \in Extent(t) : i \in 0 .. Capacity - 1 /\ bytes[i] = written[t]
=============================================================================
