------------------------------ MODULE NoBlame ------------------------------
(***************************************************************************)
(* The memory manager (sys/memory_manager/x86/noblame.asm) and the C       *)
(* allocator over it (lib/c/lib/alloc.c): one pointer, memory_frame, that  *)
(* is only ever lowered.  One thread calls it.  Addresses and sizes are    *)
(* words of W values, as in the registers.                                 *)
(***************************************************************************)
EXTENDS Integers, FiniteSets

CONSTANTS
  W,          \* values of a word
  Bottom,     \* memory_bottom, the end of the kernel's image
  Top,        \* memory_frame_top, the end of memory
  Sizes,      \* sizes that callers ask for
  Counts,     \* the first argument of calloc
  Data,       \* what a program writes to its blocks
  MaxAsked,   \* bound: bytes asked for
  None        \* no block

Address == 0 .. W - 1
Byte == Data \cup {"unset", "zero", "header"}

ASSUME MemoryAssumption ==
  /\ W \in Nat /\ W % 4 = 0
  /\ Bottom \in Nat /\ Top \in Nat /\ 0 < Bottom /\ Bottom <= Top /\ Top < W
  /\ Sizes \subseteq Address /\ Counts \subseteq Address
  /\ MaxAsked \in Nat
  /\ None \notin [base : Address, size : Address]

VARIABLES
  frame,      \* memory_frame
  bytes,      \* what each address holds
  blocks,     \* history: the blocks handed out and not given back
  asked,      \* history: the sum of all requests, those refused included
  heap_call   \* history: the last call, how it ended and its block

heap_vars == <<frame, bytes, blocks, asked, heap_call>>

HeapInit ==
  /\ frame = Top
  /\ bytes = [a \in Address |-> "unset"]
  /\ blocks = {}
  /\ asked = 0
  /\ heap_call = [op |-> "none", result |-> "done", block |-> None]

-----------------------------------------------------------------------------
(* mem.allocate_bare                                                       *)

(* add eax, 3 and and eax, -4, in a register; the size as a number.        *)
RoundUp(n) == LET up == (n + 3) % W IN up - (up % 4)
InWords(n) == (n + 3) - ((n + 3) % 4)

(* A size that is rounded down.                                            *)
LoweredShort(n) == (frame - (n - (n % 4))) % W
Lowered(n) == (frame - RoundUp(n)) % W
Block(n) == [base |-> Lowered(n), size |-> n]

(* The frame is stored before it is compared: a request that is refused    *)
(* lowers it too.                                                          *)
Lower(n) ==
  /\ asked + InWords(n) <= MaxAsked
  /\ asked' = IF n = 0 THEN asked ELSE asked + InWords(n)
  /\ frame' = IF n = 0 THEN frame ELSE Lowered(n)

Fits(n) == n # 0 /\ Lowered(n) >= Bottom

Grant(op, n, result) ==
  /\ Fits(n)
  /\ blocks' = blocks \cup {Block(n)}
  /\ heap_call' = [op |-> op, result |-> result, block |-> Block(n)]
Refuse(op, n, result) ==
  /\ ~Fits(n)
  /\ heap_call' = [op |-> op, result |-> result, block |-> None]
  /\ UNCHANGED blocks

(* A jump through a word that is no return address ends the system.        *)
Running == heap_call.result # "wild"

(* n bytes are copied from one address to another, or set.                 *)
CopiedTo(to, from, n) ==
  [a \in Address |-> IF (a - to) % W < n THEN bytes[(from + ((a - to) % W)) % W] ELSE bytes[a]]
SetTo(to, n, value) ==
  [a \in Address |-> IF (a - to) % W < n THEN value ELSE bytes[a]]

AllocateBare(n) ==
  /\ Running
  /\ Lower(n)
  /\ \/ Grant("allocate_bare", n, "done")
     \/ Refuse("allocate_bare", n, IF n = 0 THEN "other" ELSE "no_mem")
  /\ UNCHANGED bytes

(* The error returns leave the size on the stack, and jump through it.     *)
AllocateBareZero(n) ==
  /\ Running
  /\ Lower(n)
  /\ \/ Grant("allocate_bare_zero", n, "done") /\ bytes' = SetTo(Lowered(n), n, "zero")
     \/ Refuse("allocate_bare_zero", n, "wild") /\ UNCHANGED bytes

(* mem.allocate: a header of two dwords.  Its labels for the errors of     *)
(* allocate_bare are in the other order: "no memory" is reported as other. *)
AllocateTooSmall(n) ==
  /\ Running
  /\ n <= 4
  /\ heap_call' = [op |-> "allocate", result |-> "other", block |-> None]
  /\ UNCHANGED <<frame, bytes, blocks, asked>>
Allocate(n) ==
  /\ Running
  /\ n > 4
  /\ Lower(n)
  /\ \/ Grant("allocate", n, "done") /\ bytes' = SetTo(Lowered(n), 8, "header")
     \/ Refuse("allocate", n, "other") /\ UNCHANGED bytes

(* mem.reallocate copies as many bytes as the new block has from the old   *)
(* one, and its error returns leave three words on the stack.              *)
ReallocateTooSmall(n) ==
  /\ Running
  /\ n <= 4
  /\ heap_call' = [op |-> "reallocate", result |-> "wild", block |-> None]
  /\ UNCHANGED <<frame, bytes, blocks, asked>>
Reallocate(from, n) ==
  /\ Running
  /\ n > 4
  /\ Lower(n)
  /\ \/ Grant("reallocate", n, "moved") /\ bytes' = CopiedTo(Lowered(n), from, n)
     \/ Refuse("reallocate", n, "wild") /\ UNCHANGED bytes

(* mem.deallocate and free look at the range, and free nothing.            *)
Deallocate(b) ==
  /\ Running
  /\ blocks' = blocks \ {b}
  /\ heap_call' = [op |-> "free", block |-> None,
              result |-> IF b.base < Top /\ b.base >= Bottom THEN "done" ELSE "other"]
  /\ UNCHANGED <<frame, bytes, asked>>

-----------------------------------------------------------------------------
(* The C allocator                                                         *)

Malloc(n) ==
  /\ Running
  /\ Lower(n)
  /\ Grant("malloc", n, "done") \/ Refuse("malloc", n, "null")
  /\ UNCHANGED bytes

(* calloc refuses a product that overflows before it asks for it.          *)
CallocOverflow(count, size) ==
  LET n == (count * size) % W IN
  /\ Running
  /\ count # 0 /\ n \div count # size
  /\ heap_call' = [op |-> "calloc", result |-> "null", block |-> None]
  /\ UNCHANGED <<frame, bytes, blocks, asked>>
Calloc(count, size) ==
  LET n == (count * size) % W IN
  /\ Running
  /\ count # 0 => n \div count = size
  /\ Lower(n)
  /\ \/ Grant("calloc", n, "done") /\ bytes' = SetTo(Lowered(n), n, "zero")
     \/ Refuse("calloc", n, "null") /\ UNCHANGED bytes

(* A realloc that copies to where the frame was.                           *)
ReallocAtFrame(from, n) ==
  /\ Running
  /\ Lower(n)
  /\ \/ Grant("realloc", n, "done") /\ bytes' = CopiedTo(frame, from, n)
     \/ Refuse("realloc", n, "null") /\ bytes' = CopiedTo(0, from, n)

(* A realloc that hands out a block and copies nothing to it.              *)
ReallocNoCopy(from, n) ==
  /\ Running
  /\ Lower(n)
  /\ Grant("realloc", n, "done") \/ Refuse("realloc", n, "null")
  /\ UNCHANGED bytes

(* __libc_realloc copies the new size from the old block, whatever that    *)
(* one's size, and to address 0 when there is no new block.                *)
Realloc(from, n) ==
  /\ Running
  /\ Lower(n)
  /\ \/ Grant("realloc", n, "done") /\ bytes' = CopiedTo(Lowered(n), from, n)
     \/ Refuse("realloc", n, "null") /\ bytes' = CopiedTo(0, from, n)

(* The program writes its block.                                           *)
Fill(b, value) ==
  /\ Running
  /\ bytes' = SetTo(b.base, b.size, value)
  /\ heap_call' = [op |-> "fill", result |-> "done", block |-> b]
  /\ UNCHANGED <<frame, blocks, asked>>

(* What a program hands to realloc: a block of its own, or NULL.           *)
Pointers == {0} \cup {b.base : b \in blocks}

HeapNext ==
  \/ \E n \in Sizes :
       AllocateBare(n) \/ AllocateBareZero(n) \/ AllocateTooSmall(n) \/ Allocate(n) \/ Malloc(n)
  \/ \E count \in Counts, size \in Sizes : CallocOverflow(count, size) \/ Calloc(count, size)
  \/ \E n \in Sizes : ReallocateTooSmall(n) \/ \E from \in Pointers : Reallocate(from, n) \/ Realloc(from, n)
  \/ \E b \in blocks : Deallocate(b) \/ \E value \in Data : Fill(b, value)

HeapSpec == HeapInit /\ [][HeapNext]_heap_vars

-----------------------------------------------------------------------------

(* Blocks and their bytes are words.                                       *)
HeapTypeOK ==
  /\ frame \in Address
  /\ bytes \in [Address -> Byte]
  /\ blocks \subseteq [base : Address, size : Address]
  /\ asked \in Nat

(* What has been asked for would fit into the address space under the top, *)
(* so that the frame has not wrapped.                                      *)
Modest == asked <= Top

(* Two blocks that malloc and the others gave out have no byte in common,  *)
(* and lie between the kernel's image and the end of memory, as long as no *)
(* sum of requests, those refused included, wraps memory_frame.            *)
BlocksApart ==
  Modest =>
    /\ \A b \in blocks : Bottom <= b.base /\ b.base + b.size <= Top
    /\ \A b, c \in blocks : b = c \/ b.base + b.size <= c.base \/ c.base + c.size <= b.base

(* No call changes a byte of a block but the block that it returns or      *)
(* fills; a realloc that is refused is the exception, as it copies to      *)
(* address 0, over the image and the blocks when it is long enough.        *)
OthersKept ==
  [][Modest' /\ ~(heap_call'.op = "realloc" /\ heap_call'.result = "null") =>
       \A b \in blocks : b # heap_call'.block =>
         \A i \in 0 .. b.size - 1 : bytes'[b.base + i] = bytes[b.base + i]]_heap_vars

(* The block that realloc or mem.reallocate returns begins with what the   *)
(* old one holds, as far as both go.                                       *)
ReallocKeeps ==
  [][\A b \in blocks, n \in Sizes :
       Modest' /\ (Realloc(b.base, n) \/ Reallocate(b.base, n)) /\ heap_call'.block # None =>
         \A i \in Address : i < n /\ i < b.size => bytes'[heap_call'.block.base + i] = bytes[b.base + i]]_heap_vars
=============================================================================
