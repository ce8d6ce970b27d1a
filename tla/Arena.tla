-------------------------------- MODULE Arena --------------------------------
(* BumpAllocator, and the same arithmetic in HugeArena: slices of one      *)
(* region by a moving offset, given back all at once or never.             *)
EXTENDS Integers
CONSTANTS WordBits,  \* width of size_t and uintptr_t: 64 in the build
          Ask,       \* sizes that callers request
          Align      \* alignments that callers request

ASSUME ArenaAssumption ==
    /\ WordBits \in Nat \ {0} /\ Ask \subseteq Nat
    /\ Align \subseteq {2^b : b \in 0..(WordBits - 1)}

Word == 2^WordBits                      \* size_t and uintptr_t wrap there

VARIABLES base_,   \* address of the region, 0 for nullptr
          bytes_,  \* size_
          off_,
          blocks   \* what was handed out since the last reset
arenaVars == <<base_, bytes_, off_, blocks>>

round_up(v, a) == (((v + (a - 1)) % Word) \div a) * a

(* The slice a request gets starts at the next aligned address.            *)
aligned(a) == round_up((base_ + off_) % Word, a)
new_offUnpadded(n, a) == (off_ + n) % Word       \* forgets the padding
new_off(n, a) == (((aligned(a) - base_) % Word) + n) % Word

(* A region that does not end beyond the address space.                    *)
ArenaInit(bases, sizes) ==
    /\ base_ \in bases /\ bytes_ \in sizes /\ base_ + bytes_ < Word
    /\ off_ = 0 /\ blocks = {}

alloc(n, a) == /\ base_ # 0 /\ new_off(n, a) <= bytes_
               /\ off_' = new_off(n, a)
               /\ blocks' = blocks \cup {[at |-> aligned(a), n |-> n, a |-> a]}
               /\ UNCHANGED <<base_, bytes_>>

(* nullptr for the caller, and nothing moves.                              *)
allocRefused(n, a) == /\ base_ = 0 \/ new_off(n, a) > bytes_
                      /\ UNCHANGED arenaVars

(* The end of a batch: callers have let go of every block.                 *)
reset == off_' = 0 /\ blocks' = {} /\ UNCHANGED <<base_, bytes_>>

ArenaNext == reset \/ \E n \in Ask, a \in Align : alloc(n, a) \/ allocRefused(n, a)

(***************************************************************************)
(* Properties.                                                             *)
(***************************************************************************)
Bytes(b) == b.at..(b.at + b.n - 1)

(* Whatever mix of sizes and alignments was asked for, from a region that  *)
(* is aligned to nothing, every block is aligned as its caller wanted,     *)
(* inside the region, and shares no byte with another live block.          *)
BlocksSound ==
    /\ \A b \in blocks : /\ b.at % b.a = 0
                         /\ Bytes(b) \subseteq base_..(base_ + bytes_ - 1)
    /\ \A b, c \in blocks : b # c => Bytes(b) \cap Bytes(c) = {}
=============================================================================
