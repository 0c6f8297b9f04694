------------------------------ MODULE UAccess ------------------------------
(***************************************************************************)
(* uva_check_range of uaccess.c, by which the system calls decide whether  *)
(* a user's buffer may be read or written, against a reference definition: *)
(* what the processor would let ring 3 do, byte by byte.                   *)
(*                                                                         *)
(* An address has W bits, V of which are translated (64 and 48 in the      *)
(* kernel), a page 2^P bytes.  Arithmetic on addresses is modulo 2^W.  A   *)
(* page table is a function from page numbers to the flags of the leaf     *)
(* entry, 0 where vmm_walk finds none; the tables above the leaves of the  *)
(* user half always have the user and the writable bit (vmm_walk).         *)
(***************************************************************************)
EXTENDS Integers

CONSTANTS W, V, P,
          RootBits,  \* bits of the root index, 9 in the kernel
          Flags      \* flags that vmm_map is called with for user pages

ASSUME WidthAssumption == /\ W \in Nat /\ V \in 1 .. W - 1 /\ P \in 0 .. V - RootBits
                          /\ RootBits \in 1 .. V

ASSUME FlagsAssumption == Flags \subseteq 0 .. 7

\* What the widths make of the powers of two below.
ASSUME PowersAssumption ==
  /\ {2^P, 2^(V - 1), 2^(V - 1 - P), 2^(V - RootBits), 2^(RootBits - 1), 2^(W - V)} \subseteq Nat \ {0}
  /\ 2^(V - 1) = 2^(V - 1 - P) * 2^P
  /\ 2^(V - 1) = 2^(RootBits - 1) * 2^(V - RootBits)
  /\ 2^V = 2 * 2^(V - 1)
  /\ 2^(V - P) = 2 * 2^(V - 1 - P)
  /\ 2^(W - V + 1) = 2 * 2^(W - V)
  /\ 2^W = 2^(W - V + 1) * 2^(V - 1)

KERNEL_PML4_START == 2^(RootBits - 1)

Addresses == 0 .. 2^W - 1
UserPages == 0 .. 2^(V - 1 - P) - 1
KernelPages == 2^(V - 1 - P) .. 2^(V - P) - 1

VARIABLE pt   \* page number -> flags of its leaf entry, 0 for none

present(e) == e % 2 = 1
writable(e) == (e \div 2) % 2 = 1
user_accessible(e) == (e \div 4) % 2 = 1

-----------------------------------------------------------------------------
(* The page table: the user half changes, the kernel half is mapped        *)
(* writable and without the user bit.                                      *)

\* Before there is an address space.
NoTable == <<>>

UAccessInit == pt = [p \in UserPages \cup KernelPages |-> IF p \in KernelPages THEN 3 ELSE 0]

vmm_map(p, flags) == pt' = [pt EXCEPT ![p] = flags]

vmm_unmap(p) == present(pt[p]) /\ pt' = [pt EXCEPT ![p] = 0]

UAccessNext ==
  \E p \in UserPages : vmm_unmap(p) \/ \E flags \in Flags : vmm_map(p, flags)

UAccessSpec == UAccessInit /\ [][UAccessNext]_pt

-----------------------------------------------------------------------------
(* The check                                                               *)

\* Bits V-1 .. W-1 are equal.
is_canonical(a) == a \div 2^(V - 1) \in {0, 2^(W - V + 1) - 1}

pml4_index(a) == (a % 2^V) \div 2^(V - RootBits)

PageOf(a) == (a % 2^V) \div 2^P

uva_check_range_wraps(uva, len, need_write) ==
  \/ len = 0
  \/ LET last_byte == (uva + len - 1) % 2^W IN
     /\ \A a \in {uva, last_byte} : is_canonical(a) /\ pml4_index(a) < KERNEL_PML4_START
     /\ \A p \in PageOf(uva) .. PageOf(last_byte) :
           present(pt[p]) /\ user_accessible(pt[p]) /\ (need_write => writable(pt[p]))

uva_check_range(uva, len, need_write) ==
  \/ len = 0
  \/ LET end == (uva + len) % 2^W
         last_byte == end - 1
     IN  /\ end >= uva
         /\ \A a \in {uva, last_byte} : is_canonical(a) /\ pml4_index(a) < KERNEL_PML4_START
         /\ \A p \in PageOf(uva) .. PageOf(last_byte) :
               present(pt[p]) /\ user_accessible(pt[p]) /\ (need_write => writable(pt[p]))

-----------------------------------------------------------------------------
(* The reference: ring 3 may touch the byte at a.                          *)

SignExtended(a) == a < 2^(V - 1) \/ a >= 2^W - 2^(V - 1)

RingThreeMay(a, write) ==
  /\ a \in Addresses /\ SignExtended(a)
  /\ pt[PageOf(a)] \in (IF write THEN {7} ELSE {5, 7})

\* uva_check_range accepts exactly the ranges all of whose bytes the program
\* could touch itself: ranges that wrap round the address space, that end in
\* the last byte before the kernel's half or the hole, or that cross into a
\* page with other permissions, included.
RangeExact ==
  pt # NoTable =>
  \A uva \in Addresses, len \in 0 .. 2^W - 1, w \in BOOLEAN :
     uva_check_range(uva, len, w) <=> \A k \in 0 .. len - 1 : RingThreeMay(uva + k, w)
=============================================================================
