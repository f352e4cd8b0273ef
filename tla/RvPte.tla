-------------------------------- MODULE RvPte -------------------------------
(***************************************************************************)
(* Page tables of the RISC-V processors and the walk through them          *)
(* (riscv_rv32ima/virt_mem.h and cpu.c, and their 64-bit counterparts).    *)
(*                                                                         *)
(* A virtual page and a physical frame are sequences of Levels numbers,    *)
(* the indices or the parts of the frame number from the highest level     *)
(* down: two for Sv32, three for Sv39.  A mapping is for the pages that    *)
(* begin with vpn, so Len(vpn) tells pages, megapages and gigapages apart. *)
(* The accessed and dirty bits of a page table entry are kept apart from   *)
(* the rest of it.                                                         *)
(***************************************************************************)
EXTENDS Integers, Sequences

CONSTANTS
    Levels,     \* 2 for Sv32, 3 for Sv39
    Index,      \* the indices of a table: 0 .. 1023 or 0 .. 511, scaled down
    Tables,     \* the frames that hold page tables
    Ptes,       \* the page table entries that the guest writes
    Asids,      \* the address space identifiers
    Accesses    \* the accesses of the guest and the debugger

ASSUME RvPteAssumption ==
    /\ Levels \in Nat \ {0}
    /\ \A pte \in Ptes : pte.v /\ ~(pte.r \/ pte.w \/ pte.x) => pte.ppn \in Tables
    /\ \A acc \in Accesses : acc.virt \in [1 .. Levels -> Index]

Addresses == Tables \X Index
Virts == [1 .. Levels -> Index]

---------------------------------------------------------------------------
\* Page table entries and the walk of the tables of root.
is_pte_leaf(pte) == pte.r \/ pte.w \/ pte.x
is_pte_valid(pte) == pte.v /\ (pte.w => pte.r)
IsAligned(ppn, level) == \A k \in level + 1 .. Levels : ppn[k] = 0

Result(at, pte, vpn, global) ==
    [fault |-> ~is_pte_valid(pte) \/ ~is_pte_leaf(pte) \/ ~IsAligned(pte.ppn, Len(vpn)),
     at |-> at, pte |-> pte, vpn |-> vpn, global |-> global]
Walk(tab, root, virt) ==
    LET at[k \in 1 .. Levels] == <<IF k = 1 THEN root ELSE tab[at[k - 1]].ppn, virt[k]>>
        Goes(k) == \A j \in 1 .. k - 1 : is_pte_valid(tab[at[j]]) /\ ~is_pte_leaf(tab[at[j]])
        level == CHOOSE k \in 1 .. Levels :
                     /\ Goes(k)
                     /\ k = Levels \/ ~is_pte_valid(tab[at[k]]) \/ is_pte_leaf(tab[at[k]])
    IN Result(at[level], tab[at[level]], SubSeq(virt, 1, level), \E k \in 1 .. level : tab[at[k]].g)

\* The mapping a walk comes to, and those in force.
Mapping(walk, asid) == [pte |-> walk.pte, vpn |-> walk.vpn, asid |-> asid, global |-> walk.global]
InForce(tab, s) ==
    IF ~s.on THEN {}
    ELSE {Mapping(w, s.asid) : w \in {u \in {Walk(tab, s.root, virt) : virt \in Virts} : ~u.fault}}

entry_maps_virt(m, virt) == m.vpn = SubSeq(virt, 1, Len(m.vpn))
For(asid, m) == m.global \/ m.asid = asid

---------------------------------------------------------------------------
\* An access acc: its kind, the mode it is made in, whether it is the guest's
\* (noisy) or the debugger's.
rv_umode == 0
rv_smode == 1
rv_mmode == 3

effective_priv(acc) == IF acc.mprv THEN acc.mpp ELSE acc.priv
use_sv32(s, acc) == effective_priv(acc) <= rv_smode /\ s.on /\ ~(acc.priv = rv_mmode /\ acc.kind = "fetch")

is_access_allowed(acc, pte) ==
    /\ acc.kind = "write" => pte.w
    /\ acc.kind = "fetch" => pte.x
    /\ acc.kind = "read" => pte.r \/ (acc.mxr /\ pte.x)
    /\ effective_priv(acc) = rv_smode => (pte.u => acc.sum /\ acc.kind # "fetch")
    /\ effective_priv(acc) = rv_umode => pte.u

make_phys_from_ppn(virt, m) == [k \in 1 .. Levels |-> IF k <= Len(m.vpn) THEN m.pte.ppn[k] ELSE virt[k]]

Fault == <<>>
Idle == [acc |-> [kind |-> "none"], phys |-> Fault]
\* What an access comes to under a mapping.
Permits(acc, m) == is_pte_valid(m.pte) /\ is_access_allowed(acc, m.pte) /\ IsAligned(m.pte.ppn, Len(m.vpn))
By(acc, m) == IF Permits(acc, m) THEN make_phys_from_ppn(acc.virt, m) ELSE Fault

\* What a fence or a flush covers.
Covers(f, m) ==
    /\ f.asid # {} => ~m.global /\ m.asid \in f.asid
    /\ f.virt # {} => \E virt \in f.virt : entry_maps_virt(m, virt)

---------------------------------------------------------------------------
Ad(kind) == IF kind = "write" THEN {"a", "d"} ELSE {"a"}
Bare == [on |-> FALSE]
Satps == {Bare} \cup [on : {TRUE}, asid : Asids, root : Tables]
Fences == [asid : {{}} \cup {{a} : a \in Asids}, virt : {{}} \cup {{v} : v \in Virts}]
=============================================================================
