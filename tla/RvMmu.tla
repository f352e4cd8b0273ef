-------------------------------- MODULE RvMmu -------------------------------
(***************************************************************************)
(* Address translation of the RISC-V processors: the TLB                   *)
(* (riscv_rv32ima/tlb.c), the page walk that fills it and updates the       *)
(* accessed and dirty bits, the fences, and the console's commands.         *)
(*                                                                         *)
(* lru holds the entries, those in use in the order of lru_list, the last  *)
(* used one first.  The free ones stand anywhere between them: their place *)
(* means nothing, and which of them is taken does not matter.              *)
(***************************************************************************)
EXTENDS RvPte

CONSTANTS
    Images,     \* the page tables and the satp that a guest has set up
    Stores,     \* the stores to the page tables that a guest makes
    Fenced,     \* the pages that the guest's fences name
    DefaultSize, \* DEFAULT_RV_TLB_SIZE, scaled down
    Sizes,      \* the sizes the console gives the TLB
    MaxChanges  \* bound: stores to the tables, writes of satp and console commands

ASSUME RvMmuAssumption ==
    /\ Images \subseteq [table : [Addresses -> Ptes], satp : Satps]
    /\ Stores \subseteq [addr : Addresses, pte : Ptes, ad : SUBSET {"a", "d"}]
    /\ Fenced \subseteq Virts
    /\ Sizes \subseteq Nat \ {0} /\ DefaultSize \in Sizes
    /\ Asids = 0 .. 2 ^ 1 - 1
    /\ MaxChanges \in Nat

VARIABLES
    table, ad, satp,
    asid_len,   \* csr.asid_len
    lru,        \* tlb.entries: [1 .. tlb.size -> entries]
    changes,    \* how many changes were made
    past,       \* history: the mappings in force since a fence or a flush covered them
    out         \* history: the access just made and what it came to

vars == <<table, ad, satp, asid_len, lru, changes, past, out>>

Free == [src |-> "free"]
Init ==
    /\ \E image \in Images : table = image.table /\ satp = image.satp
    /\ ad = [addr \in Addresses |-> {}]
    /\ asid_len = 1
    /\ lru = [i \in 1 .. DefaultSize |-> Free]
    /\ changes = 0
    /\ past = {}
    /\ out = Idle

---------------------------------------------------------------------------
\* The TLB.  An entry remembers, as a history, where its page table entry is
\* and whether a walk of the guest's put it here, one of the debugger's, or
\* the table was written since.  ToFront takes the entry at i out and pushes
\* entry to the front.
ToFront(l, i, entry) == [j \in DOMAIN l |-> IF j = 1 THEN entry ELSE IF j <= i THEN l[j - 1] ELSE l[j]]
FirstOf(set) == CHOOSE i \in set : \A j \in set : i <= j
Last(l) == CHOOSE i \in DOMAIN l : \A j \in DOMAIN l : j <= i

Unused(l) == {i \in DOMAIN l : l[i] = Free}
tlb_add_mapping(l, entry) == ToFront(l, IF Unused(l) # {} THEN FirstOf(Unused(l)) ELSE Last(l), entry)

Hits_AnyAsid(l, asid, virt) == {i \in DOMAIN l : l[i] # Free /\ entry_maps_virt(l[i].map, virt)}
Hits(l, asid, virt) == {i \in DOMAIN l : l[i] # Free /\ For(asid, l[i].map) /\ entry_maps_virt(l[i].map, virt)}
move_lru_entry_to_front(l, i) == ToFront(l, i, l[i])
Invalidate(l, set) == [i \in DOMAIN l |-> IF i \in set THEN Free ELSE l[i]]
tlb_remove_mapping(l, asid, virt) ==
    IF Hits(l, asid, virt) = {} THEN l ELSE Invalidate(l, {FirstOf(Hits(l, asid, virt))})
tlb_flush(l) == Invalidate(l, DOMAIN l)
tlb_flush_by(l, f) == Invalidate(l, {i \in DOMAIN l : l[i] # Free /\ Covers(f, l[i].map)})

---------------------------------------------------------------------------
pte_access_dirty_update_needed(bits, kind) == "a" \notin bits \/ ("d" \notin bits /\ kind = "write")

pagewalk_KeepsClean(l, acc) ==
    LET w == Walk(table, satp.root, acc.virt)
        needed == pte_access_dirty_update_needed(ad[w.at], acc.kind)
        bits == ad[w.at] \cup Ad(acc.kind)
    IN IF w.fault \/ ~is_access_allowed(acc, w.pte)
       THEN /\ out' = [acc |-> acc, phys |-> Fault]
            /\ lru' = l
            /\ UNCHANGED ad
       ELSE /\ out' = [acc |-> acc, phys |-> make_phys_from_ppn(acc.virt, w)]
            /\ ad' = IF needed /\ acc.noisy THEN [ad EXCEPT ![w.at] = {"a"}] ELSE ad
            /\ lru' = tlb_add_mapping(l, [map |-> Mapping(w, satp.asid), ad |-> bits, at |-> w.at,
                                          src |-> IF acc.noisy THEN "walk" ELSE "peek"])

pagewalk(l, acc) ==
    LET w == Walk(table, satp.root, acc.virt)
        needed == pte_access_dirty_update_needed(ad[w.at], acc.kind)
        bits == ad[w.at] \cup Ad(acc.kind)
    IN IF w.fault \/ ~is_access_allowed(acc, w.pte)
       THEN /\ out' = [acc |-> acc, phys |-> Fault]
            /\ lru' = l
            /\ UNCHANGED ad
       ELSE /\ out' = [acc |-> acc, phys |-> make_phys_from_ppn(acc.virt, w)]
            /\ ad' = IF needed /\ acc.noisy THEN [ad EXCEPT ![w.at] = bits] ELSE ad
            /\ lru' = tlb_add_mapping(l, [map |-> Mapping(w, satp.asid), ad |-> bits, at |-> w.at,
                                          src |-> IF acc.noisy THEN "walk" ELSE "peek"])

convert_addr(acc) ==
    LET hits == Hits(lru, satp.asid, acc.virt)
        moved == move_lru_entry_to_front(lru, FirstOf(hits))
        entry == lru[FirstOf(hits)]
    IN /\ IF ~use_sv32(satp, acc)
          THEN out' = [acc |-> acc, phys |-> acc.virt] /\ UNCHANGED <<lru, ad>>
          ELSE IF hits = {} THEN pagewalk(lru, acc)
          ELSE IF Permits(acc, entry.map) /\ pte_access_dirty_update_needed(entry.ad, acc.kind)
          THEN pagewalk(tlb_remove_mapping(moved, satp.asid, acc.virt), acc)
          ELSE /\ out' = [acc |-> acc, phys |-> By(acc, entry.map)]
               /\ lru' = moved
               /\ UNCHANGED ad
       /\ UNCHANGED <<table, satp, asid_len, changes, past>>

---------------------------------------------------------------------------
\* What the guest does: a store to a page table, a write of satp, a fence.
Change == changes < MaxChanges /\ changes' = changes + 1 /\ out' = Idle

Old(e) == [map |-> e.map, ad |-> e.ad, at |-> e.at, src |-> "old"]
store(addr, pte, bits) ==
    /\ Change
    /\ table' = [table EXCEPT ![addr] = pte]
    /\ ad' = [ad EXCEPT ![addr] = bits]
    /\ past' = past \cup InForce(table, satp)
    /\ lru' = [i \in DOMAIN lru |-> IF lru[i] # Free /\ lru[i].at = addr THEN Old(lru[i]) ELSE lru[i]]
    /\ UNCHANGED <<satp, asid_len>>

Active(asid) == asid % 2 ^ asid_len
satp_write(s) ==
    /\ Change
    /\ satp' = IF s.on THEN [s EXCEPT !.asid = Active(@)] ELSE s
    /\ past' = past \cup InForce(table, satp)
    /\ UNCHANGED <<table, ad, asid_len, lru>>

sfence(f) ==
    /\ lru' = IF f.asid = {} /\ f.virt = {} THEN tlb_flush(lru) ELSE tlb_flush_by(lru, f)
    /\ past' = {m \in past : ~Covers(f, m)}
    /\ out' = Idle
    /\ UNCHANGED <<table, ad, satp, asid_len, changes>>

\* The console's commands.
csr_set_asid_len(len) ==
    /\ Change
    /\ asid_len' = len
    /\ satp' = IF satp.on THEN [satp EXCEPT !.asid = @ % 2 ^ len] ELSE satp
    /\ lru' = tlb_flush(lru)
    /\ past' = {}
    /\ UNCHANGED <<table, ad>>

tlb_resize(size) ==
    /\ Change
    /\ lru' = [i \in 1 .. size |-> Free]
    /\ past' = {}
    /\ UNCHANGED <<table, ad, satp, asid_len>>

Next ==
    \/ \E acc \in Accesses : convert_addr(acc)
    \/ \E st \in Stores : store(st.addr, st.pte, st.ad)
    \/ \E s \in Satps : satp_write(s)
    \/ \E f \in [asid : {{}} \cup {{a} : a \in Asids}, virt : {{}} \cup {{v} : v \in Fenced}] : sfence(f)
    \/ \E len \in {0, 1} : csr_set_asid_len(len)
    \/ \E size \in Sizes : tlb_resize(size)

Spec == Init /\ [][Next]_vars

---------------------------------------------------------------------------
Used(l) == {l[i] : i \in DOMAIN l} \ {Free}

\* The TLB has the entries it was given, none lost and none added by a move, a
\* fill or a flush, and the ASID in satp is one that is active.
TypeOK ==
    /\ DOMAIN lru \in {1 .. size : size \in Sizes}
    /\ satp \in Satps /\ (satp.on => satp.asid = Active(satp.asid))
    /\ asid_len \in {0, 1}
    /\ ad \in [Addresses -> SUBSET {"a", "d"}]

\* Every entry of the TLB is a mapping that is in force, or was since a fence
\* that covers it: the four kinds of sfence.vma and the console's flushes drop
\* all they have to, and an entry keeps the ASID and the global bit of its walk
\* (rv32_tlb_flush, rv32_tlb_flush_by_asid_and_addr, rv32_pagewalk).
TlbPermitted == \A e \in Used(lru) : e.map \in past \cup InForce(table, satp)

\* The TLB has the accessed and the dirty bit of a page only if the page table
\* has them, as long as the guest has not written the entry: otherwise the
\* guest's accesses would go unrecorded (pte_access_dirty_update_needed).
\* Entries that a translation of the debugger's has left there are exempt.
AdBitsTrue == \A e \in Used(lru) : e.src = "walk" => e.ad \subseteq ad[e.at]

\* Translation through the TLB is translation by the page tables with the
\* freedom that RvPaging grants: no order of fills, hits, evictions, fences,
\* stores and switches makes the TLB visible beyond that (rv_convert_addr).
Paging == INSTANCE RvPaging
Implements == Paging!Spec
=============================================================================
