------------------------------ MODULE RvPaging ------------------------------
(***************************************************************************)
(* What address translation promises a RISC-V guest, whatever the          *)
(* simulator caches: an access goes by a mapping that the page tables hold  *)
(* now, or have held since the last fence or flush that covers it.         *)
(***************************************************************************)
EXTENDS RvPte

VARIABLES
    table,      \* the page table entries
    ad,         \* their accessed and dirty bits
    satp,       \* the mode, the ASID and the root table
    past,       \* the mappings that were in force since a fence or a flush covered them
    out         \* the access just made and what it came to

vars == <<table, ad, satp, past, out>>

Init ==
    /\ table \in [Addresses -> Ptes]
    /\ ad \in [Addresses -> SUBSET {"a", "d"}]
    /\ satp \in Satps
    /\ past = {}
    /\ out = Idle

\* The results that an access may have.
Allowed(acc) ==
    LET walk == Walk(table, satp.root, acc.virt)
        known == {m \in past \cup InForce(table, satp) : For(satp.asid, m) /\ entry_maps_virt(m, acc.virt)}
    IN IF ~use_sv32(satp, acc) THEN {acc.virt}
       ELSE {By(acc, m) : m \in known} \cup {IF walk.fault THEN Fault ELSE By(acc, Mapping(walk, satp.asid))}

Translate(acc) ==
    /\ out'.acc = acc
    /\ out' \in [acc : {acc}, phys : Allowed(acc)]
    /\ \/ UNCHANGED ad
       \/ /\ use_sv32(satp, acc) /\ acc.noisy
          /\ ad' = [ad EXCEPT ![Walk(table, satp.root, acc.virt).at] = @ \cup Ad(acc.kind)]
    /\ UNCHANGED <<table, satp, past>>

\* The guest stores to a page table, or writes satp.
Store(addr, pte, bits) ==
    /\ out' = Idle
    /\ table' = [table EXCEPT ![addr] = pte]
    /\ ad' = [ad EXCEPT ![addr] = bits]
    /\ past' = past \cup InForce(table, satp)
    /\ UNCHANGED satp

Switch(s) ==
    /\ out' = Idle
    /\ satp' = s
    /\ past' = past \cup InForce(table, satp)
    /\ UNCHANGED <<table, ad>>

Fence(f) ==
    /\ out' = Idle
    /\ past' = {m \in past : ~Covers(f, m)}
    /\ UNCHANGED <<table, ad, satp>>

\* A flush of everything, with satp changed by the console.
Flush(s) ==
    /\ out' = Idle
    /\ satp' = s
    /\ past' = {}
    /\ UNCHANGED <<table, ad>>

Next ==
    \/ \E acc \in Accesses : Translate(acc)
    \/ \E s \in Satps : Switch(s) \/ Flush(s)
    \/ \E f \in Fences : Fence(f)
    \/ \E addr \in Addresses, pte \in Ptes, bits \in SUBSET {"a", "d"} : Store(addr, pte, bits)

Spec == Init /\ [][Next]_vars
=============================================================================
