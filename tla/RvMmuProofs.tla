---------------------------- MODULE RvMmuProofs ----------------------------
(***************************************************************************)
(* Translation through the TLB implements RvPaging, for every number of    *)
(* levels, every page table, every set of accesses and every TLB size.     *)
(*                                                                         *)
(* For that the inductive invariant is TlbPermitted with the shape of the  *)
(* TLB, and the walk is never expanded: what it returns depends on the     *)
(* table and the root only, and the accessed and dirty bits it leaves      *)
(* behind are not part of the mapping.                                     *)
(*                                                                         *)
(* That the TLB has no accessed or dirty bit that the page table lacks     *)
(* needs more: a walk must end in the page tables, which is an induction   *)
(* over the levels.                                                        *)
(***************************************************************************)
EXTENDS RvMmu, NaturalsInduction, WellFoundedInduction, TLAPS

\* 2 ^ asid_len for the two lengths of an ASID.
LEMMA Powers == 2 ^ 0 = 1 /\ 2 ^ 1 = 2
    OBVIOUS

\* A set of positions that is not empty has a first one.
LEMMA FirstOfIn ==
    ASSUME NEW set \in SUBSET Nat, set # {}
    PROVE  FirstOf(set) \in set /\ \A j \in set : FirstOf(set) <= j
<1> DEFINE R == OpToRel(<, Nat)
<1>1. IsWellFoundedOn(R, Nat)
    BY NatLessThanWellFounded
<1>2. \A y, x \in Nat : y < x => <<y, x>> \in R
    BY DEF OpToRel
<1> HIDE DEF R
<1>3. \A T : T \subseteq Nat /\ T # {} => \E x \in T : \A y \in T : ~(<<y, x>> \in R)
    BY <1>1, WFMin, Zenon
<1>4. PICK x \in set : \A y \in set : ~(<<y, x>> \in R)
    BY <1>3
<1>5. \A y \in set : ~(y < x)
    BY <1>2, <1>4, Zenon
<1>6. \A y \in set : x <= y
    BY <1>5
<1> QED BY <1>6 DEF FirstOf

\* Induction on the naturals, for a set.
LEMMA InductionOnSet ==
    ASSUME NEW S, 0 \in S, \A n \in Nat : n \in S => n + 1 \in S
    PROVE  Nat \subseteq S
<1> DEFINE rest == {n \in Nat : n \notin S}
<1> SUFFICES ASSUME rest # {} PROVE FALSE
    OBVIOUS
<1> DEFINE m == FirstOf(rest)
<1>1. m \in rest /\ \A n \in rest : m <= n
    BY FirstOfIn
<1> HIDE DEF m
<1>2. m # 0 /\ m - 1 \in Nat /\ m - 1 \notin rest
    BY <1>1
<1> QED BY <1>1, <1>2

\* Moving or pushing an entry to the front of the list loses no slot and
\* brings in no other entry (move_lru_entry_to_front, rv32_tlb_add_mapping).
LEMMA ToFrontKeeps ==
    ASSUME NEW n \in Nat \ {0}, NEW l, DOMAIN l = 1 .. n, NEW i \in 1 .. n, NEW e
    PROVE  /\ DOMAIN ToFront(l, i, e) = 1 .. n
           /\ Used(ToFront(l, i, e)) \subseteq Used(l) \cup {e}
<1>1. DOMAIN ToFront(l, i, e) = 1 .. n
    BY DEF ToFront
<1>2. \A j \in 1 .. n : ToFront(l, i, e)[j] = e \/ \E k \in 1 .. n : ToFront(l, i, e)[j] = l[k]
    BY DEF ToFront
<1> QED BY <1>1, <1>2 DEF Used

\* Filling the TLB adds the new entry and nothing else (rv32_tlb_add_mapping).
LEMMA AddKeeps ==
    ASSUME NEW n \in Nat \ {0}, NEW l, DOMAIN l = 1 .. n, NEW e
    PROVE  /\ DOMAIN tlb_add_mapping(l, e) = 1 .. n
           /\ Used(tlb_add_mapping(l, e)) \subseteq Used(l) \cup {e}
<1>1. Last(l) \in 1 .. n
    <2>1. n \in DOMAIN l /\ \A j \in DOMAIN l : j <= n
        OBVIOUS
    <2> QED BY <2>1 DEF Last
<1>2. Unused(l) # {} => FirstOf(Unused(l)) \in 1 .. n
    <2>1. Unused(l) \in SUBSET Nat /\ Unused(l) \subseteq 1 .. n
        BY DEF Unused
    <2> QED BY <2>1, FirstOfIn
<1> DEFINE i == IF Unused(l) # {} THEN FirstOf(Unused(l)) ELSE Last(l)
<1>3. i \in 1 .. n
    BY <1>1, <1>2
<1>4. tlb_add_mapping(l, e) = ToFront(l, i, e)
    BY DEF tlb_add_mapping
<1> HIDE DEF i
<1> QED BY <1>3, <1>4, ToFrontKeeps

\* Invalidating entries adds none (invalidate_tlb_entry).
LEMMA InvalidateKeeps ==
    ASSUME NEW l, NEW set
    PROVE  /\ DOMAIN Invalidate(l, set) = DOMAIN l
           /\ Used(Invalidate(l, set)) \subseteq {l[i] : i \in DOMAIN l \ set} \ {Free}
           /\ Used(Invalidate(l, set)) \subseteq Used(l)
<1>1. DOMAIN Invalidate(l, set) = DOMAIN l
    BY DEF Invalidate
<1>2. \A i \in DOMAIN l : Invalidate(l, set)[i] = IF i \in set THEN Free ELSE l[i]
    BY DEF Invalidate
<1> QED BY <1>1, <1>2 DEF Used

---------------------------------------------------------------------------
\* The definitions of RvPte mean the same in both specifications.
LEMMA WalkSame == \A tab, root, virt : Paging!Walk(tab, root, virt) = Walk(tab, root, virt)
    BY DEF Walk, Paging!Walk, Result, Paging!Result, is_pte_valid, Paging!is_pte_valid, is_pte_leaf, Paging!is_pte_leaf,
           IsAligned, Paging!IsAligned

\* So are the mappings in force.
LEMMA InForceSame == \A tab, s : Paging!InForce(tab, s) = InForce(tab, s)
    BY WalkSame, SMTT(30) DEF InForce, Paging!InForce, Mapping, Paging!Mapping, Virts, Paging!Virts

\* So are the answers that a mapping allows.
LEMMA MapsSame ==
    /\ \A m, virt : Paging!entry_maps_virt(m, virt) = entry_maps_virt(m, virt)
    /\ \A asid, m : Paging!For(asid, m) = For(asid, m)
    /\ \A w, asid : Paging!Mapping(w, asid) = Mapping(w, asid)
    /\ \A s, acc : Paging!use_sv32(s, acc) = use_sv32(s, acc)
    /\ \A kind : Paging!Ad(kind) = Ad(kind)
    /\ Paging!Fault = Fault /\ Paging!Idle = Idle
    /\ Paging!Satps = Satps /\ Paging!Fences = Fences /\ Paging!Addresses = Addresses
    BY DEF entry_maps_virt, Paging!entry_maps_virt, For, Paging!For, Mapping, Paging!Mapping,
           use_sv32, Paging!use_sv32, effective_priv, Paging!effective_priv, rv_smode, Paging!rv_smode,
           rv_mmode, Paging!rv_mmode, Ad, Paging!Ad, Fault, Paging!Fault, Idle, Paging!Idle,
           Satps, Paging!Satps, Bare, Paging!Bare, Fences, Paging!Fences, Virts, Paging!Virts,
           Addresses, Paging!Addresses

\* So is what a fence or a flush covers.
LEMMA BySame ==
    /\ \A acc, m : Paging!By(acc, m) = By(acc, m)
    /\ \A f, m : Paging!Covers(f, m) = Covers(f, m)
    BY DEF By, Paging!By, Permits, Paging!Permits, is_pte_valid, Paging!is_pte_valid,
           is_access_allowed, Paging!is_access_allowed, effective_priv, Paging!effective_priv,
           rv_smode, Paging!rv_smode, rv_umode, Paging!rv_umode, IsAligned, Paging!IsAligned,
           make_phys_from_ppn, Paging!make_phys_from_ppn, Fault, Paging!Fault,
           Covers, Paging!Covers, entry_maps_virt, Paging!entry_maps_virt

---------------------------------------------------------------------------
Permitted(e) == e.map \in past \cup InForce(table, satp)
Sized(l) == \E n \in Sizes : DOMAIN l = 1 .. n
IInv == TypeOK /\ TlbPermitted

\* A move to the front and an invalidation on the way to a walk.
LEMMA HitKeeps ==
    ASSUME TypeOK, NEW acc, Hits(lru, satp.asid, acc.virt) # {}
    PROVE  LET hits == Hits(lru, satp.asid, acc.virt)
               moved == move_lru_entry_to_front(lru, FirstOf(hits))
               rest == tlb_remove_mapping(moved, satp.asid, acc.virt)
           IN /\ FirstOf(hits) \in hits /\ lru[FirstOf(hits)] \in Used(lru)
              /\ Sized(moved) /\ Used(moved) \subseteq Used(lru)
              /\ Sized(rest) /\ Used(rest) \subseteq Used(lru)
<1> DEFINE hits == Hits(lru, satp.asid, acc.virt)
           moved == move_lru_entry_to_front(lru, FirstOf(hits))
           rest == tlb_remove_mapping(moved, satp.asid, acc.virt)
<1>1. PICK n \in Sizes : DOMAIN lru = 1 .. n
    BY DEF TypeOK
<1>2. n \in Nat \ {0}
    BY RvMmuAssumption
<1>3. hits \in SUBSET Nat /\ hits \subseteq DOMAIN lru /\ \A i \in hits : lru[i] # Free
    BY <1>1, <1>2 DEF Hits
<1>4. FirstOf(hits) \in hits
    BY <1>3, FirstOfIn
<1>5. lru[FirstOf(hits)] \in Used(lru)
    BY <1>3, <1>4 DEF Used
<1>6. DOMAIN moved = 1 .. n /\ Used(moved) \subseteq Used(lru) \cup {lru[FirstOf(hits)]}
    BY <1>1, <1>2, <1>3, <1>4, ToFrontKeeps DEF move_lru_entry_to_front
<1> HIDE DEF hits, moved
<1>7. DOMAIN rest = 1 .. n /\ Used(rest) \subseteq Used(moved)
    BY <1>6, InvalidateKeeps DEF tlb_remove_mapping
<1>8. Sized(moved) /\ Sized(rest)
    BY <1>1, <1>6, <1>7 DEF Sized
<1> QED BY <1>4, <1>5, <1>6, <1>7, <1>8 DEF hits, moved

\* The mapping that a walk comes to is in force.
LEMMA WalkInForce ==
    ASSUME TypeOK, NEW acc \in Accesses, use_sv32(satp, acc), ~Walk(table, satp.root, acc.virt).fault
    PROVE  Mapping(Walk(table, satp.root, acc.virt), satp.asid) \in InForce(table, satp)
<1>1. acc.virt \in Virts
    BY RvPteAssumption DEF Virts
<1>2. satp.on
    BY DEF use_sv32
<1> QED BY <1>1, <1>2 DEF InForce

\* What a walk leaves in the TLB is permitted (rv32_pagewalk).
LEMMA PagewalkKeeps ==
    ASSUME TypeOK, NEW acc \in Accesses, use_sv32(satp, acc),
           NEW l, Sized(l), \A e \in Used(l) : Permitted(e),
           pagewalk(l, acc)
    PROVE  /\ Sized(lru')
           /\ \A e \in Used(lru') : Permitted(e)
           /\ ad' \in [Addresses -> SUBSET {"a", "d"}]
<1> DEFINE w == Walk(table, satp.root, acc.virt)
           bits == ad[w.at] \cup Ad(acc.kind)
           new == [map |-> Mapping(w, satp.asid), ad |-> bits, at |-> w.at,
                   src |-> IF acc.noisy THEN "walk" ELSE "peek"]
<1>1. CASE w.fault \/ ~is_access_allowed(acc, w.pte)
    BY <1>1 DEF pagewalk, TypeOK
<1>2. CASE ~(w.fault \/ ~is_access_allowed(acc, w.pte))
    <2>1. lru' = tlb_add_mapping(l, new) /\ (ad' = ad \/ ad' = [ad EXCEPT ![w.at] = bits])
        BY <1>2 DEF pagewalk
    <2>2. PICK n \in Sizes : DOMAIN l = 1 .. n
        BY DEF Sized
    <2>3. n \in Nat \ {0}
        BY RvMmuAssumption
    <2>4. new.map \in InForce(table, satp)
        BY <1>2, WalkInForce
    <2>5. ad' \in [Addresses -> SUBSET {"a", "d"}]
        <3> HIDE DEF w
        <3>1. CASE w.at \in Addresses
            <4>1. bits \in SUBSET {"a", "d"}
                BY <3>1 DEF TypeOK, Ad
            <4> QED BY <2>1, <3>1, <4>1 DEF TypeOK
        <3>2. CASE w.at \notin Addresses
            BY <2>1, <3>2 DEF TypeOK
        <3> QED BY <3>1, <3>2
    <2> HIDE DEF new
    <2>6. DOMAIN lru' = 1 .. n /\ Used(lru') \subseteq Used(l) \cup {new}
        BY <2>1, <2>2, <2>3, AddKeeps
    <2> QED BY <2>2, <2>4, <2>5, <2>6 DEF Sized, Permitted
<1> QED BY <1>1, <1>2

\* A translation keeps the invariant (rv_convert_addr).
LEMMA ConvertKeeps ==
    ASSUME IInv, NEW acc \in Accesses, convert_addr(acc)
    PROVE  IInv'
<1> DEFINE hits == Hits(lru, satp.asid, acc.virt)
           moved == move_lru_entry_to_front(lru, FirstOf(hits))
           rest == tlb_remove_mapping(moved, satp.asid, acc.virt)
<1>1. /\ Sized(lru) /\ \A e \in Used(lru) : Permitted(e)
      /\ ad \in [Addresses -> SUBSET {"a", "d"}] /\ TypeOK
    BY DEF IInv, TypeOK, TlbPermitted, Sized, Permitted
<1>2. UNCHANGED <<table, satp, asid_len, past>>
    BY DEF convert_addr
<1>3. SUFFICES /\ Sized(lru') /\ \A e \in Used(lru') : Permitted(e)
               /\ ad' \in [Addresses -> SUBSET {"a", "d"}]
    BY <1>1, <1>2 DEF IInv, TypeOK, TlbPermitted, Sized, Permitted, Active
<1>4. CASE ~use_sv32(satp, acc)
    BY <1>1, <1>4 DEF convert_addr
<1>5. CASE use_sv32(satp, acc) /\ hits = {}
    <2>1. pagewalk(lru, acc)
        BY <1>5 DEF convert_addr
    <2> QED BY <1>1, <1>5, <2>1, PagewalkKeeps
<1>6. CASE use_sv32(satp, acc) /\ hits # {}
    <2>1. /\ Sized(moved) /\ \A e \in Used(moved) : Permitted(e)
          /\ Sized(rest) /\ \A e \in Used(rest) : Permitted(e)
        BY <1>1, <1>6, HitKeeps
    <2>2. pagewalk(rest, acc) \/ (lru' = moved /\ ad' = ad)
        BY <1>6 DEF convert_addr
    <2> HIDE DEF moved, rest
    <2>3. CASE pagewalk(rest, acc)
        BY <1>1, <1>6, <2>1, <2>3, PagewalkKeeps
    <2> QED BY <1>1, <2>1, <2>2, <2>3
<1> QED BY <1>4, <1>5, <1>6

\* A walk that does not fault ends at a valid and aligned leaf.
LEMMA WalkGood ==
    ASSUME NEW tab, NEW root, NEW virt, ~Walk(tab, root, virt).fault
    PROVE  LET w == Walk(tab, root, virt) IN is_pte_valid(w.pte) /\ IsAligned(w.pte.ppn, Len(w.vpn))
<1>1. PICK at, pte, vpn, global : Walk(tab, root, virt) = Result(at, pte, vpn, global)
    BY Zenon DEF Walk
<1>2. LET w == Result(at, pte, vpn, global)
      IN /\ w.fault = (~is_pte_valid(pte) \/ ~is_pte_leaf(pte) \/ ~IsAligned(pte.ppn, Len(vpn)))
         /\ w.pte = pte /\ w.vpn = vpn
    BY DEF Result
<1> QED BY <1>1, <1>2

\* A walk answers by the mapping it comes to.
LEMMA PagewalkAnswers ==
    ASSUME NEW acc, NEW l, pagewalk(l, acc)
    PROVE  LET w == Walk(table, satp.root, acc.virt)
           IN /\ out' = [acc |-> acc, phys |-> IF w.fault THEN Fault ELSE By(acc, Mapping(w, satp.asid))]
              /\ ad' = ad \/ (acc.noisy /\ ad' = [ad EXCEPT ![w.at] = ad[w.at] \cup Ad(acc.kind)])
<1> DEFINE w == Walk(table, satp.root, acc.virt)
           m == Mapping(w, satp.asid)
<1>1. m.pte = w.pte /\ m.vpn = w.vpn
    BY DEF Mapping
<1>2. make_phys_from_ppn(acc.virt, m) = make_phys_from_ppn(acc.virt, w)
    BY <1>1 DEF make_phys_from_ppn
<1>3. ~w.fault => is_pte_valid(w.pte) /\ IsAligned(w.pte.ppn, Len(w.vpn))
    BY WalkGood
<1>4. ~w.fault => (Permits(acc, m) <=> is_access_allowed(acc, w.pte))
    BY <1>1, <1>3 DEF Permits
<1>5. /\ out' = [acc |-> acc, phys |-> IF w.fault \/ ~is_access_allowed(acc, w.pte) THEN Fault
                                         ELSE make_phys_from_ppn(acc.virt, w)]
      /\ ad' = ad \/ (acc.noisy /\ ad' = [ad EXCEPT ![w.at] = ad[w.at] \cup Ad(acc.kind)])
    BY DEF pagewalk
<1> HIDE DEF w, m
<1>6. (IF w.fault \/ ~is_access_allowed(acc, w.pte) THEN Fault ELSE make_phys_from_ppn(acc.virt, w))
        = IF w.fault THEN Fault ELSE By(acc, m)
    BY <1>2, <1>4 DEF By
<1> QED BY <1>5, <1>6 DEF w, m

\* A translation answers as the abstract specification allows.
LEMMA ConvertTranslates ==
    ASSUME IInv, NEW acc \in Accesses, convert_addr(acc)
    PROVE  Paging!Translate(acc)
<1> DEFINE hits == Hits(lru, satp.asid, acc.virt)
           moved == move_lru_entry_to_front(lru, FirstOf(hits))
           entry == lru[FirstOf(hits)]
           w == Walk(table, satp.root, acc.virt)
           known == {m \in past \cup InForce(table, satp) : For(satp.asid, m) /\ entry_maps_virt(m, acc.virt)}
           walked == IF w.fault THEN Fault ELSE By(acc, Mapping(w, satp.asid))
           allowed == IF ~use_sv32(satp, acc) THEN {acc.virt}
                      ELSE {By(acc, m) : m \in known} \cup {walked}
<1>1. Paging!Allowed(acc) = allowed
    BY WalkSame, InForceSame, MapsSame, BySame, SMTT(30) DEF Paging!Allowed
<1>2. UNCHANGED <<table, satp, past>>
    BY DEF convert_addr
<1>3. SUFFICES /\ out'.acc = acc /\ out' \in [acc : {acc}, phys : allowed]
               /\ \/ ad' = ad
                  \/ use_sv32(satp, acc) /\ acc.noisy /\ ad' = [ad EXCEPT ![w.at] = ad[w.at] \cup Ad(acc.kind)]
    BY <1>1, <1>2, WalkSame, MapsSame DEF Paging!Translate
<1>4. CASE ~use_sv32(satp, acc)
    BY <1>4 DEF convert_addr
<1>5. ASSUME NEW l, use_sv32(satp, acc), pagewalk(l, acc)
      PROVE  /\ out' = [acc |-> acc, phys |-> walked]
             /\ ad' = ad \/ (acc.noisy /\ ad' = [ad EXCEPT ![w.at] = ad[w.at] \cup Ad(acc.kind)])
    BY <1>5, PagewalkAnswers
<1>6. CASE use_sv32(satp, acc) /\ \E l : pagewalk(l, acc)
    <2> HIDE DEF w, walked, known
    <2> QED BY <1>5, <1>6
<1>7. CASE use_sv32(satp, acc) /\ hits # {} /\ out' = [acc |-> acc, phys |-> By(acc, entry.map)] /\ ad' = ad
    <2>1. entry \in Used(lru) /\ FirstOf(hits) \in hits
        BY <1>7, HitKeeps DEF IInv
    <2>2. entry.map \in known
        BY <2>1 DEF IInv, TlbPermitted, Hits
    <2> HIDE DEF hits, entry, known, walked
    <2> QED BY <1>7, <2>2
<1> QED BY <1>4, <1>6, <1>7 DEF convert_addr

---------------------------------------------------------------------------
\* The guest's other actions keep the invariant, and each is a step of the
\* abstract specification.

\* What satp names is an active ASID, of either length (rv_csr_set_asid_len).
LEMMA ActiveType ==
    ASSUME NEW len \in {0, 1}, NEW s \in Satps, s.on
    PROVE  LET t == [s EXCEPT !.asid = s.asid % 2 ^ len]
           IN t \in Satps /\ t.on /\ t.asid = t.asid % 2 ^ len
<1>1. s \in [on : {TRUE}, asid : Asids, root : Tables] /\ Asids = {0, 1}
    <2>1. s # Bare
        BY DEF Bare
    <2>2. Asids = {0, 1}
        BY Powers, RvMmuAssumption
    <2> QED BY <2>1, <2>2 DEF Satps
<1>2. s.asid % 2 ^ len \in {0, 1} /\ (s.asid % 2 ^ len) % 2 ^ len = s.asid % 2 ^ len
    <2>1. s.asid \in {0, 1}
        BY <1>1
    <2>2. CASE len = 0
        BY <2>1, <2>2, Powers
    <2>3. CASE len = 1
        BY <2>1, <2>3, Powers
    <2> QED BY <2>2, <2>3
<1> DEFINE a == s.asid % 2 ^ len
<1> HIDE DEF a
<1>3. [s EXCEPT !.asid = a] \in [on : {TRUE}, asid : Asids, root : Tables] /\ [s EXCEPT !.asid = a].asid = a
    BY <1>1, <1>2 DEF a
<1> QED BY <1>2, <1>3 DEF Satps, a

\* A store to a page table.
LEMMA StoreKeeps ==
    ASSUME IInv, NEW st \in Stores, store(st.addr, st.pte, st.ad)
    PROVE  IInv' /\ Paging!Next
<1>1. st.addr \in Addresses /\ st.pte \in Ptes /\ st.ad \in SUBSET {"a", "d"}
    BY RvMmuAssumption
<1>2. Paging!Store(st.addr, st.pte, st.ad)
    BY InForceSame, MapsSame DEF store, Change, Paging!Store
<1>3. Paging!Next
    BY <1>1, <1>2, MapsSame DEF Paging!Next
<1>4. TypeOK'
    BY <1>1 DEF IInv, TypeOK, store, Active
<1>5. TlbPermitted'
    <2>1. \A i \in DOMAIN lru : lru'[i] = lru[i] \/ (lru[i] # Free /\ lru'[i] = Old(lru[i]))
        BY DEF store
    <2>2. DOMAIN lru' = DOMAIN lru /\ past' = past \cup InForce(table, satp)
        BY DEF store
    <2>3. \A e \in Used(lru') : \E d \in Used(lru) : e.map = d.map
        BY <2>1, <2>2 DEF Used, Old
    <2> QED BY <2>2, <2>3 DEF IInv, TlbPermitted
<1> QED BY <1>3, <1>4, <1>5 DEF IInv

\* A write of satp (satp_write).
LEMMA SatpKeeps ==
    ASSUME IInv, NEW s \in Satps, satp_write(s)
    PROVE  IInv' /\ Paging!Next
<1>1. satp' \in Satps /\ (satp'.on => satp'.asid = satp'.asid % 2 ^ asid_len)
    <2>1. asid_len \in {0, 1}
        BY DEF IInv, TypeOK
    <2>2. CASE s.on
        BY <2>1, <2>2, ActiveType DEF satp_write, Active
    <2>3. CASE ~s.on
        BY <2>3 DEF satp_write
    <2> QED BY <2>2, <2>3
<1>2. Paging!Switch(satp')
    BY InForceSame, MapsSame DEF satp_write, Change, Paging!Switch
<1>3. Paging!Next
    BY <1>1, <1>2, MapsSame DEF Paging!Next
<1>4. TypeOK'
    BY <1>1 DEF IInv, TypeOK, satp_write, Active
<1>5. TlbPermitted'
    BY DEF IInv, TlbPermitted, satp_write
<1> QED BY <1>3, <1>4, <1>5 DEF IInv

\* A fence (rv_sfence_instr, rv32_tlb_flush and its variants).
LEMMA FenceKeeps ==
    ASSUME IInv,
           NEW f \in [asid : {{}} \cup {{a} : a \in Asids}, virt : {{}} \cup {{v} : v \in Fenced}],
           sfence(f)
    PROVE  IInv' /\ Paging!Next
<1>1. f \in Fences
    BY RvMmuAssumption DEF Fences
<1>2. Paging!Fence(f)
    BY MapsSame, BySame DEF sfence, Paging!Fence
<1>3. Paging!Next
    BY <1>1, <1>2, MapsSame DEF Paging!Next
<1>4. /\ DOMAIN lru' = DOMAIN lru
      /\ \A e \in Used(lru') : e \in Used(lru) /\ ~Covers(f, e.map)
    <2> DEFINE covered == {i \in DOMAIN lru : lru[i] # Free /\ Covers(f, lru[i].map)}
    <2>1. CASE lru' = tlb_flush(lru)
        BY <2>1, InvalidateKeeps DEF tlb_flush
    <2>2. CASE lru' = Invalidate(lru, covered)
        <3> DEFINE kept == {lru[i] : i \in DOMAIN lru \ covered} \ {Free}
        <3>1. /\ DOMAIN lru' = DOMAIN lru
              /\ Used(lru') \subseteq kept /\ Used(lru') \subseteq Used(lru)
            BY <2>2, InvalidateKeeps
        <3>2. \A e \in kept : ~Covers(f, e.map)
            OBVIOUS
        <3> QED BY <3>1, <3>2
    <2> QED BY <2>1, <2>2 DEF sfence, tlb_flush_by
<1>5. TypeOK'
    BY <1>4 DEF IInv, TypeOK, sfence, Active
<1>6. TlbPermitted'
    <2>1. UNCHANGED <<table, satp>> /\ past' = {m \in past : ~Covers(f, m)}
        BY DEF sfence
    <2> QED BY <1>4, <2>1 DEF IInv, TlbPermitted
<1> QED BY <1>3, <1>5, <1>6 DEF IInv

\* The commands that resize or flush the TLB or set the length of the ASID.
LEMMA ConsoleKeeps ==
    ASSUME IInv,
           (\E len \in {0, 1} : csr_set_asid_len(len)) \/ (\E size \in Sizes : tlb_resize(size))
    PROVE  IInv' /\ Paging!Next
<1>1. satp' \in Satps /\ asid_len' \in {0, 1} /\ (satp'.on => satp'.asid = satp'.asid % 2 ^ asid_len')
    <2>1. CASE \E len \in {0, 1} : csr_set_asid_len(len)
        <3>1. PICK len \in {0, 1} : csr_set_asid_len(len)
            BY <2>1
        <3>2. satp \in Satps
            BY DEF IInv, TypeOK
        <3>3. CASE satp.on
            BY <3>1, <3>2, <3>3, ActiveType DEF csr_set_asid_len
        <3>4. CASE ~satp.on
            BY <3>1, <3>2, <3>4 DEF csr_set_asid_len
        <3> QED BY <3>3, <3>4
    <2>2. CASE \E size \in Sizes : tlb_resize(size)
        BY <2>2 DEF tlb_resize, IInv, TypeOK, Active
    <2> QED BY <2>1, <2>2
<1>2. Paging!Flush(satp')
    BY MapsSame DEF csr_set_asid_len, tlb_resize, Change, Paging!Flush
<1>3. Paging!Next
    BY <1>1, <1>2, MapsSame DEF Paging!Next
<1>4. Sized(lru') /\ Used(lru') = {} /\ ad' = ad
    <2>1. CASE \E len \in {0, 1} : csr_set_asid_len(len)
        BY <2>1, InvalidateKeeps DEF csr_set_asid_len, tlb_flush, Sized, IInv, TypeOK
    <2>2. CASE \E size \in Sizes : tlb_resize(size)
        BY <2>2 DEF tlb_resize, Sized, Used
    <2> QED BY <2>1, <2>2
<1>5. TypeOK'
    BY <1>1, <1>4 DEF IInv, TypeOK, Active, Sized
<1>6. TlbPermitted'
    BY <1>4 DEF TlbPermitted
<1> QED BY <1>3, <1>5, <1>6 DEF IInv

---------------------------------------------------------------------------
\* The indices that a walk follows are well defined and stay in the page tables:
\* a table that an entry points to is a frame that holds one, and the walk goes on
\* from valid pointers only (rv32_pagewalk, rv64_pagewalk).
LEMMA WalkStaysInTables ==
    ASSUME NEW tab \in [Addresses -> Ptes], NEW root \in Tables, NEW virt \in Virts
    PROVE  Walk(tab, root, virt).at \in Addresses
<1> DEFINE Step(f, k) == <<IF k = 1 THEN root ELSE tab[f[k - 1]].ppn, virt[k]>>
           at == CHOOSE f : f = [k \in 1 .. Levels |-> Step(f, k)]
           Goes(k) == \A j \in 1 .. k - 1 : is_pte_valid(tab[at[j]]) /\ ~is_pte_leaf(tab[at[j]])
           Stops(k) == k = Levels \/ ~is_pte_valid(tab[at[k]]) \/ is_pte_leaf(tab[at[k]])
           level == CHOOSE k \in 1 .. Levels : Goes(k) /\ Stops(k)
<1>1. Levels \in Nat \ {0}
    BY RvPteAssumption
<1>2. Walk(tab, root, virt).at = at[level]
    BY DEF Walk, Result
<1>3. at = [k \in 1 .. Levels |-> Step(at, k)]
    <2> DEFINE Defined(n) == \E f : f = [k \in 1 .. n |-> Step(f, k)]
               S == {n \in Nat : Defined(n)}
    <2>1. SUFFICES \A n \in Nat : Defined(n)
        BY <1>1, Zenon
    <2>2. Defined(0)
        <3> DEFINE f == [k \in 1 .. 0 |-> 0]
        <3>1. f = [k \in 1 .. 0 |-> Step(f, k)]
            OBVIOUS
        <3> HIDE DEF f
        <3> QED BY <3>1, Zenon
    <2>3. ASSUME NEW n \in Nat, Defined(n) PROVE Defined(n + 1)
        <3>1. PICK g : g = [k \in 1 .. n |-> Step(g, k)]
            BY <2>3, ZenonT(30)
        <3> DEFINE f == [k \in 1 .. n + 1 |-> IF k = n + 1 THEN Step(g, n + 1) ELSE g[k]]
        <3>2. \A k \in 1 .. n + 1 : f[k] = Step(f, k)
            <4>1. TAKE k \in 1 .. n + 1
            <4>2. k # 1 => k - 1 \in 1 .. n /\ f[k - 1] = g[k - 1]
                BY SMT
            <4>3. Step(f, k) = Step(g, k)
                BY <4>2
            <4>4. \A j \in 1 .. n : g[j] = Step(g, j)
                BY <3>1, Zenon
            <4>5. k # n + 1 => k \in 1 .. n /\ g[k] = Step(g, k)
                BY <4>4
            <4> QED BY <4>3, <4>5
        <3>3. f = [k \in 1 .. n + 1 |-> Step(f, k)]
            BY <3>2, ZenonT(30)
        <3> HIDE DEF f
        <3> QED BY <3>3, Zenon
    <2> HIDE DEF Defined
    <2>4. 0 \in S /\ \A n \in Nat : n \in S => n + 1 \in S
        BY <2>2, <2>3
    <2> HIDE DEF S
    <2>5. Nat \subseteq S
        BY <2>4, InductionOnSet
    <2> QED BY <2>5 DEF S
<1> HIDE DEF at
<1>4. level \in 1 .. Levels /\ Goes(level)
    <2> DEFINE stops == {k \in 1 .. Levels : Stops(k)}
    <2>1. stops \in SUBSET Nat /\ Levels \in stops
        BY <1>1
    <2> HIDE DEF stops
    <2>2. PICK k \in stops : \A j \in stops : k <= j
        BY <2>1, FirstOfIn
    <2>3. k \in 1 .. Levels /\ Stops(k) /\ \A j \in 1 .. k - 1 : ~Stops(j)
        BY <1>1, <2>2 DEF stops
    <2>4. Goes(k)
        BY <1>1, <2>3
    <2> HIDE DEF Goes, Stops
    <2> QED BY <2>3, <2>4
<1> HIDE DEF level
<1>5. \A k \in 1 .. level : at[k] \in Addresses
    <2> DEFINE bad == {k \in 1 .. level : at[k] \notin Addresses}
    <2>1. SUFFICES ASSUME bad # {} PROVE FALSE
        OBVIOUS
    <2>2. bad \in SUBSET Nat
        BY <1>1, <1>4
    <2> HIDE DEF bad
    <2>3. PICK k \in bad : \A j \in bad : k <= j
        BY <2>1, <2>2, FirstOfIn
    <2>4. k \in 1 .. level /\ at[k] \notin Addresses /\ \A j \in 1 .. k - 1 : at[j] \in Addresses
        BY <1>1, <1>4, <2>3 DEF bad
    <2>5. k \in 1 .. Levels /\ virt[k] \in Index
        BY <1>1, <1>4, <2>4 DEF Virts
    <2>6. at[k] = Step(at, k)
        BY <1>3, <2>5, Zenon
    <2>7. k # 1
        BY <2>4, <2>5, <2>6 DEF Addresses
    <2>8. k - 1 \in 1 .. level - 1 /\ at[k - 1] \in Addresses
        BY <1>1, <1>4, <2>4, <2>7
    <2>9. tab[at[k - 1]] \in Ptes /\ is_pte_valid(tab[at[k - 1]]) /\ ~is_pte_leaf(tab[at[k - 1]])
        BY <1>4, <2>8
    <2>10. tab[at[k - 1]].ppn \in Tables
        BY <2>9, RvPteAssumption DEF is_pte_valid, is_pte_leaf
    <2> QED BY <2>4, <2>5, <2>6, <2>7, <2>10 DEF Addresses
<1> QED BY <1>1, <1>2, <1>4, <1>5

---------------------------------------------------------------------------
\* The invariant holds initially.
LEMMA InitHolds == Init => IInv /\ Paging!Init
<1> SUFFICES ASSUME Init PROVE IInv /\ Paging!Init
    OBVIOUS
<1>1. PICK image \in Images : table = image.table /\ satp = image.satp
    BY DEF Init
<1>2. table \in [Addresses -> Ptes] /\ satp \in Satps
    BY <1>1, RvMmuAssumption
<1>3. ad \in [Addresses -> SUBSET {"a", "d"}] /\ past = {} /\ out = Idle
    BY DEF Init
<1>4. Paging!Init
    BY <1>2, <1>3, MapsSame DEF Paging!Init
<1>5. satp.on => satp.asid = Active(satp.asid)
    <2>1. CASE satp.on
        <3>1. satp # Bare
            BY <2>1 DEF Bare
        <3>2. Asids = {0, 1} /\ asid_len = 1
            BY Powers, RvMmuAssumption DEF Init
        <3>3. satp \in [on : {TRUE}, asid : Asids, root : Tables]
            BY <1>2, <3>1 DEF Satps
        <3>4. satp.asid \in {0, 1}
            BY <3>2, <3>3
        <3> QED BY <3>2, <3>4, Powers DEF Active
    <2> QED BY <2>1
<1>6. DOMAIN lru = 1 .. DefaultSize /\ Used(lru) = {} /\ asid_len = 1
    BY DEF Init, Used
<1>7. TypeOK
    BY <1>2, <1>3, <1>5, <1>6, RvMmuAssumption DEF TypeOK
<1> QED BY <1>4, <1>6, <1>7 DEF IInv, TlbPermitted

\* Every step keeps the invariant and is a step of the abstract specification.
LEMMA StepHolds == IInv /\ [Next]_vars => IInv' /\ [Paging!Next]_(Paging!vars)
<1> SUFFICES ASSUME IInv, [Next]_vars PROVE IInv' /\ [Paging!Next]_(Paging!vars)
    OBVIOUS
<1>1. CASE \E acc \in Accesses : convert_addr(acc)
    BY <1>1, ConvertKeeps, ConvertTranslates DEF Paging!Next
<1>2. CASE \E st \in Stores : store(st.addr, st.pte, st.ad)
    BY <1>2, StoreKeeps
<1>3. CASE \E s \in Satps : satp_write(s)
    BY <1>3, SatpKeeps
<1>4. CASE \E f \in [asid : {{}} \cup {{a} : a \in Asids}, virt : {{}} \cup {{v} : v \in Fenced}] : sfence(f)
    BY <1>4, FenceKeeps
<1>5. CASE (\E len \in {0, 1} : csr_set_asid_len(len)) \/ (\E size \in Sizes : tlb_resize(size))
    BY <1>5, ConsoleKeeps
<1>6. CASE UNCHANGED vars
    BY <1>6 DEF vars, Paging!vars, IInv, TypeOK, TlbPermitted, Active
<1> QED BY <1>1, <1>2, <1>3, <1>4, <1>5, <1>6 DEF Next

\* Every entry of the TLB is a mapping that is in force or was since a fence
\* that covers it, for every page table, ASID, fence and TLB size
\* (rv32_pagewalk, rv32_tlb_flush and its variants, rv32_tlb_add_mapping).
THEOREM TlbOnlyPermitted == Spec => []TlbPermitted
<1>1. Spec => []IInv
    BY InitHolds, StepHolds, PTL DEF Spec
<1>2. IInv => TlbPermitted
    BY DEF IInv
<1> QED BY <1>1, <1>2, PTL

\* The TLB keeps its entries and satp an active ASID (rv32_tlb_add_mapping,
\* move_lru_entry_to_front, rv_csr_set_asid_len).
THEOREM TlbTyped == Spec => []TypeOK
<1>1. Spec => []IInv
    BY InitHolds, StepHolds, PTL DEF Spec
<1>2. IInv => TypeOK
    BY DEF IInv
<1> QED BY <1>1, <1>2, PTL

\* Translation through the TLB implements translation by the page tables with
\* the freedom that a fence ends (rv_convert_addr).
THEOREM TranslationImplementsPaging == Spec => Implements
<1>1. Spec => []IInv
    BY InitHolds, StepHolds, PTL DEF Spec
<1> QED BY <1>1, InitHolds, StepHolds, PTL DEF Spec, Implements, Paging!Spec

---------------------------------------------------------------------------
\* What a walk of the guest's left in the TLB is an entry of the page tables,
\* with no more accessed and dirty bits than it has there.  The page tables stay
\* page tables: without that a walk might end outside of them.
Recorded(e, bits) == e.src = "walk" => e.at \in Addresses /\ e.ad \subseteq bits[e.at]
AdInv ==
    /\ IInv
    /\ table \in [Addresses -> Ptes]
    /\ \A e \in Used(lru) : Recorded(e, ad)

\* A walk records in the page table what the new entry says, and takes no bit away
\* from any other page (rv32_pagewalk).
LEMMA PagewalkRecords ==
    ASSUME AdInv, NEW acc \in Accesses, use_sv32(satp, acc),
           NEW l, Sized(l), \A e \in Used(l) : Recorded(e, ad),
           pagewalk(l, acc)
    PROVE  \A e \in Used(lru') : Recorded(e, ad')
<1> DEFINE w == Walk(table, satp.root, acc.virt)
           bits == ad[w.at] \cup Ad(acc.kind)
           needed == pte_access_dirty_update_needed(ad[w.at], acc.kind)
           new == [map |-> Mapping(w, satp.asid), ad |-> bits, at |-> w.at,
                   src |-> IF acc.noisy THEN "walk" ELSE "peek"]
<1>1. CASE w.fault \/ ~is_access_allowed(acc, w.pte)
    BY <1>1 DEF pagewalk
<1>2. CASE ~(w.fault \/ ~is_access_allowed(acc, w.pte))
    <2>1. /\ lru' = tlb_add_mapping(l, new)
          /\ ad' = IF needed /\ acc.noisy THEN [ad EXCEPT ![w.at] = bits] ELSE ad
        BY <1>2 DEF pagewalk
    <2>2. PICK n \in Nat \ {0} : DOMAIN l = 1 .. n
        BY RvMmuAssumption DEF Sized
    <2>3. w.at \in Addresses
        <3>1. satp.root \in Tables
            <4>1. satp \in Satps /\ satp.on
                BY DEF AdInv, IInv, TypeOK, use_sv32
            <4>2. satp # Bare
                BY <4>1 DEF Bare
            <4> QED BY <4>1, <4>2 DEF Satps
        <3>2. acc.virt \in Virts
            BY RvPteAssumption DEF Virts
        <3> QED BY <3>1, <3>2, WalkStaysInTables DEF AdInv
    <2>4. ad \in [Addresses -> SUBSET {"a", "d"}]
        BY DEF AdInv, IInv, TypeOK
    <2> HIDE DEF w
    <2>5. \A at \in Addresses : ad[at] \subseteq ad'[at]
        BY <2>1, <2>3, <2>4
    <2>6. acc.noisy => bits \subseteq ad'[w.at]
        <3>1. CASE needed
            BY <2>1, <2>3, <2>4, <3>1, ZenonT(30)
        <3>2. CASE ~needed
            BY <2>1, <2>3, <2>4, <3>2 DEF pte_access_dirty_update_needed, Ad
        <3> QED BY <3>1, <3>2, Zenon
    <2>7. Recorded(new, ad')
        BY <2>3, <2>6 DEF Recorded
    <2>8. \A e \in Used(l) : Recorded(e, ad')
        BY <2>5 DEF Recorded
    <2> HIDE DEF new
    <2>9. Used(lru') \subseteq Used(l) \cup {new}
        BY <2>1, <2>2, AddKeeps
    <2> QED BY <2>7, <2>8, <2>9, SMTT(30)
<1> QED BY <1>1, <1>2, Zenon

\* A translation keeps the bits recorded (rv_convert_addr).
LEMMA ConvertRecords ==
    ASSUME AdInv, NEW acc \in Accesses, convert_addr(acc)
    PROVE  \A e \in Used(lru') : Recorded(e, ad')
<1> DEFINE hits == Hits(lru, satp.asid, acc.virt)
           moved == move_lru_entry_to_front(lru, FirstOf(hits))
           rest == tlb_remove_mapping(moved, satp.asid, acc.virt)
<1>1. TypeOK /\ Sized(lru) /\ \A e \in Used(lru) : Recorded(e, ad)
    BY ZenonT(30) DEF AdInv, IInv, TypeOK, Sized
<1>2. CASE ~use_sv32(satp, acc)
    BY <1>1, <1>2 DEF convert_addr
<1>3. CASE use_sv32(satp, acc) /\ hits = {}
    <2>1. pagewalk(lru, acc)
        BY <1>3 DEF convert_addr
    <2> QED BY <1>1, <1>3, <2>1, PagewalkRecords
<1>4. CASE use_sv32(satp, acc) /\ hits # {}
    <2>1. /\ Sized(moved) /\ \A e \in Used(moved) : Recorded(e, ad)
          /\ Sized(rest) /\ \A e \in Used(rest) : Recorded(e, ad)
        BY <1>1, <1>4, HitKeeps
    <2>2. pagewalk(rest, acc) \/ (lru' = moved /\ ad' = ad)
        BY <1>4 DEF convert_addr
    <2> HIDE DEF moved, rest
    <2>3. CASE pagewalk(rest, acc)
        BY <1>4, <2>1, <2>3, PagewalkRecords
    <2> QED BY <2>1, <2>2, <2>3, SMTT(30)
<1> QED BY <1>2, <1>3, <1>4

\* A store to a page table changes the bits of the entry it writes only, and
\* what the TLB has of that entry counts as old from then on.
LEMMA StoreRecords ==
    ASSUME AdInv, NEW st \in Stores, store(st.addr, st.pte, st.ad)
    PROVE  table' \in [Addresses -> Ptes] /\ \A e \in Used(lru') : Recorded(e, ad')
<1>1. st.addr \in Addresses /\ st.pte \in Ptes /\ st.ad \in SUBSET {"a", "d"}
    BY RvMmuAssumption
<1>2. table' \in [Addresses -> Ptes]
    BY <1>1 DEF AdInv, store
<1>3. \A at \in Addresses : at # st.addr => ad'[at] = ad[at]
    BY DEF AdInv, IInv, TypeOK, store
<1>4. \A e \in Used(lru') : e.src = "old" \/ (e \in Used(lru) /\ e.at # st.addr)
    BY DEF store, Used, Old
<1> QED BY <1>2, <1>3, <1>4 DEF AdInv, Recorded

\* Every step keeps the bits recorded.
LEMMA StepRecords == AdInv /\ [Next]_vars => AdInv'
<1> SUFFICES ASSUME AdInv, [Next]_vars PROVE AdInv'
    OBVIOUS
<1>1. IInv'
    BY StepHolds DEF AdInv
<1>2. CASE \E acc \in Accesses : convert_addr(acc)
    <2>1. table' = table
        BY <1>2 DEF convert_addr
    <2> QED BY <1>1, <1>2, <2>1, ConvertRecords, ZenonT(30) DEF AdInv
<1>3. CASE \E st \in Stores : store(st.addr, st.pte, st.ad)
    BY <1>1, <1>3, StoreRecords DEF AdInv
<1>4. CASE \E s \in Satps : satp_write(s)
    BY <1>1, <1>4 DEF AdInv, satp_write
<1>5. CASE \E f \in [asid : {{}} \cup {{a} : a \in Asids}, virt : {{}} \cup {{v} : v \in Fenced}] : sfence(f)
    <2>1. UNCHANGED <<table, ad>> /\ Used(lru') \subseteq Used(lru)
        BY <1>5, InvalidateKeeps DEF sfence, tlb_flush, tlb_flush_by
    <2> QED BY <1>1, <2>1, SMTT(30) DEF AdInv
<1>6. CASE (\E len \in {0, 1} : csr_set_asid_len(len)) \/ (\E size \in Sizes : tlb_resize(size))
    <2>1. UNCHANGED <<table, ad>> /\ Used(lru') \subseteq Used(lru)
        <3>1. CASE \E len \in {0, 1} : csr_set_asid_len(len)
            BY <3>1, InvalidateKeeps DEF csr_set_asid_len, tlb_flush
        <3>2. CASE \E size \in Sizes : tlb_resize(size)
            BY <3>2 DEF tlb_resize, Used
        <3> QED BY <1>6, <3>1, <3>2
    <2> QED BY <1>1, <2>1 DEF AdInv
<1>7. CASE UNCHANGED vars
    BY <1>1, <1>7 DEF AdInv, vars
<1> QED BY <1>2, <1>3, <1>4, <1>5, <1>6, <1>7 DEF Next

\* The TLB has the accessed and the dirty bit of a page only if the page table
\* has them, for every page table, number of levels, TLB size and order of
\* accesses, stores and fences (rv32_pagewalk, pte_access_dirty_update_needed).
THEOREM AdBitsStayTrue == Spec => []AdBitsTrue
<1>1. Init => AdInv
    <2> SUFFICES ASSUME Init PROVE AdInv
        OBVIOUS
    <2>1. table \in [Addresses -> Ptes]
        BY RvMmuAssumption DEF Init
    <2>2. Used(lru) = {}
        BY DEF Init, Used
    <2> QED BY <2>1, <2>2, InitHolds DEF AdInv
<1>2. AdInv => AdBitsTrue
    BY DEF AdInv, AdBitsTrue, Recorded
<1> QED BY <1>1, <1>2, StepRecords, PTL DEF Spec
=============================================================================
