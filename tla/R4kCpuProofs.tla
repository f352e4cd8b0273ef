---------------------------- MODULE R4kCpuProofs ----------------------------
(***************************************************************************)
(* The R4000 for every number of TLB entries, every set of page sizes,     *)
(* every width of Count and every guest.  The lemmas come first: what each *)
(* part of a step changes and what it leaves alone.  The invariant IInv    *)
(* then ties the history of a behaviour to the registers: the branch whose *)
(* slot is next to excaddr and the branch state, the frame of an exception *)
(* to EPC, the address of a miss to EntryHi, a link to the LL that made    *)
(* it, Random to Wired, and Index to the last probe.                       *)
(***************************************************************************)
EXTENDS R4kCpu, WellFoundedInduction, TLAPS

\* The obligations are many, and large: the solver may have to wait.
USE SMTT(30)

PageRecs == [pfn : Nat, dirty : BOOLEAN, valid : BOOLEAN]
TlbEntries == [size : Nat \ {0}, vpn2 : Nat, global : BOOLEAN, asid : Nat, pg : PageRecs \X PageRecs]
Slots == 0 .. Entries - 1
Causes == {"None", "Int", "Mod", "TLBL", "TLBS", "TLBLR", "TLBSR", "AdEL", "AdES",
           "Sys", "Bp", "RI", "CpU", "Ov", "Tr"}
Excs == Causes \cup {"Jump", "TLB", "TLBR", "AddrError"}
Indexes == [p : BOOLEAN, n : Nat]
Cpus ==
    [pc : Addresses, pc_next : Addresses, excaddr : Addresses, branch : 0 .. 2,
     status : Statuses, ip : SUBSET (0 .. 7), exccode : Excs, bd : BOOLEAN,
     epc : Addresses, errorepc : Addresses, badvaddr : Addresses,
     index : Indexes, random : Slots, wired : Nat,
     entryhi : EntryHis, entrylo0 : EntryLos, entrylo1 : EntryLos, pagemask : Masks,
     count : 0 .. CountSize - 1, compare : Nat, watch : SUBSET {"read", "write"}, waddr : Nat,
     llbit : BOOLEAN, lladdr : Nat, tlb : [Slots -> TlbEntries],
     tlb_hint : Slots, exc : Excs, host : {"runs", "abort"}]

\* A set of naturals that is not empty has a least element.
LEMMA LeastOf ==
    ASSUME NEW set \in SUBSET Nat, set # {}
    PROVE  \E i \in set : \A j \in set : i <= j
  <1> DEFINE R == OpToRel(<, Nat)
  <1>1. IsWellFoundedOn(R, Nat)
      BY NatLessThanWellFounded, Zenon
  <1>2. \A y, x \in Nat : y < x => <<y, x>> \in R
      BY DEF OpToRel
  <1> HIDE DEF R
  <1>3. \A T : T \subseteq Nat /\ T # {} => \E x \in T : \A y \in T : ~(<<y, x>> \in R)
      BY <1>1, WFMin, Zenon
  <1>4. PICK x \in set : \A y \in set : ~(<<y, x>> \in R)
      BY <1>3, Zenon
  <1>5. \A y \in set : ~(y < x)
      BY <1>2, <1>4, Zenon
  <1> QED BY <1>5

\* The segments divide the address space, and addresses wrap at its end.
LEMMA Segments ==
    /\ Seg \in Nat /\ Space = 8 * Seg /\ Seg > 1
    /\ \A a \in Addresses, d \in Nat : Plus(a, d) \in Addresses
  <1>1. PICK q \in Nat : Pages = 8 * q
    <2>1. Pages \in Nat /\ Pages % 8 = 0
      BY R4kConstants
    <2>2. Pages = 8 * (Pages \div 8) /\ Pages \div 8 \in Nat
      BY <2>1
    <2> QED BY <2>2
  <1>2. q * PageWords \in Nat
    BY R4kConstants
  <1>3. Space = 8 * (q * PageWords)
    BY <1>1, R4kConstants DEF Space
  <1>4. Seg = q * PageWords
    BY <1>2, <1>3 DEF Seg
  <1>5. Seg > 1
    BY <1>2, <1>4, R4kConstants
  <1>6. ASSUME NEW a \in Addresses, NEW d \in Nat PROVE Plus(a, d) \in Addresses
    <2>1. Space \in Nat /\ Space > 0
      BY <1>2, <1>3, <1>4, <1>5
    <2>2. a + d \in Nat
      BY <2>1 DEF Addresses
    <2> QED BY <2>1, <2>2 DEF Plus, Addresses
  <1> QED BY <1>2, <1>3, <1>4, <1>5, <1>6

\* Page numbers and physical addresses are naturals.
LEMMA Pagings ==
    ASSUME NEW a \in Addresses
    PROVE  /\ a \in Nat /\ Vpn(a) \in Nat
           /\ \A e \in TlbEntries : Subpage(e, a) \in 1 .. 2 /\ Phys(e, a) \in Nat
  <1>1. a \in Nat
    BY Segments DEF Addresses
  <1>2. Vpn(a) \in Nat
    BY <1>1, R4kConstants DEF Vpn
  <1>3. ASSUME NEW e \in TlbEntries PROVE Subpage(e, a) \in 1 .. 2 /\ Phys(e, a) \in Nat
    <2>1. e.size \in Nat \ {0} /\ e.pg \in PageRecs \X PageRecs
      BY DEF TlbEntries
    <2>2. Vpn(a) \div e.size \in Nat /\ Vpn(a) % e.size \in Nat
      BY <1>2, <2>1
    <2>3. Subpage(e, a) \in 1 .. 2
      BY <2>2 DEF Subpage
    <2>4. e.pg[Subpage(e, a)] \in PageRecs
      BY <2>1, <2>3
    <2>5. e.pg[Subpage(e, a)].pfn \in Nat
      BY <2>4 DEF PageRecs
    <2>6. e.pg[Subpage(e, a)].pfn \div e.size \in Nat
      BY <2>1, <2>5
    <2>7. Frame(e, a) \in Nat
      BY <2>1, <2>2, <2>6 DEF Frame
    <2>8. a % PageWords \in Nat
      BY <1>1, R4kConstants
    <2>9. Frame(e, a) * PageWords \in Nat
      BY <2>7, R4kConstants
    <2> QED BY <2>3, <2>8, <2>9 DEF Phys
  <1> QED BY <1>1, <1>2, <1>3

\* The page number of the even page of a pair, under the mask of an entry, is
\* the pair's under the mask of one that is twice as large.
LEMMA PairNumbers ==
    ASSUME NEW m \in Nat \ {0}, NEW v \in Nat
    PROVE  /\ (2 * v) \div (2 * m) = v \div m
           /\ v \div (2 * m) = (v \div 2) \div m
           /\ (v * m) \div m = v
           /\ v \div m \in Nat
  OBVIOUS

\* The addresses of the exception vectors.
LEMMA VectorsAre ==
    /\ Vectors \subseteq Addresses
    /\ \A c \in Cpus, e \in Excs : Vector(c, e) \in Vectors
  <1>1. Seg \in Nat /\ Space = 8 * Seg
    BY Segments
  <1>2. Vectors \subseteq Addresses
    BY <1>1, R4kConstants DEF Vectors, Addresses
  <1>3. ASSUME NEW c \in Cpus, NEW e \in Excs PROVE Vector(c, e) \in Vectors
    <2>1. c.status.bev \in BOOLEAN /\ c.status.exl \in BOOLEAN
      BY DEF Cpus, Statuses
    <2>2. 4 * Seg + 0 = 4 * Seg /\ 5 * Seg + BootBase + 0 = 5 * Seg + BootBase
      BY <1>1, R4kConstants
    <2> QED BY <2>1, <2>2 DEF Vector, Vectors
  <1> QED BY <1>2, <1>3

\* The entries in the order of the search, which starts at the hint.
LEMMA SearchOrder ==
    ASSUME NEW t \in Slots
    PROVE  /\ \A i \in Slots : (i + t) % Entries \in Slots
           /\ \A e \in Slots : \E i \in Slots : (i + t) % Entries = e
  <1>1. Entries \in Nat /\ Entries > 0
    BY R4kConstants
  <1>2. ASSUME NEW i \in Slots PROVE (i + t) % Entries \in Slots
    BY <1>1 DEF Slots
  <1>3. ASSUME NEW e \in Slots PROVE \E i \in Slots : (i + t) % Entries = e
    <2>1. CASE e >= t
      <3>1. e - t \in Slots /\ (e - t) + t = e /\ e % Entries = e
        BY <1>1, <2>1 DEF Slots
      <3> QED BY <3>1
    <2>2. CASE e < t
      <3>1. e + Entries - t \in Slots /\ (e + Entries - t) + t = e + Entries
        BY <1>1, <2>2 DEF Slots
      <3>2. (e + Entries) % Entries = e
        BY <1>1 DEF Slots
      <3> QED BY <3>1, <3>2
    <2> QED BY <1>1, <2>1, <2>2 DEF Slots
  <1> QED BY <1>2, <1>3

\* tlb_look moves the hint and nothing else; only a write meets a clean page;
\* and it misses exactly if no entry matches.
LEMMA LookDoes ==
    ASSUME NEW c \in Cpus, NEW a \in Addresses, NEW wr \in BOOLEAN
    PROVE  LET r == tlb_look(c, a, wr)
           IN  /\ \E h \in Slots : r.c = [c EXCEPT !.tlb_hint = h]
               /\ r.look \in {"OK", "REFILL", "INVALID", "MODIFIED"}
               /\ r.look = "MODIFIED" => wr
               /\ r.phys \subseteq Nat
  <1> DEFINE at(i) == c.tlb[(i + c.tlb_hint) % Entries]
             hits == {i \in Slots : Matches(at(i), a, c.entryhi.asid)}
             least == CHOOSE h \in hits : \A g \in hits : h <= g
             page == at(least).pg[Subpage(at(least), a)]
             r == tlb_look(c, a, wr)
  <1>1. c.tlb_hint \in Slots /\ c.tlb \in [Slots -> TlbEntries] /\ c.status.ts \in BOOLEAN
    BY DEF Cpus, Statuses
  <1>2. \A i \in Slots : at(i) \in TlbEntries
    BY <1>1, SearchOrder, Zenon
  <1>3. Garbage \subseteq Nat
    BY R4kConstants
  <1>4. c = [c EXCEPT !.tlb_hint = c.tlb_hint]
    BY DEF Cpus
  <1>5. hits # {} => least \in hits
    <2> SUFFICES ASSUME hits # {} PROVE least \in hits
      BY Zenon
    <2>1. hits \subseteq Nat
      BY DEF Slots
    <2> HIDE DEF hits
    <2>2. \E h \in hits : \A g \in hits : h <= g
      BY <2>1, LeastOf
    <2> QED BY <2>2
  <1>6. r = CASE c.status.ts -> [c |-> c, look |-> "OK", phys |-> Garbage]
         [] ~c.status.ts /\ hits = {} -> [c |-> c, look |-> "REFILL", phys |-> Garbage]
         [] OTHER -> IF ~page.valid THEN [c |-> c, look |-> "INVALID", phys |-> Garbage]
                     ELSE IF wr /\ ~page.dirty THEN [c |-> c, look |-> "MODIFIED", phys |-> Garbage]
                     ELSE [c |-> [c EXCEPT !.tlb_hint = least], look |-> "OK", phys |-> {Phys(at(least), a)}]
    BY DEF tlb_look, Slots
  <1>7. hits # {} => least \in Slots /\ Phys(at(least), a) \in Nat
    BY <1>2, <1>5, Pagings, Zenon
  <1> HIDE DEF hits, least, page, at, r
  <1>8. CASE c.status.ts
    BY <1>1, <1>3, <1>4, <1>6, <1>8 DEF r
  <1>9. CASE ~c.status.ts /\ hits = {}
    BY <1>1, <1>3, <1>4, <1>6, <1>9 DEF r
  <1>10. CASE ~c.status.ts /\ hits # {}
    <2>1. r = IF ~page.valid THEN [c |-> c, look |-> "INVALID", phys |-> Garbage]
              ELSE IF wr /\ ~page.dirty THEN [c |-> c, look |-> "MODIFIED", phys |-> Garbage]
              ELSE [c |-> [c EXCEPT !.tlb_hint = least], look |-> "OK", phys |-> {Phys(at(least), a)}]
      BY <1>6, <1>10
    <2> QED BY <1>1, <1>3, <1>4, <1>7, <1>10, <2>1 DEF r
  <1> QED BY <1>1, <1>8, <1>9, <1>10, Zenon

\* When tlb_look misses.
LEMMA LookMisses ==
    ASSUME NEW c \in Cpus, NEW a
    PROVE  tlb_look(c, a, FALSE).look = "REFILL"
             <=> ~c.status.ts /\ \A e \in Slots : ~Matches(c.tlb[e], a, c.entryhi.asid)
  <1> DEFINE at(i) == c.tlb[(i + c.tlb_hint) % Entries]
             hits == {i \in Slots : Matches(at(i), a, c.entryhi.asid)}
             least == CHOOSE h \in hits : \A g \in hits : h <= g
             page == at(least).pg[Subpage(at(least), a)]
             r == tlb_look(c, a, FALSE)
  <1>1. c.tlb_hint \in Slots /\ c.status.ts \in BOOLEAN
    BY DEF Cpus, Statuses
  <1>2. hits = {} <=> \A e \in Slots : ~Matches(c.tlb[e], a, c.entryhi.asid)
    BY <1>1, SearchOrder, Zenon
  <1>3. r = CASE c.status.ts -> [c |-> c, look |-> "OK", phys |-> Garbage]
         [] ~c.status.ts /\ hits = {} -> [c |-> c, look |-> "REFILL", phys |-> Garbage]
         [] OTHER -> IF ~page.valid THEN [c |-> c, look |-> "INVALID", phys |-> Garbage]
                     ELSE IF FALSE /\ ~page.dirty THEN [c |-> c, look |-> "MODIFIED", phys |-> Garbage]
                     ELSE [c |-> [c EXCEPT !.tlb_hint = least], look |-> "OK", phys |-> {Phys(at(least), a)}]
    BY DEF tlb_look, Slots
  <1> HIDE DEF hits, least, page, at, r
  <1> SUFFICES (r.look = "REFILL") <=> (~c.status.ts /\ hits = {})
    BY <1>1, <1>2, Zenon DEF r
  <1>4. CASE c.status.ts
    BY <1>1, <1>3, <1>4
  <1>5. CASE ~c.status.ts /\ hits = {}
    BY <1>1, <1>3, <1>5
  <1>6. CASE ~c.status.ts /\ hits # {}
    <2>1. r = IF ~page.valid THEN [c |-> c, look |-> "INVALID", phys |-> Garbage]
              ELSE [c |-> [c EXCEPT !.tlb_hint = least], look |-> "OK", phys |-> {Phys(at(least), a)}]
      BY <1>1, <1>3, <1>6
    <2> QED BY <1>1, <1>6, <2>1
  <1> QED BY <1>1, <1>4, <1>5, <1>6

\* What no access to memory changes but for the link.
Untouched(c, d) ==
    /\ d.pc = c.pc /\ d.pc_next = c.pc_next /\ d.excaddr = c.excaddr /\ d.branch = c.branch
    /\ d.status = c.status /\ d.ip = c.ip /\ d.exccode = c.exccode /\ d.bd = c.bd
    /\ d.epc = c.epc /\ d.errorepc = c.errorepc /\ d.index = c.index
    /\ d.random = c.random /\ d.wired = c.wired /\ d.entrylo0 = c.entrylo0 /\ d.entrylo1 = c.entrylo1
    /\ d.pagemask = c.pagemask /\ d.count = c.count /\ d.compare = c.compare
    /\ d.watch = c.watch /\ d.waddr = c.waddr /\ d.tlb = c.tlb

\* What an access leaves: an address that failed is in BadVAddr, the page of
\* one that missed in EntryHi, and one that succeeds changes neither.
Accessed(c, d) ==
    /\ d \in Cpus /\ Untouched(c, d)
    /\ d.exc = "None" => d.entryhi = c.entryhi /\ d.badvaddr = c.badvaddr
    /\ d.exc \in {"TLBR"} \cup Refills => d.entryhi.vpn2 = Vpn(d.badvaddr) \div 2

\* Return sets the exception an access or an instruction ends with, and nothing else.
LEMMA ReturnDoes ==
    ASSUME NEW c \in Cpus, NEW e \in Excs
    PROVE  /\ Return(c, e) \in Cpus /\ Untouched(c, Return(c, e))
           /\ Return(c, e).exc = e /\ Return(c, e).host = c.host
           /\ Return(c, e).entryhi = c.entryhi /\ Return(c, e).badvaddr = c.badvaddr
           /\ Return(c, e).tlb_hint = c.tlb_hint
           /\ Return(c, e).llbit = c.llbit /\ Return(c, e).lladdr = c.lladdr
  BY DEF Cpus, Return, Untouched

\* tlb_look leaves the entry it found as the hint of the next lookup, and nothing else.
LEMMA HintDoes ==
    ASSUME NEW c \in Cpus, NEW h \in Slots, NEW d, d = [c EXCEPT !.tlb_hint = h]
    PROVE  /\ d \in Cpus /\ Untouched(c, d) /\ d.host = c.host /\ d.exc = c.exc
           /\ d.entryhi = c.entryhi /\ d.badvaddr = c.badvaddr
           /\ d.llbit = c.llbit /\ d.lladdr = c.lladdr
  BY DEF Cpus, Untouched

\* A failed address goes to BadVAddr and EntryHi.
Filled(c, d, a, v) ==
    /\ d \in Cpus /\ Untouched(c, d) /\ d.host = c.host /\ d.exc = c.exc
    /\ d.entryhi.vpn2 = v /\ d.badvaddr = a
    /\ d.llbit = c.llbit /\ d.lladdr = c.lladdr

\* fill_tlb_error and fill_addr_error.
LEMMA FillDoes ==
    ASSUME NEW c \in Cpus, NEW a \in Addresses
    PROVE  /\ Filled(c, fill_tlb_error(c, a), a, Vpn(a) \div 2)
           /\ Filled(c, fill_addr_error(c, a), a, 0)
  <1>1. ASSUME NEW v \in Nat PROVE Filled(c, [c EXCEPT !.badvaddr = a, !.entryhi.vpn2 = v], a, v)
    BY ZenonT(60) DEF Filled, Cpus, EntryHis, Untouched
  <1>2. Vpn(a) \div 2 \in Nat
    BY Pagings
  <1> QED BY <1>1, <1>2, Zenon DEF fill_tlb_error, fill_addr_error

Converted(c, d, wr) ==
    /\ Accessed(c, d) /\ d.host = c.host /\ d.llbit = c.llbit /\ d.lladdr = c.lladdr
    /\ d.exc \in {"None", "AddrError", "TLB", "TLBR"} \cup (IF wr THEN {"Mod"} ELSE {})

\* An address that needs no TLB, and one outside the segments of the mode.
LEMMA DirectDoes ==
    ASSUME NEW c \in Cpus, NEW a \in Addresses, NEW wr \in BOOLEAN, NEW phys \in SUBSET Nat
    PROVE  /\ Converted(c, Direct(c, phys).c, wr) /\ Direct(c, phys).phys \subseteq Nat
           /\ Converted(c, AddrError(c, a).c, wr) /\ AddrError(c, a).phys \subseteq Nat
  <1>1. Converted(c, Return(c, "None"), wr)
    BY ReturnDoes DEF Converted, Accessed, Excs, Causes, Refills
  <1> DEFINE d == fill_addr_error(c, a)
  <1>2. Filled(c, d, a, 0)
    BY FillDoes
  <1> HIDE DEF d
  <1>3. Converted(c, Return(d, "AddrError"), wr)
    BY <1>2, ReturnDoes DEF Filled, Converted, Accessed, Untouched, Excs, Causes, Refills
  <1> QED BY <1>1, <1>3, R4kConstants DEF Direct, AddrError, d

\* tlb_hit32.
LEMMA HitDoes ==
    ASSUME NEW c \in Cpus, NEW a \in Addresses, NEW wr \in BOOLEAN
    PROVE  Converted(c, tlb_hit32(c, a, wr).c, wr) /\ tlb_hit32(c, a, wr).phys \subseteq Nat
  <1> DEFINE r == tlb_look(c, a, wr)
             Failed(e) == [c |-> Return(fill_tlb_error(r.c, a), e), phys |-> r.phys]
             t == tlb_hit32(c, a, wr)
  <1>1. PICK h \in Slots : r.c = [c EXCEPT !.tlb_hint = h]
    BY LookDoes
  <1>2. r.look \in {"OK", "REFILL", "INVALID", "MODIFIED"} /\ (r.look = "MODIFIED" => wr) /\ r.phys \subseteq Nat
    BY LookDoes
  <1>3. t = CASE r.look = "OK" -> [c |-> Return(r.c, "None"), phys |-> r.phys]
              [] r.look = "REFILL" -> Failed("TLBR")
              [] r.look = "INVALID" -> Failed("TLB")
              [] r.look = "MODIFIED" -> Failed("Mod")
    BY DEF tlb_hit32
  <1> SUFFICES Converted(c, t.c, wr) /\ t.phys \subseteq Nat
    OBVIOUS
  <1> HIDE DEF r, t
  <1>4. /\ r.c \in Cpus /\ Untouched(c, r.c) /\ r.c.host = c.host
        /\ r.c.entryhi = c.entryhi /\ r.c.badvaddr = c.badvaddr
        /\ r.c.llbit = c.llbit /\ r.c.lladdr = c.lladdr
    BY <1>1, HintDoes
  <1>5. CASE r.look = "OK"
    <2>1. t = [c |-> Return(r.c, "None"), phys |-> r.phys]
      BY <1>3, <1>5
    <2>2. Converted(c, Return(r.c, "None"), wr)
      BY <1>4, ReturnDoes DEF Converted, Accessed, Untouched, Excs, Causes, Refills
    <2> QED BY <1>2, <2>1, <2>2
  <1>6. ASSUME NEW e \in {"TLBR", "TLB", "Mod"}, e = "Mod" => wr
        PROVE  Converted(c, Failed(e).c, wr) /\ Failed(e).phys \subseteq Nat
    <2> DEFINE d == fill_tlb_error(r.c, a)
    <2>1. Filled(r.c, d, a, Vpn(a) \div 2)
      BY <1>4, FillDoes
    <2> HIDE DEF d
    <2>2. Converted(c, Return(d, e), wr)
      <3>1. e \in Excs
        BY DEF Excs, Causes
      <3>2. Untouched(c, Return(d, e))
        BY <1>4, <2>1, <3>1, ReturnDoes DEF Filled, Untouched
      <3> QED BY <1>4, <1>6, <2>1, <3>1, <3>2, ReturnDoes DEF Filled, Converted, Accessed, Refills
    <2> QED BY <1>2, <2>2 DEF d
  <1> HIDE DEF Failed
  <1>7. CASE r.look = "REFILL"
    BY <1>3, <1>6, <1>7
  <1>8. CASE r.look = "INVALID"
    BY <1>3, <1>6, <1>8
  <1>9. CASE r.look = "MODIFIED"
    BY <1>2, <1>3, <1>6, <1>9, Zenon
  <1> QED BY <1>2, <1>5, <1>7, <1>8, <1>9

\* r4k_convert_addr, in every mode.
LEMMA ConvertDoes ==
    ASSUME NEW c \in Cpus, NEW a \in Addresses, NEW wr \in BOOLEAN
    PROVE  /\ Converted(c, r4k_convert_addr(c, a, wr).c, wr)
           /\ r4k_convert_addr(c, a, wr).phys \subseteq Nat
  <1> DEFINE OK(r) == Converted(c, r.c, wr) /\ r.phys \subseteq Nat
  <1>1. Seg \in Nat
    BY Segments
  <1>2. OK(AddrError(c, a)) /\ OK(tlb_hit32(c, a, wr)) /\ \A phys \in SUBSET Nat : OK(Direct(c, phys))
    BY DirectDoes, HitDoes, Zenon
  <1> HIDE DEF OK
  <1>3. OK(convert_addr_user32(c, a, wr)) /\ OK(convert_addr_supervisor32(c, a, wr))
    BY <1>2 DEF convert_addr_user32, convert_addr_supervisor32
  <1>4. OK(convert_addr_kernel32(c, a, wr))
    <2> DEFINE low == a \in kuseg /\ c.status.erl
    <2>1. (a \in kseg0 => {a - 4 * Seg} \in SUBSET Nat) /\ (a \in kseg1 => {a - 5 * Seg} \in SUBSET Nat)
      BY <1>1 DEF kseg0, kseg1
    <2>2. Garbage \in SUBSET Nat
      BY R4kConstants
    <2>3. (a \in kseg0 => a \notin kuseg) /\ (a \in kseg1 => a \notin kuseg /\ a \notin kseg0)
      BY <1>1 DEF kuseg, kseg0, kseg1
    <2>4. convert_addr_kernel32(c, a, wr) =
            CASE low -> Direct(c, Garbage)
              [] a \in kseg0 -> Direct(c, {a - 4 * Seg})
              [] a \in kseg1 -> Direct(c, {a - 5 * Seg})
              [] OTHER -> tlb_hit32(c, a, wr)
      BY DEF convert_addr_kernel32
    <2>5. low => a \notin kseg0 /\ a \notin kseg1
      BY <2>3
    <2> HIDE DEF low
    <2>6. CASE low
      BY <1>2, <2>2, <2>4, <2>5, <2>6
    <2>7. CASE a \in kseg0
      BY <1>2, <2>1, <2>3, <2>4, <2>5, <2>7
    <2>8. CASE a \in kseg1
      BY <1>2, <2>1, <2>3, <2>4, <2>5, <2>8
    <2>9. CASE ~low /\ a \notin kseg0 /\ a \notin kseg1
      BY <1>2, <2>4, <2>9
    <2> QED BY <2>6, <2>7, <2>8, <2>9
  <1>5. OK(r4k_convert_addr(c, a, wr))
    <2>1. c.status.ksu \in 0 .. 3 /\ c.status.exl \in BOOLEAN /\ c.status.erl \in BOOLEAN
      BY DEF Cpus, Statuses
    <2> DEFINE u == CPU_USER_MODE(c)
               s == CPU_SUPERVISOR_MODE(c)
               k == CPU_KERNEL_MODE(c)
    <2>2. (u => ~s /\ ~k) /\ (s => ~k)
      BY <2>1 DEF CPU_USER_MODE, CPU_SUPERVISOR_MODE, CPU_KERNEL_MODE
    <2>3. r4k_convert_addr(c, a, wr) =
            CASE u -> convert_addr_user32(c, a, wr)
              [] s -> convert_addr_supervisor32(c, a, wr)
              [] k -> convert_addr_kernel32(c, a, wr)
              [] OTHER -> AddrError(c, a)
      BY DEF r4k_convert_addr
    <2>4. u \in BOOLEAN /\ s \in BOOLEAN /\ k \in BOOLEAN
      BY DEF CPU_USER_MODE, CPU_SUPERVISOR_MODE, CPU_KERNEL_MODE
    <2> HIDE DEF u, s, k
    <2>5. CASE u
      BY <1>3, <2>2, <2>3, <2>5
    <2>6. CASE s
      BY <1>3, <2>2, <2>3, <2>6
    <2>7. CASE k
      BY <1>4, <2>2, <2>3, <2>7
    <2>8. CASE ~u /\ ~s /\ ~k
      BY <1>2, <2>3, <2>8
    <2> QED BY <2>5, <2>6, <2>7, <2>8
  <1> QED BY <1>5 DEF OK

\* A watched address ends the simulation; any other is converted.
LEMMA AccessOutcomes ==
    ASSUME NEW c \in Cpus, NEW a \in Addresses, NEW mode \in {"read", "write"},
           NEW r \in access_mem(c, a, mode)
    PROVE  /\ r.c \in Cpus /\ r.c.exc = r4k_convert_addr(c, a, mode = "write").c.exc
           /\ r.c.host = "runs" => r.c = r4k_convert_addr(c, a, mode = "write").c
           /\ r.p \in r4k_convert_addr(c, a, mode = "write").phys
  <1> DEFINE t == r4k_convert_addr(c, a, mode = "write")
  <1>1. t.c \in Cpus
    BY ConvertDoes, Zenon DEF Converted, Accessed
  <1>2. PICK p \in t.phys :
           \/ r = [c |-> Abort(t.c), p |-> p]
           \/ r = [c |-> t.c, p |-> p]
    BY DEF access_mem
  <1> HIDE DEF t
  <1>3. Abort(t.c) \in Cpus /\ Abort(t.c).host = "abort" /\ Abort(t.c).exc = t.c.exc
    BY <1>1 DEF Abort, Cpus
  <1> SUFFICES r.c \in Cpus /\ r.c.exc = t.c.exc /\ (r.c.host = "runs" => r.c = t.c) /\ r.p \in t.phys
    BY DEF t
  <1>4. (r.c = t.c \/ r.c = Abort(t.c)) /\ r.p = p
    BY <1>2
  <1> QED BY <1>1, <1>2, <1>3, <1>4

\* access_mem, unless a watched address ends the simulation.
LEMMA AccessDoes ==
    ASSUME NEW c \in Cpus, NEW a \in Addresses, NEW mode \in {"read", "write"},
           NEW r \in access_mem(c, a, mode), r.c.host = "runs"
    PROVE  Converted(c, r.c, mode = "write") /\ r.p \in Nat
  BY AccessOutcomes, ConvertDoes, ZenonT(60)

Loads == {"None", "AdEL", "TLBL", "TLBLR"}
Stores == {"None", "AdES", "TLBS", "TLBSR", "Mod"}

\* cpu_read_mem: the exceptions get their names for a read.
LEMMA ReadDoes ==
    ASSUME NEW c \in Cpus, NEW i, i.a \in Addresses, i.aligned \in BOOLEAN,
           NEW r \in cpu_read_mem(c, i), r.c.host = "runs"
    PROVE  Accessed(c, r.c) /\ r.c.llbit = c.llbit /\ r.c.lladdr = c.lladdr /\ r.c.exc \in Loads
  <1>0. Loads \subseteq Excs
    BY DEF Loads, Excs, Causes
  <1>1. CASE ~i.aligned
    <2> DEFINE d == fill_addr_error(c, i.a)
    <2>1. Filled(c, d, i.a, 0)
      BY FillDoes
    <2>2. r = [c |-> Return(d, "AdEL"), p |-> NoAddr]
      BY <1>1 DEF cpu_read_mem
    <2> HIDE DEF d
    <2>3. r.c = Return(d, "AdEL") /\ "AdEL" \in Excs
      BY <2>2 DEF Excs, Causes
    <2> QED BY <2>1, <2>3, ReturnDoes DEF Filled, Accessed, Untouched, Loads, Refills
  <1>2. CASE i.aligned
    <2>1. PICK q \in access_mem(c, i.a, "read") : r = [c |-> Return(q.c, ReadNames[q.c.exc]), p |-> q.p]
      BY <1>2 DEF cpu_read_mem
    <2>2. r.c = Return(q.c, ReadNames[q.c.exc])
      BY <2>1
    <2>3. q.c.host = "runs"
      <3>1. q.c \in Cpus
        BY AccessOutcomes
      <3>2. Return(q.c, ReadNames[q.c.exc]).host = q.c.host
        BY <3>1 DEF Return, Cpus
      <3> QED BY <2>2, <3>2
    <2>4. Converted(c, q.c, FALSE)
      BY <2>3, AccessDoes, Zenon
    <2>5. q.c \in Cpus /\ q.c.exc \in {"None", "AddrError", "TLB", "TLBR"}
      BY <2>4 DEF Converted, Accessed
    <2>6. /\ ReadNames[q.c.exc] \in Loads
          /\ ReadNames[q.c.exc] = "None" => q.c.exc = "None"
          /\ ReadNames[q.c.exc] \in {"TLBR"} \cup Refills => q.c.exc = "TLBR"
      BY <2>5 DEF ReadNames, Loads, Refills
    <2> DEFINE e == ReadNames[q.c.exc]
    <2> HIDE DEF e
    <2>7. /\ e \in Loads /\ r.c = Return(q.c, e)
          /\ e = "None" => q.c.exc = "None"
          /\ e \in {"TLBR"} \cup Refills => q.c.exc = "TLBR"
      BY <2>2, <2>6 DEF e
    <2>8. Untouched(c, r.c)
      BY <1>0, <2>4, <2>5, <2>7, ReturnDoes DEF Converted, Accessed, Untouched
    <2> QED BY <1>0, <2>4, <2>5, <2>7, <2>8, ReturnDoes DEF Converted, Accessed
  <1> QED BY <1>1, <1>2

\* What a read leaves is a processor, also where the simulation ends.
LEMMA ReadTyped ==
    ASSUME NEW c \in Cpus, NEW i, i.a \in Addresses, i.aligned \in BOOLEAN,
           NEW r \in cpu_read_mem(c, i)
    PROVE  r.c \in Cpus
  <1>1. CASE ~i.aligned
    <2>1. r.c = Return(fill_addr_error(c, i.a), "AdEL")
      BY <1>1 DEF cpu_read_mem
    <2>2. "AdEL" \in Excs
      BY DEF Excs, Causes
    <2> QED BY <2>1, <2>2, FillDoes, ReturnDoes DEF Filled
  <1>2. CASE i.aligned
    <2>1. PICK q \in access_mem(c, i.a, "read") : r.c = Return(q.c, ReadNames[q.c.exc])
      BY <1>2 DEF cpu_read_mem
    <2>2. q.c \in Cpus
      BY AccessOutcomes
    <2>3. q.c.exc \in {"None", "AddrError", "TLB", "TLBR"}
      BY AccessOutcomes, ConvertDoes, ZenonT(60) DEF Converted
    <2>4. ReadNames[q.c.exc] \in Excs
      BY <2>3 DEF ReadNames, Excs, Causes
    <2> QED BY <2>1, <2>2, <2>4, ReturnDoes
  <1> QED BY <1>1, <1>2

\* A write to physical memory may end the link.
LEMMA ScAccessDoes ==
    ASSUME NEW c \in Cpus, NEW p \in Nat, NEW d, d = r4k_sc_access(c, p)
    PROVE  /\ d \in Cpus /\ Untouched(c, d) /\ d.host = c.host /\ d.exc = c.exc
           /\ d.entryhi = c.entryhi /\ d.badvaddr = c.badvaddr /\ d.lladdr = c.lladdr
           /\ d.llbit => c.llbit
  BY ZenonT(60) DEF r4k_sc_access, Cpus, Untouched

\* cpu_write_mem.
LEMMA WriteDoes ==
    ASSUME NEW c \in Cpus, NEW i, i.a \in Addresses, i.aligned \in BOOLEAN,
           NEW d \in cpu_write_mem(c, i), d.host = "runs"
    PROVE  Accessed(c, d) /\ (d.llbit => c.llbit) /\ d.exc \in Stores
  <1>0. Stores \subseteq Excs
    BY DEF Stores, Excs, Causes
  <1>1. CASE ~i.aligned
    <2> DEFINE b == fill_addr_error(c, i.a)
    <2>1. Filled(c, b, i.a, 0)
      BY FillDoes
    <2>2. d = Return(b, "AdES")
      BY <1>1 DEF cpu_write_mem
    <2> HIDE DEF b
    <2>3. "AdES" \in Excs
      BY DEF Excs, Causes
    <2> QED BY <2>1, <2>2, <2>3, ReturnDoes DEF Filled, Accessed, Untouched, Stores, Refills
  <1>2. CASE i.aligned
    <2>1. PICK q \in access_mem(c, i.a, "write") :
             d = IF q.c.exc = "None" THEN r4k_sc_access(q.c, q.p) ELSE Return(q.c, WriteNames[q.c.exc])
      BY <1>2 DEF cpu_write_mem
    <2>2. q.c \in Cpus
      BY AccessOutcomes
    <2>3. q.p \in Nat
      BY AccessOutcomes, ConvertDoes, ZenonT(60)
    <2>4. q.c.host = "runs"
      <3>1. Return(q.c, WriteNames[q.c.exc]).host = q.c.host
        BY <2>2 DEF Return, Cpus
      <3>2. r4k_sc_access(q.c, q.p).host = q.c.host
        BY <2>2, <2>3, ScAccessDoes
      <3> QED BY <2>1, <3>1, <3>2
    <2>5. Converted(c, q.c, TRUE)
      BY <2>4, AccessDoes, Zenon
    <2>6. q.c.exc \in {"None", "AddrError", "TLB", "TLBR", "Mod"}
      BY <2>5 DEF Converted
    <2>7. CASE q.c.exc = "None"
      <3>1. d = r4k_sc_access(q.c, q.p)
        BY <2>1, <2>7
      <3>2. /\ d \in Cpus /\ Untouched(q.c, d) /\ d.exc = "None" /\ (d.llbit => q.c.llbit)
            /\ d.entryhi = q.c.entryhi /\ d.badvaddr = q.c.badvaddr
        BY <2>2, <2>3, <2>7, <3>1, ScAccessDoes
      <3>3. Untouched(c, d)
        BY <2>5, <3>2 DEF Converted, Accessed, Untouched
      <3> QED BY <2>5, <2>7, <3>2, <3>3 DEF Converted, Accessed, Stores, Refills
    <2>8. CASE q.c.exc # "None"
      <3> DEFINE e == WriteNames[q.c.exc]
      <3>1. /\ e \in Stores \ {"None"} /\ d = Return(q.c, e)
            /\ e \in {"TLBR"} \cup Refills => q.c.exc = "TLBR"
        BY <2>1, <2>6, <2>8 DEF WriteNames, Stores, Refills
      <3> HIDE DEF e
      <3>2. Untouched(c, d)
        BY <1>0, <2>2, <2>5, <3>1, ReturnDoes DEF Converted, Accessed, Untouched
      <3> QED BY <1>0, <2>2, <2>5, <3>1, <3>2, ReturnDoes DEF Converted, Accessed
    <2> QED BY <2>7, <2>8
  <1> QED BY <1>1, <1>2

\* The second conversion of LL and SC moves the hint only.
LEMMA AgainDoes ==
    ASSUME NEW c \in Cpus, NEW a \in Addresses
    PROVE  /\ Again(c, a) \in Cpus /\ Untouched(c, Again(c, a))
           /\ Again(c, a).host = c.host /\ Again(c, a).exc = c.exc
           /\ Again(c, a).entryhi = c.entryhi /\ Again(c, a).badvaddr = c.badvaddr
           /\ Again(c, a).llbit = c.llbit
  <1> DEFINE h == r4k_convert_addr(c, a, FALSE).c.tlb_hint
  <1>1. h \in Slots
    <2>1. r4k_convert_addr(c, a, FALSE).c \in Cpus
      BY ConvertDoes, Zenon DEF Converted, Accessed
    <2> QED BY <2>1, Zenon DEF Cpus
  <1>2. Again(c, a) = [c EXCEPT !.tlb_hint = h]
    BY DEF Again
  <1> HIDE DEF h
  <1> QED BY <1>1, <1>2, HintDoes

\* instr_ll.
LEMMA LlDoes ==
    ASSUME NEW c \in Cpus, NEW i, i.a \in Addresses, i.aligned \in BOOLEAN,
           NEW d \in instr_ll(c, i), d.host = "runs"
    PROVE  Accessed(c, d) /\ (d.llbit => d.exc = "None") /\ d.exc \in Loads
  <1>1. PICK r \in cpu_read_mem(c, i) :
           d \in IF r.c.exc # "None" THEN {[r.c EXCEPT !.llbit = FALSE]}
                 ELSE {[Again(r.c, i.a) EXCEPT !.llbit = TRUE, !.lladdr = p] :
                          p \in r4k_convert_addr(r.c, i.a, FALSE).phys}
    BY Zenon DEF instr_ll
  <1>2. r.c \in Cpus
    BY ReadTyped
  <1>3. CASE r.c.exc # "None"
    <2>1. d = [r.c EXCEPT !.llbit = FALSE]
      BY <1>1, <1>3
    <2>2. /\ d \in Cpus /\ Untouched(r.c, d) /\ d.host = r.c.host /\ d.exc = r.c.exc
          /\ d.entryhi = r.c.entryhi /\ d.badvaddr = r.c.badvaddr /\ d.llbit = FALSE
      BY <1>2, <2>1, ZenonT(60) DEF Cpus, Untouched
    <2>3. Accessed(c, r.c) /\ r.c.exc \in Loads
      BY <2>2, ReadDoes
    <2>4. Untouched(c, d)
      BY <2>2, <2>3 DEF Accessed, Untouched
    <2> QED BY <2>2, <2>3, <2>4 DEF Accessed
  <1>4. CASE r.c.exc = "None"
    <2> DEFINE b == Again(r.c, i.a)
    <2>1. PICK p \in r4k_convert_addr(r.c, i.a, FALSE).phys : d = [b EXCEPT !.llbit = TRUE, !.lladdr = p]
      BY <1>1, <1>4, Zenon
    <2>2. /\ b \in Cpus /\ Untouched(r.c, b) /\ b.host = r.c.host /\ b.exc = r.c.exc
          /\ b.entryhi = r.c.entryhi /\ b.badvaddr = r.c.badvaddr
      BY <1>2, AgainDoes
    <2>3. p \in Nat
      BY <1>2, ConvertDoes, Zenon
    <2> HIDE DEF b
    <2>4. /\ d \in Cpus /\ Untouched(b, d) /\ d.host = b.host /\ d.exc = b.exc
          /\ d.entryhi = b.entryhi /\ d.badvaddr = b.badvaddr
      BY <2>1, <2>2, <2>3, ZenonT(60) DEF Cpus, Untouched
    <2>5. Accessed(c, r.c) /\ r.c.exc \in Loads
      BY <2>2, <2>4, ReadDoes
    <2>6. Untouched(c, d)
      BY <2>2, <2>4, <2>5 DEF Accessed, Untouched
    <2> QED BY <1>4, <2>2, <2>4, <2>5, <2>6 DEF Accessed, Refills
  <1> QED BY <1>3, <1>4

\* What a write leaves is a processor.
LEMMA WriteTyped ==
    ASSUME NEW c \in Cpus, NEW i, i.a \in Addresses, i.aligned \in BOOLEAN,
           NEW d \in cpu_write_mem(c, i)
    PROVE  d \in Cpus
  <1>1. CASE ~i.aligned
    <2>1. d = Return(fill_addr_error(c, i.a), "AdES")
      BY <1>1 DEF cpu_write_mem
    <2>2. "AdES" \in Excs
      BY DEF Excs, Causes
    <2> QED BY <2>1, <2>2, FillDoes, ReturnDoes DEF Filled
  <1>2. CASE i.aligned
    <2>1. PICK q \in access_mem(c, i.a, "write") :
             d = IF q.c.exc = "None" THEN r4k_sc_access(q.c, q.p) ELSE Return(q.c, WriteNames[q.c.exc])
      BY <1>2 DEF cpu_write_mem
    <2>2. q.c \in Cpus /\ q.p \in Nat
      BY AccessOutcomes, ConvertDoes, ZenonT(60)
    <2>3. q.c.exc \in {"None", "AddrError", "TLB", "TLBR", "Mod"}
      <3>1. Converted(c, r4k_convert_addr(c, i.a, TRUE).c, TRUE)
        BY ConvertDoes, Zenon
      <3>2. q.c.exc = r4k_convert_addr(c, i.a, "write" = "write").c.exc
        BY AccessOutcomes
      <3>3. ("write" = "write") = TRUE
        OBVIOUS
      <3>4. q.c.exc = r4k_convert_addr(c, i.a, TRUE).c.exc
        BY <3>2, <3>3, ZenonT(60)
      <3> QED BY <3>1, <3>4, Zenon DEF Converted
    <2>4. WriteNames[q.c.exc] \in Excs
      BY <2>3 DEF WriteNames, Excs, Causes
    <2>5. r4k_sc_access(q.c, q.p) \in Cpus
      BY <2>2, ScAccessDoes
    <2>6. Return(q.c, WriteNames[q.c.exc]) \in Cpus
      BY <2>2, <2>4, ReturnDoes
    <2> QED BY <2>1, <2>5, <2>6
  <1> QED BY <1>1, <1>2

\* instr_sc.
LEMMA ScDoes ==
    ASSUME NEW c \in Cpus, NEW i, i.a \in Addresses, i.aligned \in BOOLEAN,
           NEW d \in instr_sc(c, i), d.host = "runs"
    PROVE  Accessed(c, d) /\ d.llbit = FALSE /\ d.exc \in Stores
  <1>1. CASE ~c.llbit
    <2>1. d = Return(c, "None") /\ "None" \in Excs
      BY <1>1 DEF instr_sc, Excs, Causes
    <2>2. c.llbit = FALSE
      BY <1>1 DEF Cpus
    <2> QED BY <2>1, <2>2, ReturnDoes DEF Accessed, Stores, Refills
  <1>2. CASE c.llbit
    <2>1. PICK b \in cpu_write_mem(c, i) : d = [(IF b.exc = "None" THEN Again(b, i.a) ELSE b) EXCEPT !.llbit = FALSE]
      BY <1>2 DEF instr_sc
    <2>2. b \in Cpus
      BY WriteTyped
    <2>3. PICK a \in Cpus : /\ d = [a EXCEPT !.llbit = FALSE]
                            /\ Untouched(b, a) /\ a.host = b.host /\ a.exc = b.exc
                            /\ a.entryhi = b.entryhi /\ a.badvaddr = b.badvaddr
      <3>1. CASE b.exc = "None"
        BY <2>1, <2>2, <3>1, AgainDoes, Zenon
      <3>2. CASE b.exc # "None"
        BY <2>1, <2>2, <3>2, Zenon DEF Untouched
      <3> QED BY <3>1, <3>2
    <2>4. /\ d \in Cpus /\ Untouched(a, d) /\ d.host = a.host /\ d.exc = a.exc
          /\ d.entryhi = a.entryhi /\ d.badvaddr = a.badvaddr /\ d.llbit = FALSE
      BY <2>3, ZenonT(60) DEF Cpus, Untouched
    <2>5. Accessed(c, b) /\ b.exc \in Stores
      BY <2>3, <2>4, WriteDoes
    <2>6. Untouched(c, d)
      BY <2>3, <2>4, <2>5 DEF Accessed, Untouched
    <2> QED BY <2>3, <2>4, <2>5, <2>6 DEF Accessed
  <1> QED BY <1>1, <1>2, Zenon

\* The loads and the stores, LL and SC.
LEMMA AccessesDo ==
    ASSUME NEW c \in Cpus, NEW i, Legal(i), i.op \in Accesses, NEW d \in fnc(c, i), d.host = "runs"
    PROVE  /\ Accessed(c, d) /\ d.exc \in Loads \cup Stores
           /\ d.llbit => \/ i.op = "ll" /\ d.exc = "None"
                         \/ c.llbit /\ i.op \in {"load", "store"}
  <1>0. i.a \in Addresses /\ i.aligned \in BOOLEAN
    BY DEF Legal
  <1>1. CASE i.op = "load"
    <2>1. PICK r \in cpu_read_mem(c, i) : d = r.c
      BY <1>1 DEF fnc
    <2> QED BY <1>0, <1>1, <2>1, ReadDoes
  <1>2. CASE i.op = "store"
    <2>1. d \in cpu_write_mem(c, i)
      BY <1>2 DEF fnc
    <2> QED BY <1>0, <1>2, <2>1, WriteDoes
  <1>3. CASE i.op = "ll"
    <2>1. d \in instr_ll(c, i)
      BY <1>3 DEF fnc
    <2> QED BY <1>0, <1>3, <2>1, LlDoes
  <1>4. CASE i.op = "sc"
    <2>1. d \in instr_sc(c, i)
      BY <1>4 DEF fnc
    <2> QED BY <1>0, <1>4, <2>1, ScDoes, Zenon
  <1> QED BY <1>1, <1>2, <1>3, <1>4 DEF Accesses

Cp0Instructions == {"mfc0", "mtc0", "tlbp", "tlbr", "tlbwi", "tlbwr", "eret"}
Effect(c, i) ==
    CASE i.op = "mfc0" -> c
      [] i.op = "mtc0" -> instr_mtc0(c, i)
      [] i.op = "tlbp" -> TLBP(c)
      [] i.op = "tlbr" -> TLBR(c)
      [] i.op = "tlbwi" -> TLBW(c, c.index.n)
      [] i.op = "tlbwr" -> TLBW(c, c.random)
      [] i.op = "eret" -> instr_eret(c)

\* What the instruction or the register called op may change.
Confined(c, x, op) ==
    /\ x \in Cpus /\ x.host = c.host
    /\ x.pc = c.pc /\ x.excaddr = c.excaddr /\ x.branch = c.branch /\ x.exc = c.exc
    /\ x.badvaddr = c.badvaddr
    /\ op # "eret" => x.pc_next = c.pc_next /\ x.llbit = c.llbit
    /\ op = "eret" => x.llbit = FALSE /\ (~c.status.erl => x.pc_next = c.epc)
    /\ op \notin {"eret", "Status"} => x.status = c.status
    /\ op # "EPC" => x.epc = c.epc
    /\ op # "Wired" => x.random = c.random /\ x.wired = c.wired
    /\ op = "Wired" => x.random = Entries - 1
    /\ op \notin {"tlbwi", "tlbwr"} => x.tlb = c.tlb
    /\ op \notin {"tlbr", "EntryHi"} => x.entryhi = c.entryhi
    /\ op # "Compare" => (7 \in c.ip => 7 \in x.ip)
    /\ op # "Count" => x.count = c.count

\* A set of entries of the TLB has a first one.
LEMMA FirstSlot ==
    ASSUME NEW hits \in SUBSET Slots, hits # {}
    PROVE  (CHOOSE h \in hits : \A g \in hits : h <= g) \in hits
  <1>1. hits \in SUBSET Nat
    BY DEF Slots
  <1>2. \E h \in hits : \A g \in hits : h <= g
    BY <1>1, LeastOf
  <1> QED BY <1>2

\* TLBP changes Index only; its P bit is set exactly if no entry matches EntryHi.
LEMMA TlbpDoes ==
    ASSUME NEW c \in Cpus
    PROVE  /\ Confined(c, TLBP(c), "tlbp")
           /\ TLBP(c).index.p <=> \A e \in Slots : ~Probed(c.tlb[e], c.entryhi)
  <1> DEFINE hits == {e \in Slots : Probed(c.tlb[e], c.entryhi)}
             first == CHOOSE h \in hits : \A g \in hits : h <= g
             v == IF hits = {} THEN [p |-> TRUE, n |-> 0] ELSE [p |-> FALSE, n |-> first]
  <1>1. TLBP(c) = [c EXCEPT !.index = v]
    BY DEF TLBP, Slots
  <1>2. hits \subseteq Slots /\ (hits = {} <=> \A e \in Slots : ~Probed(c.tlb[e], c.entryhi))
    OBVIOUS
  <1> HIDE DEF hits
  <1>3. hits # {} => first \in Nat
    <2>1. hits # {} => first \in hits
      BY <1>2, FirstSlot, Zenon
    <2> HIDE DEF first
    <2>2. hits # {} => first \in Slots
      BY <1>2, <2>1, Zenon
    <2>3. Slots \subseteq Nat
      BY DEF Slots
    <2> QED BY <2>2, <2>3, Zenon
  <1> HIDE DEF first
  <1>4. v \in Indexes /\ (v.p <=> hits = {})
    BY <1>3 DEF Indexes
  <1> HIDE DEF v
  <1>5. [c EXCEPT !.index = v] \in Cpus /\ [c EXCEPT !.index = v].index = v
    BY <1>4 DEF Cpus
  <1> QED BY <1>1, <1>2, <1>4, <1>5 DEF Confined, Cpus

\* The largest page size is one.
LEMMA LargestIs == LargestMask \in Masks
  BY R4kConstants, Zenon DEF LargestMask

\* TLBR changes EntryHi, EntryLo0, EntryLo1 and PageMask only, also with an Index
\* past the last entry.
LEMMA TlbrDoes ==
    ASSUME NEW c \in Cpus
    PROVE  Confined(c, TLBR(c), "tlbr")
  <1>0. NoLo \in EntryLos /\ [vpn2 |-> 0, asid |-> 0] \in EntryHis /\ 1 \in Masks /\ c.index.n \in Nat
    BY R4kConstants DEF NoLo, EntryLos, EntryHis, Cpus, Indexes
  <1>2. CASE c.index.n >= Entries
    <2> DEFINE hi == [vpn2 |-> 0, asid |-> 0]
               x == [c EXCEPT !.pagemask = 1, !.entryhi = hi, !.entrylo0 = NoLo, !.entrylo1 = NoLo]
    <2>1. TLBR(c) = x
      BY <1>2 DEF TLBR
    <2>2. hi \in EntryHis
      BY <1>0
    <2> HIDE DEF hi
    <2>3. x \in Cpus
      BY <1>0, <2>2, ZenonT(60) DEF Cpus
    <2>4. Confined(c, x, "tlbr")
      BY <2>3 DEF Confined, Cpus
    <2> QED BY <2>1, <2>4
  <1>3. CASE ~(c.index.n >= Entries)
    <2> DEFINE e == c.tlb[c.index.n]
               m == IF e.size \in Masks THEN e.size ELSE LargestMask
               hi == [vpn2 |-> e.vpn2 * e.size, asid |-> e.asid]
               lo0 == EntryLo(e.pg[1], e.global)
               lo1 == EntryLo(e.pg[2], e.global)
               x == [c EXCEPT !.pagemask = m, !.entryhi = hi, !.entrylo0 = lo0, !.entrylo1 = lo1]
    <2>1. TLBR(c) = x
      BY <1>3 DEF TLBR
    <2>2. c.index.n \in Slots
      BY <1>0, <1>3, R4kConstants DEF Slots
    <2>3. e \in TlbEntries
      BY <2>2 DEF Cpus
    <2> HIDE DEF e
    <2>4. e.vpn2 * e.size \in Nat /\ e.asid \in Nat /\ e.global \in BOOLEAN /\ e.pg \in PageRecs \X PageRecs
      BY <2>3 DEF TlbEntries
    <2>5. hi \in EntryHis
      BY <2>4 DEF EntryHis
    <2>6. e.pg[1] \in PageRecs /\ e.pg[2] \in PageRecs
      BY <2>4
    <2>7. lo0 \in EntryLos /\ lo1 \in EntryLos
      BY <2>4, <2>6 DEF EntryLo, EntryLos, PageRecs
    <2>8. m \in Masks
      BY LargestIs
    <2> HIDE DEF m, hi, lo0, lo1
    <2>9. x \in Cpus
      BY <2>5, <2>7, <2>8, ZenonT(60) DEF Cpus
    <2>10. Confined(c, x, "tlbr")
      BY <2>9 DEF Confined, Cpus
    <2> QED BY <2>1, <2>10
  <1> QED BY <1>2, <1>3

\* The entry that TLBWI and TLBWR write.
NewEntry(c) ==
    [size |-> c.pagemask, vpn2 |-> c.entryhi.vpn2 \div c.pagemask,
     global |-> c.entrylo0.g /\ c.entrylo1.g, asid |-> c.entryhi.asid,
     pg |-> <<Page(c.entrylo0), Page(c.entrylo1)>>]

\* TLBWI and TLBWR write one entry, put together from EntryHi, EntryLo0, EntryLo1
\* and PageMask; with an index past the last entry they write none.
LEMMA TlbwDoes ==
    ASSUME NEW c \in Cpus, NEW index \in Nat, NEW op \in {"tlbwi", "tlbwr"}
    PROVE  /\ Confined(c, TLBW(c, index), op)
           /\ TLBW(c, index).tlb = [c.tlb EXCEPT ![index] = IF index < Entries THEN NewEntry(c) ELSE @]
           /\ TLBW(c, index).pagemask = c.pagemask
  <1>1. NewEntry(c) \in TlbEntries
    <2>1. c.pagemask \in Nat \ {0} /\ c.entryhi \in EntryHis /\ c.entrylo0 \in EntryLos /\ c.entrylo1 \in EntryLos
      BY R4kConstants, Zenon DEF Cpus
    <2>2. c.entryhi.vpn2 \div c.pagemask \in Nat /\ c.entryhi.asid \in Nat
      BY <2>1, PairNumbers DEF EntryHis
    <2>3. Page(c.entrylo0) \in PageRecs /\ Page(c.entrylo1) \in PageRecs
      BY <2>1 DEF Page, EntryLos, PageRecs
    <2>4. (c.entrylo0.g /\ c.entrylo1.g) \in BOOLEAN
      OBVIOUS
    <2> QED BY <2>1, <2>2, <2>3, <2>4 DEF NewEntry, TlbEntries
  <1>2. CASE index >= Entries
    <2>1. TLBW(c, index) = c
      BY <1>2 DEF TLBW
    <2>2. c.tlb = [c.tlb EXCEPT ![index] = IF index < Entries THEN NewEntry(c) ELSE @]
      BY <1>2, R4kConstants DEF Cpus, Slots
    <2> QED BY <2>1, <2>2 DEF Confined
  <1>3. CASE ~(index >= Entries)
    <2>1. TLBW(c, index) = [c EXCEPT !.tlb[index] = NewEntry(c)]
      BY <1>3 DEF TLBW, NewEntry
    <2> DEFINE n == NewEntry(c)
    <2> HIDE DEF n
    <2>2. index \in Slots /\ index < Entries
      BY <1>3, R4kConstants DEF Slots
    <2>3. n \in TlbEntries /\ TLBW(c, index) = [c EXCEPT !.tlb[index] = n]
      BY <1>1, <2>1 DEF n
    <2>4. [c.tlb EXCEPT ![index] = n] \in [Slots -> TlbEntries]
      BY <2>2, <2>3 DEF Cpus
    <2>5. TLBW(c, index) \in Cpus
      BY <2>3, <2>4 DEF Cpus
    <2>6. TLBW(c, index).tlb = [c.tlb EXCEPT ![index] = n]
      BY <2>3 DEF Cpus
    <2> QED BY <2>2, <2>3, <2>5, <2>6 DEF Confined, Cpus, n
  <1> QED BY <1>2, <1>3

\* ERET drops the link, and resumes at EPC when it does not leave the error level.
LEMMA EretDoes ==
    ASSUME NEW c \in Cpus
    PROVE  Confined(c, instr_eret(c), "eret")
  <1>1. c.status \in Statuses
    BY DEF Cpus
  <1>2. [c.status EXCEPT !.erl = FALSE] \in Statuses /\ [c.status EXCEPT !.exl = FALSE] \in Statuses
    BY <1>1, Zenon DEF Statuses
  <1>3. CASE c.status.erl
    <2> DEFINE s == [c.status EXCEPT !.erl = FALSE]
               x == [c EXCEPT !.llbit = FALSE, !.pc_next = c.errorepc, !.status = s]
    <2>1. instr_eret(c) = x
      BY <1>3 DEF instr_eret
    <2>2. s \in Statuses
      BY <1>2
    <2> HIDE DEF s
    <2>3. x \in Cpus
      BY <2>2, ZenonT(60) DEF Cpus
    <2>4. Confined(c, x, "eret")
      BY <1>3, <2>3 DEF Confined, Cpus
    <2> QED BY <2>1, <2>4
  <1>4. CASE ~c.status.erl
    <2> DEFINE s == [c.status EXCEPT !.exl = FALSE]
               x == [c EXCEPT !.llbit = FALSE, !.pc_next = c.epc, !.status = s]
    <2>1. instr_eret(c) = x
      BY <1>4 DEF instr_eret
    <2>2. s \in Statuses
      BY <1>2
    <2> HIDE DEF s
    <2>3. x \in Cpus
      BY <2>2, ZenonT(60) DEF Cpus
    <2>4. Confined(c, x, "eret")
      BY <1>4, <2>3 DEF Confined, Cpus
    <2> QED BY <2>1, <2>4
  <1> QED BY <1>3, <1>4

\* MTC0: each register takes a value of its type, and nothing else changes but
\* what Wired does to Random and Compare to the timer interrupt.
LEMMA Mtc0Does ==
    ASSUME NEW c \in Cpus, NEW i, Legal(i), i.op = "mtc0", i.reg # "XContext"
    PROVE  Confined(c, instr_mtc0(c, i), i.reg)
  <1>0. /\ i.reg \in Registers
        /\ i.reg \in Numbers => i.n \in Nat
        /\ i.reg \in {"EPC", "ErrorEPC"} => i.n \in Addresses
        /\ i.reg \in {"EntryLo0", "EntryLo1"} => i.lo \in EntryLos
        /\ i.reg = "EntryHi" => i.hi \in EntryHis
        /\ i.reg = "Status" => i.status \in Statuses
        /\ i.reg = "Cause" => i.ip \subseteq 0 .. 7
        /\ i.reg = "WatchLo" => i.rw \subseteq {"read", "write"} /\ i.paddr \in Nat
    BY DEF Legal
  <1>1. CASE i.reg = "Index"
    <2> DEFINE v == [p |-> FALSE, n |-> i.n % IndexSize]
               x == [c EXCEPT !.index = v]
    <2>1. instr_mtc0(c, i) = x
      BY <1>1 DEF instr_mtc0
    <2>2. v \in Indexes
      BY <1>0, <1>1, R4kConstants DEF Numbers, Indexes
    <2> HIDE DEF v
    <2>3. x \in Cpus
      BY <2>2 DEF Cpus
    <2>4. Confined(c, x, "Index")
      BY <2>3 DEF Confined, Cpus
    <2> QED BY <1>1, <2>1, <2>4
  <1>2. CASE i.reg = "EntryLo0"
    <2> DEFINE v == i.lo
               x == [c EXCEPT !.entrylo0 = v]
    <2>1. instr_mtc0(c, i) = x
      BY <1>2 DEF instr_mtc0
    <2>2. v \in EntryLos
      BY <1>0, <1>2
    <2> HIDE DEF v
    <2>3. x \in Cpus
      BY <2>2 DEF Cpus
    <2>4. Confined(c, x, "EntryLo0")
      BY <2>3 DEF Confined, Cpus
    <2> QED BY <1>2, <2>1, <2>4
  <1>3. CASE i.reg = "EntryLo1"
    <2> DEFINE v == i.lo
               x == [c EXCEPT !.entrylo1 = v]
    <2>1. instr_mtc0(c, i) = x
      BY <1>3 DEF instr_mtc0
    <2>2. v \in EntryLos
      BY <1>0, <1>3
    <2> HIDE DEF v
    <2>3. x \in Cpus
      BY <2>2 DEF Cpus
    <2>4. Confined(c, x, "EntryLo1")
      BY <2>3 DEF Confined, Cpus
    <2> QED BY <1>3, <2>1, <2>4
  <1>4. CASE i.reg = "PageMask"
    <2> DEFINE v == IF i.n \in Masks THEN i.n ELSE 1
               x == [c EXCEPT !.pagemask = v]
    <2>1. instr_mtc0(c, i) = x
      BY <1>4 DEF instr_mtc0
    <2>2. v \in Masks
      BY R4kConstants
    <2> HIDE DEF v
    <2>3. x \in Cpus
      BY <2>2 DEF Cpus
    <2>4. Confined(c, x, "PageMask")
      BY <2>3 DEF Confined, Cpus
    <2> QED BY <1>4, <2>1, <2>4
  <1>5. CASE i.reg = "Wired"
    <2> DEFINE v == Entries - 1
               w == i.n % IndexSize
               x == [c EXCEPT !.random = v, !.wired = w]
    <2>1. instr_mtc0(c, i) = x
      BY <1>5 DEF instr_mtc0
    <2>2. v \in Slots
      BY R4kConstants DEF Slots
    <2>3. w \in Nat
      BY <1>0, <1>5, R4kConstants DEF Numbers
    <2> HIDE DEF v, w
    <2>4. x \in Cpus
      BY <2>2, <2>3, ZenonT(60) DEF Cpus
    <2>5. Confined(c, x, "Wired")
      BY <2>4 DEF Confined, Cpus, v
    <2> QED BY <1>5, <2>1, <2>5
  <1>6. CASE i.reg = "Count"
    <2> DEFINE v == i.n % CountSize
               x == [c EXCEPT !.count = v]
    <2>1. instr_mtc0(c, i) = x
      BY <1>6 DEF instr_mtc0
    <2>2. v \in 0 .. CountSize - 1
      BY <1>0, <1>6, R4kConstants DEF Numbers
    <2> HIDE DEF v
    <2>3. x \in Cpus
      BY <2>2 DEF Cpus
    <2>4. Confined(c, x, "Count")
      BY <2>3 DEF Confined, Cpus
    <2> QED BY <1>6, <2>1, <2>4
  <1>7. CASE i.reg = "EntryHi"
    <2> DEFINE v == i.hi
               x == [c EXCEPT !.entryhi = v]
    <2>1. instr_mtc0(c, i) = x
      BY <1>7 DEF instr_mtc0
    <2>2. v \in EntryHis
      BY <1>0, <1>7
    <2> HIDE DEF v
    <2>3. x \in Cpus
      BY <2>2 DEF Cpus
    <2>4. Confined(c, x, "EntryHi")
      BY <2>3 DEF Confined, Cpus
    <2> QED BY <1>7, <2>1, <2>4
  <1>8. CASE i.reg = "Compare"
    <2> DEFINE v == i.n % CountSize
               w == c.ip \ {7}
               x == [c EXCEPT !.compare = v, !.ip = w]
    <2>1. instr_mtc0(c, i) = x
      BY <1>8 DEF instr_mtc0
    <2>2. v \in Nat
      BY <1>0, <1>8, R4kConstants DEF Numbers
    <2>3. w \in SUBSET (0 .. 7)
      BY DEF Cpus
    <2> HIDE DEF v, w
    <2>4. x \in Cpus
      BY <2>2, <2>3, ZenonT(60) DEF Cpus
    <2>5. Confined(c, x, "Compare")
      BY <2>4 DEF Confined, Cpus
    <2> QED BY <1>8, <2>1, <2>5
  <1>9. CASE i.reg = "Status"
    <2> DEFINE v == i.status
               x == [c EXCEPT !.status = v]
    <2>1. instr_mtc0(c, i) = x
      BY <1>9 DEF instr_mtc0
    <2>2. v \in Statuses
      BY <1>0, <1>9
    <2> HIDE DEF v
    <2>3. x \in Cpus
      BY <2>2 DEF Cpus
    <2>4. Confined(c, x, "Status")
      BY <2>3 DEF Confined, Cpus
    <2> QED BY <1>9, <2>1, <2>4
  <1>10. CASE i.reg = "Cause"
    <2> DEFINE v == SoftwareLines(c.ip, i.ip)
               x == [c EXCEPT !.ip = v]
    <2>1. instr_mtc0(c, i) = x
      BY <1>10 DEF instr_mtc0
    <2>2. v \in SUBSET (0 .. 7) /\ (7 \in c.ip => 7 \in v)
      BY <1>0, <1>10 DEF Cpus, SoftwareLines
    <2> HIDE DEF v
    <2>3. x \in Cpus
      BY <2>2 DEF Cpus
    <2>4. Confined(c, x, "Cause")
      BY <2>3, <2>2 DEF Confined, Cpus
    <2> QED BY <1>10, <2>1, <2>4
  <1>11. CASE i.reg = "EPC"
    <2> DEFINE v == i.n
               x == [c EXCEPT !.epc = v]
    <2>1. instr_mtc0(c, i) = x
      BY <1>11 DEF instr_mtc0
    <2>2. v \in Addresses
      BY <1>0, <1>11
    <2> HIDE DEF v
    <2>3. x \in Cpus
      BY <2>2 DEF Cpus
    <2>4. Confined(c, x, "EPC")
      BY <2>3 DEF Confined, Cpus
    <2> QED BY <1>11, <2>1, <2>4
  <1>12. CASE i.reg = "ErrorEPC"
    <2> DEFINE v == i.n
               x == [c EXCEPT !.errorepc = v]
    <2>1. instr_mtc0(c, i) = x
      BY <1>12 DEF instr_mtc0
    <2>2. v \in Addresses
      BY <1>0, <1>12
    <2> HIDE DEF v
    <2>3. x \in Cpus
      BY <2>2 DEF Cpus
    <2>4. Confined(c, x, "ErrorEPC")
      BY <2>3 DEF Confined, Cpus
    <2> QED BY <1>12, <2>1, <2>4
  <1>13. CASE i.reg = "WatchLo"
    <2> DEFINE v == i.rw
               w == i.paddr
               x == [c EXCEPT !.watch = v, !.waddr = w]
    <2>1. instr_mtc0(c, i) = x
      BY <1>13 DEF instr_mtc0
    <2>2. v \in SUBSET {"read", "write"}
      BY <1>0, <1>13
    <2>3. w \in Nat
      BY <1>0, <1>13
    <2> HIDE DEF v, w
    <2>4. x \in Cpus
      BY <2>2, <2>3, ZenonT(60) DEF Cpus
    <2>5. Confined(c, x, "WatchLo")
      BY <2>4 DEF Confined, Cpus
    <2> QED BY <1>13, <2>1, <2>5
  <1>14. CASE i.reg = "Random"
    <2>1. instr_mtc0(c, i) = c
      BY <1>14 DEF instr_mtc0
    <2> QED BY <1>14, <2>1 DEF Confined
  <1> QED BY <1>0, <1>1, <1>2, <1>3, <1>4, <1>5, <1>6, <1>7, <1>8, <1>9, <1>10, <1>11, <1>12, <1>13, <1>14 DEF Registers, Numbers

\* The instructions on the coprocessor either are refused or confine themselves.
LEMMA Cp0Does ==
    ASSUME NEW c \in Cpus, NEW i, Legal(i), i.op \in Cp0Instructions, NEW d \in fnc(c, i), d.host = "runs"
    PROVE  \/ ~CP0_USABLE(c) /\ d = Return(c, "CpU")
           \/ CP0_USABLE(c) /\ d = Return(Effect(c, i), "None") /\ Confined(c, Effect(c, i), Name(i))
  <1>1. d = Usable(c, Effect(c, i))
    <2>1. CASE i.op = "mfc0"
      BY <2>1 DEF fnc, Effect
    <2>2. CASE i.op = "mtc0"
      BY <2>2 DEF fnc, Effect
    <2>3. CASE i.op = "tlbp"
      BY <2>3 DEF fnc, Effect
    <2>4. CASE i.op = "tlbr"
      BY <2>4 DEF fnc, Effect
    <2>5. CASE i.op = "tlbwi"
      BY <2>5 DEF fnc, Effect
    <2>6. CASE i.op = "tlbwr"
      BY <2>6 DEF fnc, Effect
    <2>7. CASE i.op = "eret"
      BY <2>7 DEF fnc, Effect
    <2> QED BY <2>1, <2>2, <2>3, <2>4, <2>5, <2>6, <2>7 DEF Cp0Instructions
  <1>2. CASE ~CP0_USABLE(c)
    BY <1>1, <1>2 DEF Usable
  <1>3. CASE CP0_USABLE(c)
    <2>1. d = Return(Effect(c, i), "None")
      BY <1>1, <1>3 DEF Usable
    <2>2. Confined(c, Effect(c, i), Name(i))
      <3>1. CASE i.op = "mfc0"
        <4>1. Effect(c, i) = c
          BY <3>1 DEF Effect
        <4> QED BY <3>1, <4>1 DEF Confined, Name
      <3>2. CASE i.op = "mtc0"
        <4>1. Effect(c, i) = instr_mtc0(c, i) /\ Name(i) = i.reg
          BY <3>2 DEF Effect, Name
        <4>2. i.reg # "XContext"
          <5> SUFFICES ASSUME i.reg = "XContext" PROVE FALSE
            OBVIOUS
          <5>1. instr_mtc0(c, i) = [c EXCEPT !.host = "abort"]
            BY DEF instr_mtc0, Abort
          <5>2. d = [[c EXCEPT !.host = "abort"] EXCEPT !.exc = "None"]
            BY <2>1, <4>1, <5>1 DEF Return
          <5> QED BY <5>2 DEF Cpus
        <4> QED BY <3>2, <4>1, <4>2, Mtc0Does
      <3>3. CASE i.op = "tlbp"
        <4>1. Effect(c, i) = TLBP(c) /\ Name(i) = "tlbp"
          BY <3>3 DEF Effect, Name
        <4> QED BY <4>1, TlbpDoes
      <3>4. CASE i.op = "tlbr"
        <4>1. Effect(c, i) = TLBR(c) /\ Name(i) = "tlbr"
          BY <3>4 DEF Effect, Name
        <4> QED BY <4>1, TlbrDoes
      <3>5. CASE i.op = "tlbwi"
        <4>1. Effect(c, i) = TLBW(c, c.index.n) /\ Name(i) = "tlbwi"
          BY <3>5 DEF Effect, Name
        <4>2. c.index.n \in Nat
          BY DEF Cpus, Indexes
        <4> QED BY <4>1, <4>2, TlbwDoes, ZenonT(60)
      <3>6. CASE i.op = "tlbwr"
        <4>1. Effect(c, i) = TLBW(c, c.random) /\ Name(i) = "tlbwr"
          BY <3>6 DEF Effect, Name
        <4>2. c.random \in Nat
          BY DEF Cpus, Slots
        <4> QED BY <4>1, <4>2, TlbwDoes, ZenonT(60)
      <3>7. CASE i.op = "eret"
        <4>1. Effect(c, i) = instr_eret(c) /\ Name(i) = "eret"
          BY <3>7 DEF Effect, Name
        <4> QED BY <4>1, EretDoes
      <3> QED BY <3>1, <3>2, <3>3, <3>4, <3>5, <3>6, <3>7 DEF Cp0Instructions
    <2> QED BY <1>3, <2>1, <2>2
  <1> QED BY <1>2, <1>3

\* What an instruction may do to the processor c that executes it: one that
\* fails changes no control register, and one that succeeds only its own.
Did(c, i, d) ==
    /\ d \in Cpus /\ d.pc = c.pc /\ d.excaddr = c.excaddr
    /\ d.exc \in (Causes \ {"Int"}) \cup {"Jump"}
    /\ d.branch = IF d.exc = "Jump" THEN 2 ELSE c.branch
    /\ d.exc # "None" \/ ~CP0_USABLE(c) => /\ Privileged(d) = Privileged([c EXCEPT !.entryhi = d.entryhi])
                                            /\ d.wired = c.wired /\ d.random = c.random /\ d.ip = c.ip
    /\ ~CP0_USABLE(c) /\ d.exc \in {"None", "Jump"} => d.entryhi = c.entryhi
    /\ d.exc \in Refills => d.entryhi.vpn2 = Vpn(d.badvaddr) \div 2
    /\ d.llbit => IF d.exc \in {"None", "Jump"} THEN i.op = "ll" \/ (c.llbit /\ i.op \notin {"sc", "eret"})
                  ELSE c.llbit
    /\ Name(i) \notin {"eret", "Status"} => d.status = c.status
    /\ Name(i) # "EPC" => d.epc = c.epc
    /\ Name(i) # "Compare" => (7 \in c.ip => 7 \in d.ip)
    /\ Name(i) = "Compare" => d.count = c.count
    /\ Name(i) = "eret" /\ d.exc = "None" /\ ~c.status.erl => d.pc_next = c.epc
    /\ Name(i) = "tlbp" /\ d.exc = "None" => d = Return(TLBP(c), "None")
    /\ Name(i) = "tlbwr" /\ d.exc = "None" => d = Return(TLBW(c, c.random), "None")

\* The fields of the processor that make up its privileged state.
LEMMA PrivilegedOf ==
    ASSUME NEW c \in Cpus, NEW d, Untouched(c, d)
    PROVE  Privileged(d) = Privileged([c EXCEPT !.entryhi = d.entryhi])
  BY DEF Untouched, Privileged, Cpus

\* What a load, a store, LL or SC leaves behind when it runs or faults.
LEMMA AccessDid ==
    ASSUME NEW c \in Cpus, NEW i, Legal(i), i.op \in Accesses, NEW d \in fnc(c, i), d.host = "runs"
    PROVE  Did(c, i, d)
  <1>1. /\ Accessed(c, d) /\ d.exc \in Loads \cup Stores
        /\ d.llbit => \/ i.op = "ll" /\ d.exc = "None"
                      \/ c.llbit /\ i.op \in {"load", "store"}
    BY AccessesDo
  <1>2. d.exc \in Causes \ {"Int"} /\ d.exc # "Jump"
    BY <1>1 DEF Loads, Stores, Causes
  <1>3. Name(i) = i.op /\ i.op \notin {"eret", "Status", "EPC", "Compare", "tlbp", "tlbwr"}
    BY DEF Accesses, Name
  <1>4. Privileged(d) = Privileged([c EXCEPT !.entryhi = d.entryhi])
    BY <1>1, PrivilegedOf DEF Accessed
  <1> QED BY <1>1, <1>2, <1>3, <1>4 DEF Did, Accessed, Untouched

\* The instructions on the coprocessor.
LEMMA Cp0Did ==
    ASSUME NEW c \in Cpus, NEW i, Legal(i), i.op \in Cp0Instructions, NEW d \in fnc(c, i), d.host = "runs"
    PROVE  Did(c, i, d)
  <1>1. Name(i) = i.op \/ (i.op = "mtc0" /\ Name(i) = i.reg /\ i.reg \in Registers)
    BY DEF Legal, Name
  <1>2. CASE ~CP0_USABLE(c) /\ d = Return(c, "CpU")
    <2>1. "CpU" \in Excs /\ "CpU" \in Causes \ {"Int"} /\ "CpU" \notin Refills \cup {"None", "Jump"}
      BY DEF Excs, Causes, Refills
    <2>2. /\ d \in Cpus /\ Untouched(c, d) /\ d.exc = "CpU" /\ d.entryhi = c.entryhi /\ d.llbit = c.llbit
      BY <1>2, <2>1, ReturnDoes
    <2>3. Privileged(d) = Privileged([c EXCEPT !.entryhi = d.entryhi])
      BY <2>2, PrivilegedOf
    <2> QED BY <2>1, <2>2, <2>3 DEF Did, Untouched
  <1>3. CASE CP0_USABLE(c) /\ d = Return(Effect(c, i), "None") /\ Confined(c, Effect(c, i), Name(i))
    <2> DEFINE x == Effect(c, i)
    <2>1. d = Return(x, "None") /\ Confined(c, x, Name(i)) /\ CP0_USABLE(c)
      BY <1>3
    <2>2. Name(i) = "tlbp" => x = TLBP(c)
      BY <1>1 DEF Effect, Registers, Numbers
    <2>3. Name(i) = "tlbwr" => x = TLBW(c, c.random)
      BY <1>1 DEF Effect, Registers, Numbers
    <2>4. i.op # "ll" /\ i.op # "sc" /\ (i.op = "eret" => Name(i) = "eret")
      BY DEF Cp0Instructions, Name
    <2> HIDE DEF x
    <2>5. x \in Cpus /\ "None" \in Excs /\ "None" \in Causes \ {"Int"} /\ "None" \notin Refills
      BY <2>1 DEF Confined, Excs, Causes, Refills
    <2>6. /\ d \in Cpus /\ Untouched(x, d) /\ d.exc = "None" /\ d.llbit = x.llbit
      BY <2>1, <2>5, ReturnDoes
    <2>7. Name(i) = "eret" => d.llbit = FALSE
      BY <2>1, <2>6 DEF Confined
    <2>8. i.op # "eret" => d.llbit = c.llbit
      <3>1. i.op # "eret" => Name(i) # "eret"
        BY <1>1 DEF Registers, Numbers
      <3> QED BY <2>1, <2>6, <3>1 DEF Confined
    <2> QED BY <2>1, <2>2, <2>3, <2>4, <2>5, <2>6, <2>7, <2>8 DEF Did, Untouched, Confined
  <1> QED BY <1>2, <1>3, Cp0Does

\* The others: jumps, branches, and those that end in an exception.
LEMMA OthersDid ==
    ASSUME NEW c \in Cpus, NEW i, Legal(i), i.op \in {"branch", "skip", "raise", "other"}, NEW d \in fnc(c, i)
    PROVE  Did(c, i, d)
  <1>0. Name(i) = i.op /\ c.pc_next \in Addresses
    BY DEF Name, Cpus
  <1>1. ASSUME NEW to \in Addresses, NEW b \in {c.branch, 2},
               NEW e \in {"None", "Sys", "Bp", "RI", "CpU", "Ov", "Tr", "Jump"},
               e = "Jump" <=> i.op = "branch", b = IF e = "Jump" THEN 2 ELSE c.branch,
               d = [c EXCEPT !.pc_next = to, !.branch = b, !.exc = e]
        PROVE  Did(c, i, d)
    <2>1. e \in (Causes \ {"Int"}) \cup {"Jump"} /\ e \in Excs /\ e \notin Refills
      BY DEF Causes, Excs, Refills
    <2>2. b \in 0 .. 2
      BY DEF Cpus
    <2>3. d \in Cpus
      BY <1>1, <2>1, <2>2, ZenonT(60) DEF Cpus
    <2>4. /\ d.pc = c.pc /\ d.excaddr = c.excaddr /\ d.exc = e /\ d.branch = b /\ d.llbit = c.llbit
          /\ d.wired = c.wired /\ d.random = c.random /\ d.ip = c.ip /\ d.entryhi = c.entryhi
          /\ d.status = c.status /\ d.epc = c.epc
      BY <1>1 DEF Cpus
    <2>5. Privileged(d) = Privileged([c EXCEPT !.entryhi = d.entryhi])
      BY <1>1 DEF Cpus, Privileged
    <2> QED BY <1>0, <1>1, <2>1, <2>3, <2>4, <2>5 DEF Did
  <1>2. CASE i.op = "branch"
    <2>1. d = [c EXCEPT !.pc_next = i.to, !.branch = 2, !.exc = "Jump"] /\ i.to \in Addresses
      BY <1>2 DEF fnc, Return, Legal, Cpus
    <2> QED BY <1>1, <1>2, <2>1, Zenon
  <1>3. CASE i.op = "skip"
    <2>1. d = [c EXCEPT !.pc_next = Plus(c.pc_next, 1), !.branch = c.branch, !.exc = "None"]
      BY <1>3, ZenonT(60) DEF fnc, Return, Cpus
    <2>2. Plus(c.pc_next, 1) \in Addresses
      BY <1>0, Segments
    <2> QED BY <1>1, <1>3, <2>1, <2>2, Zenon
  <1>4. CASE i.op = "raise"
    <2>1. /\ d = [c EXCEPT !.pc_next = c.pc_next, !.branch = c.branch, !.exc = i.exc]
          /\ i.exc \in {"Sys", "Bp", "RI", "CpU", "Ov", "Tr"}
      BY <1>4, ZenonT(60) DEF fnc, Return, Legal, Cpus
    <2> QED BY <1>0, <1>1, <1>4, <2>1, Zenon
  <1>5. CASE i.op = "other"
    <2>1. d = [c EXCEPT !.pc_next = c.pc_next, !.branch = c.branch, !.exc = "None"]
      BY <1>5, ZenonT(60) DEF fnc, Return, Cpus
    <2> QED BY <1>0, <1>1, <1>5, <2>1, Zenon
  <1> QED BY <1>2, <1>3, <1>4, <1>5

\* What an instruction leaves behind, whichever it is.
LEMMA InstructionDid ==
    ASSUME NEW c \in Cpus, NEW i, Legal(i), NEW d \in fnc(c, i), d.host = "runs"
    PROVE  Did(c, i, d)
  <1>1. i.op \in Accesses \/ i.op \in Cp0Instructions \/ i.op \in {"branch", "skip", "raise", "other"}
    BY DEF Legal, Operations, Cp0Instructions
  <1> QED BY <1>1, AccessDid, Cp0Did, OthersDid

\* Index says whether the page in EntryHi is in the TLB.
Probe(c) ==
    c.index.p <=> tlb_look([c EXCEPT !.status.ts = FALSE], c.entryhi.vpn2 * 2 * PageWords, FALSE).look = "REFILL"

\* What execute leaves, c, of the processor b: the instruction i, next as in
\* Finish, and exact if excaddr is right.
Executed(b, c, i, next, exact) ==
    /\ c \in Cpus /\ c.host = "runs" /\ c.exc \in Causes \ {"Int"}
    /\ next # NoAddr => next = b.pc /\ c.branch = 2 /\ c.excaddr = next /\ c.exc = "None"
    /\ next = NoAddr => c.branch = b.branch
    /\ c.exc # "None" /\ exact => c.excaddr = IF b.branch = 0 THEN b.pc ELSE b.excaddr
    /\ c.exc # "None" \/ ~CP0_USABLE(b) => /\ Privileged(c) = Privileged([b EXCEPT !.entryhi = c.entryhi])
                                            /\ c.ip = b.ip
    /\ ~CP0_USABLE(b) /\ c.exc = "None" => c.entryhi = b.entryhi
    /\ c.exc \in Refills => c.entryhi.vpn2 = Vpn(c.badvaddr) \div 2
    /\ c.llbit => IF c.exc = "None" THEN i.op = "ll" \/ (b.llbit /\ i.op \notin {"sc", "eret"}) ELSE b.llbit
    /\ Name(i) \notin {"eret", "Status"} => c.status = b.status
    /\ Name(i) # "EPC" => c.epc = b.epc
    /\ Name(i) # "Compare" => (7 \in b.ip => 7 \in c.ip)
    /\ Name(i) = "Compare" => c.count = b.count
    /\ Name(i) = "eret" /\ c.exc = "None" /\ ~b.status.erl => c.pc = b.epc
    /\ Name(i) = "tlbp" /\ c.exc = "None" => Probe(c)
    /\ Name(i) = "tlbwr" => \A e \in Slots : e # b.random => c.tlb[e] = b.tlb[e]
    /\ Name(i) = "tlbwr" /\ c.exc = "None" =>
         /\ c.entryhi = b.entryhi
         /\ \E m \in Nat \ {0} : c.tlb[b.random].size = m /\ c.tlb[b.random].vpn2 = b.entryhi.vpn2 \div m
         /\ c.tlb[b.random].asid = b.entryhi.asid

\* TLBP agrees with the search for an address of the even page of the pair.
LEMMA ProbeIs ==
    ASSUME NEW c \in Cpus
    PROVE  Probe(c) <=> (c.index.p <=> \A e \in Slots : ~Probed(c.tlb[e], c.entryhi))
  <1> DEFINE s == [c.status EXCEPT !.ts = FALSE]
             x == [c EXCEPT !.status = s]
             a == c.entryhi.vpn2 * 2 * PageWords
  <1>1. s \in Statuses /\ s.ts = FALSE
    BY Zenon DEF Cpus, Statuses
  <1> HIDE DEF s
  <1>2. x \in Cpus /\ x.status = s /\ x.tlb = c.tlb /\ x.entryhi = c.entryhi
    BY <1>1 DEF Cpus
  <1>3. [c EXCEPT !.status.ts = FALSE] = x
    BY DEF Cpus, s
  <1>4. c.entryhi.vpn2 \in Nat /\ c.entryhi.asid \in Nat
    BY DEF Cpus, EntryHis
  <1>5. Vpn(a) = 2 * c.entryhi.vpn2
    <2>1. 2 * c.entryhi.vpn2 \in Nat /\ a = (2 * c.entryhi.vpn2) * PageWords /\ PageWords \in Nat \ {0}
      BY <1>4, R4kConstants
    <2> QED BY <2>1, PairNumbers DEF Vpn
  <1>6. ASSUME NEW e \in Slots PROVE Matches(c.tlb[e], a, c.entryhi.asid) <=> Probed(c.tlb[e], c.entryhi)
    <2> DEFINE m == c.tlb[e].size
               v == c.entryhi.vpn2
    <2>1. m \in Nat \ {0} /\ v \in Nat
      BY <1>4 DEF Cpus, TlbEntries
    <2> HIDE DEF m, v
    <2>2. (2 * v) \div (2 * m) = v \div m
      BY <2>1, PairNumbers, Zenon
    <2>3. Vpn(a) \div (2 * c.tlb[e].size) = c.entryhi.vpn2 \div c.tlb[e].size
      BY <1>5, <2>2, Zenon DEF m, v
    <2> QED BY <2>3 DEF Matches, Probed
  <1> HIDE DEF x, a
  <1>7. tlb_look(x, a, FALSE).look = "REFILL" <=> ~x.status.ts /\ \A e \in Slots : ~Matches(x.tlb[e], a, x.entryhi.asid)
    BY <1>2, LookMisses, Zenon
  <1>8. tlb_look(x, a, FALSE).look = "REFILL" <=> \A e \in Slots : ~Probed(c.tlb[e], c.entryhi)
    BY <1>1, <1>2, <1>6, <1>7, Zenon
  <1>9. Probe(c) <=> (c.index.p <=> tlb_look(x, a, FALSE).look = "REFILL")
    BY <1>3, Zenon DEF Probe, a
  <1> QED BY <1>8, <1>9, Zenon

\* Only the registers of the TLB matter for the probe.
LEMMA ProbeKept ==
    ASSUME NEW c \in Cpus, NEW d \in Cpus, Probe(c), d.index = c.index, d.tlb = c.tlb, d.entryhi = c.entryhi
    PROVE  Probe(d)
  BY ProbeIs

\* The instruction is fetched from an address that converts; what follows the
\* execution of it sets excaddr and moves pc.
LEMMA AdvanceDoes ==
    ASSUME NEW d \in Cpus, d.exc \in (Causes \ {"Int"}) \cup {"Jump"}
    PROVE  LET c == Advance(d) IN
           /\ c \in Cpus /\ c.host = d.host
           /\ c.exc = IF d.exc = "Jump" THEN "None" ELSE d.exc
           /\ d.exc # "Jump" => c.pc = d.pc_next
           /\ c.excaddr = IF d.branch # 1 THEN d.pc ELSE d.excaddr
           /\ c.branch = d.branch /\ Privileged(c) = Privileged(d) /\ c.ip = d.ip /\ c.count = d.count
           /\ c.badvaddr = d.badvaddr /\ c.entryhi = d.entryhi /\ c.status = d.status /\ c.epc = d.epc
           /\ c.llbit = d.llbit /\ c.tlb = d.tlb /\ c.index = d.index
  <1> DEFINE x == IF d.branch # 1 THEN d.pc ELSE d.excaddr
  <1>1. x \in Addresses /\ d.pc \in Addresses /\ d.pc_next \in Addresses
    BY DEF Cpus
  <1>2. Plus(d.pc, 1) \in Addresses /\ Plus(d.pc_next, 1) \in Addresses
    BY <1>1, Segments
  <1>3. "None" \in Excs /\ "None" \in Causes
    BY DEF Excs, Causes
  <1>4. CASE d.exc = "Jump"
    <2> DEFINE p == Plus(d.pc, 1)
               c == [d EXCEPT !.excaddr = x, !.exc = "None", !.pc = p]
    <2>1. Advance(d) = c
      BY <1>4 DEF Advance, Cpus
    <2>2. p \in Addresses
      BY <1>2
    <2> HIDE DEF p, x
    <2>3. c \in Cpus
      BY <1>1, <1>3, <2>2, ZenonT(60) DEF Cpus
    <2>4. Privileged(c) = Privileged(d)
      BY DEF Privileged, Cpus
    <2>5. /\ c.host = d.host /\ c.exc = "None" /\ c.excaddr = x
          /\ c.branch = d.branch /\ c.ip = d.ip /\ c.count = d.count
          /\ c.badvaddr = d.badvaddr /\ c.entryhi = d.entryhi /\ c.status = d.status /\ c.epc = d.epc
          /\ c.llbit = d.llbit /\ c.tlb = d.tlb /\ c.index = d.index
      BY DEF Cpus
    <2> HIDE DEF c
    <2> QED BY <1>4, <2>1, <2>3, <2>4, <2>5 DEF x
  <1>5. CASE d.exc # "Jump"
    <2> DEFINE n == Plus(d.pc_next, 1)
               c == [d EXCEPT !.excaddr = x, !.pc = d.pc_next, !.pc_next = n]
    <2>1. Advance(d) = c
      BY <1>5 DEF Advance, Cpus
    <2>2. n \in Addresses
      BY <1>2
    <2> HIDE DEF n, x
    <2>3. c \in Cpus
      BY <1>1, <2>2, ZenonT(60) DEF Cpus
    <2>4. Privileged(c) = Privileged(d)
      BY DEF Privileged, Cpus
    <2>5. /\ c.host = d.host /\ c.exc = d.exc /\ c.excaddr = x /\ c.pc = d.pc_next
          /\ c.branch = d.branch /\ c.ip = d.ip /\ c.count = d.count
          /\ c.badvaddr = d.badvaddr /\ c.entryhi = d.entryhi /\ c.status = d.status /\ c.epc = d.epc
          /\ c.llbit = d.llbit /\ c.tlb = d.tlb /\ c.index = d.index
      BY DEF Cpus
    <2> HIDE DEF c
    <2> QED BY <1>5, <2>1, <2>3, <2>4, <2>5 DEF x
  <1> QED BY <1>4, <1>5

\* The processor of a conversion that succeeds, before the instruction.
Fetched(b, c) ==
    /\ c \in Cpus /\ c.host = "runs" /\ c.exc = "None"
    /\ Untouched(b, c) /\ c.entryhi = b.entryhi /\ c.llbit = b.llbit

\* The translation of the PC changes no more than an access does, and nothing that
\* the instruction can see when it succeeds.
LEMMA FetchDoes ==
    ASSUME NEW b \in Cpus, b.host = "runs"
    PROVE  LET f == r4k_convert_addr(b, b.pc, FALSE) IN
           /\ Converted(b, f.c, FALSE) /\ f.c.host = "runs" /\ f.phys \subseteq Nat
           /\ f.c.exc = "None" => Fetched(b, f.c)
  <1>1. b.pc \in Addresses
    BY DEF Cpus
  <1>2. Converted(b, r4k_convert_addr(b, b.pc, FALSE).c, FALSE) /\ r4k_convert_addr(b, b.pc, FALSE).phys \subseteq Nat
    BY <1>1, ConvertDoes, Zenon
  <1> QED BY <1>2, Zenon DEF Converted, Accessed, Fetched

\* A fault in the fetch ends the step with the exception as its only effect.
LEMMA FaultExecuted ==
    ASSUME NEW b \in Cpus, b.branch \in {0, 1}, NEW f, Converted(b, f, FALSE), f.host = "runs", f.exc # "None"
    PROVE  Executed(b, FetchFault(f), [op |-> "fetch"], NoAddr, TRUE)
  <1>1. f \in Cpus /\ Untouched(b, f) /\ f.llbit = b.llbit /\ f.exc \in {"AddrError", "TLB", "TLBR"}
    BY DEF Converted, Accessed
  <1> DEFINE x == IF f.branch = 0 THEN f.pc ELSE f.excaddr
             e == ReadNames[f.exc]
             c == [f EXCEPT !.excaddr = x, !.exc = e]
  <1>2. FetchFault(f) = c
    BY <1>1 DEF FetchFault, Cpus
  <1>3. /\ e \in Causes \ {"Int"} /\ e \in Excs /\ e # "None" /\ (e \in Refills => f.exc = "TLBR")
    BY <1>1 DEF ReadNames, Causes, Excs, Refills
  <1>4. x \in Addresses /\ x = IF b.branch = 0 THEN b.pc ELSE b.excaddr
    BY <1>1 DEF Cpus, Untouched
  <1> HIDE DEF x, e
  <1>5. c \in Cpus
    BY <1>1, <1>3, <1>4, ZenonT(60) DEF Cpus
  <1>6. /\ Untouched(f, [c EXCEPT !.excaddr = f.excaddr]) /\ c.exc = e /\ c.excaddr = x
        /\ c.host = f.host /\ c.llbit = f.llbit /\ c.badvaddr = f.badvaddr /\ c.entryhi = f.entryhi
        /\ c.status = f.status /\ c.epc = f.epc /\ c.ip = f.ip /\ c.branch = f.branch
    BY <1>1 DEF Cpus, Untouched
  <1>7. Privileged(c) = Privileged(f)
    BY <1>1 DEF Cpus, Privileged
  <1>8. Privileged(f) = Privileged([b EXCEPT !.entryhi = f.entryhi])
    BY <1>1, PrivilegedOf
  <1>9. e \in Refills => c.entryhi.vpn2 = Vpn(c.badvaddr) \div 2
    BY <1>3, <1>6 DEF Converted, Accessed
  <1>10. Name([op |-> "fetch"]) = "fetch" /\ [op |-> "fetch"].op = "fetch"
    BY DEF Name
  <1> HIDE DEF c
  <1>11. c.status = b.status /\ c.epc = b.epc /\ c.ip = b.ip /\ c.branch = b.branch
    BY <1>1, <1>6 DEF Untouched
  <1> QED BY <1>1, <1>2, <1>3, <1>4, <1>5, <1>6, <1>7, <1>8, <1>9, <1>10, <1>11 DEF Executed

\* An instruction outside of the memory.
LEMMA OutsideExecuted ==
    ASSUME NEW b \in Cpus, b.branch \in {0, 1}, NEW f, Fetched(b, f)
    PROVE  Executed(b, Return(f, "AdEL"), [op |-> "outside"], NoAddr, FALSE)
  <1> DEFINE c == Return(f, "AdEL")
  <1>1. "AdEL" \in Excs /\ "AdEL" \in Causes \ {"Int"} /\ "AdEL" \notin Refills
    BY DEF Excs, Causes, Refills
  <1>2. /\ c \in Cpus /\ Untouched(f, c) /\ c.exc = "AdEL" /\ c.host = "runs"
        /\ c.entryhi = f.entryhi /\ c.llbit = f.llbit
    BY <1>1, ReturnDoes DEF Fetched
  <1> HIDE DEF c
  <1>3. Untouched(b, c) /\ c.entryhi = b.entryhi /\ c.llbit = b.llbit
    BY <1>2 DEF Fetched, Untouched
  <1>4. Privileged(c) = Privileged([b EXCEPT !.entryhi = c.entryhi])
    BY <1>3, PrivilegedOf
  <1>5. Name([op |-> "outside"]) = "outside" /\ [op |-> "outside"].op = "outside"
    BY DEF Name
  <1>6. Executed(b, c, [op |-> "outside"], NoAddr, FALSE)
    BY <1>1, <1>2, <1>3, <1>4, <1>5 DEF Executed, Untouched
  <1> QED BY <1>6, Zenon DEF c

\* TLBP leaves an Index that tells the truth.
LEMMA TlbpExecuted ==
    ASSUME NEW f \in Cpus, NEW d, d = Return(TLBP(f), "None")
    PROVE  d \in Cpus /\ Probe(d)
  <1> DEFINE t == TLBP(f)
  <1>1. Confined(f, t, "tlbp") /\ (t.index.p <=> \A e \in Slots : ~Probed(f.tlb[e], f.entryhi))
    BY TlbpDoes
  <1>2. t \in Cpus /\ t.tlb = f.tlb /\ t.entryhi = f.entryhi
    BY <1>1 DEF Confined
  <1> HIDE DEF t
  <1>3. "None" \in Excs
    BY DEF Excs, Causes
  <1>4. d = Return(t, "None")
    BY DEF t
  <1>5. d \in Cpus /\ Untouched(t, d) /\ d.entryhi = t.entryhi
    BY <1>2, <1>3, <1>4, ReturnDoes
  <1>6. d.index = t.index /\ d.tlb = f.tlb /\ d.entryhi = f.entryhi
    BY <1>2, <1>5 DEF Untouched
  <1> QED BY <1>1, <1>5, <1>6, ProbeIs

\* TLBWR writes the entry that Random names.
LEMMA TlbwrExecuted ==
    ASSUME NEW f \in Cpus, NEW d, d = Return(TLBW(f, f.random), "None")
    PROVE  /\ d.entryhi = f.entryhi
           /\ \A e \in Slots : e # f.random => d.tlb[e] = f.tlb[e]
           /\ \E m \in Nat \ {0} : d.tlb[f.random].size = m /\ d.tlb[f.random].vpn2 = f.entryhi.vpn2 \div m
           /\ d.tlb[f.random].asid = f.entryhi.asid
  <1> DEFINE t == TLBW(f, f.random)
             n == NewEntry(f)
  <1>0. f.random \in Slots /\ f.random \in Nat /\ f.random < Entries /\ f.tlb \in [Slots -> TlbEntries]
    BY R4kConstants DEF Cpus, Slots
  <1>1. Confined(f, t, "tlbwr") /\ t.tlb = [f.tlb EXCEPT ![f.random] = IF f.random < Entries THEN n ELSE @]
    BY <1>0, TlbwDoes
  <1>2. n.size = f.pagemask /\ n.vpn2 = f.entryhi.vpn2 \div f.pagemask /\ n.asid = f.entryhi.asid
    BY DEF NewEntry
  <1>3. f.pagemask \in Nat \ {0}
    BY R4kConstants, Zenon DEF Cpus
  <1> HIDE DEF t, n
  <1>4. t \in Cpus /\ t.entryhi = f.entryhi /\ t.tlb = [f.tlb EXCEPT ![f.random] = n]
    BY <1>0, <1>1 DEF Confined
  <1>5. "None" \in Excs
    BY DEF Excs, Causes
  <1>6. d = Return(t, "None")
    BY DEF t
  <1>7. Untouched(t, d) /\ d.entryhi = t.entryhi
    BY <1>4, <1>5, <1>6, ReturnDoes
  <1>8. d.tlb = [f.tlb EXCEPT ![f.random] = n] /\ d.entryhi = f.entryhi
    BY <1>4, <1>7 DEF Untouched
  <1>9. d.tlb[f.random] = n /\ \A e \in Slots : e # f.random => d.tlb[e] = f.tlb[e]
    BY <1>0, <1>8
  <1> QED BY <1>2, <1>3, <1>8, <1>9

\* An instruction that does not end the simulator.
LEMMA InstructionExecuted ==
    ASSUME NEW b \in Cpus, b.branch \in {0, 1}, NEW f, Fetched(b, f), NEW i, Legal(i),
           NEW d \in fnc(f, i), d.host = "runs"
    PROVE  Executed(b, Advance(d), i, IF d.exc = "Jump" THEN b.pc ELSE NoAddr, TRUE)
  <1> DEFINE c == Advance(d)
             next == IF d.exc = "Jump" THEN b.pc ELSE NoAddr
  <1>1. f \in Cpus /\ Untouched(b, f) /\ f.entryhi = b.entryhi /\ f.llbit = b.llbit
    BY DEF Fetched
  <1>2. Did(f, i, d)
    BY <1>1, InstructionDid
  <1>3. d \in Cpus /\ d.exc \in (Causes \ {"Int"}) \cup {"Jump"}
    BY <1>2 DEF Did
  <1>4. /\ c \in Cpus /\ c.host = d.host
        /\ c.exc = IF d.exc = "Jump" THEN "None" ELSE d.exc
        /\ d.exc # "Jump" => c.pc = d.pc_next
        /\ c.excaddr = IF d.branch # 1 THEN d.pc ELSE d.excaddr
        /\ c.branch = d.branch /\ Privileged(c) = Privileged(d) /\ c.ip = d.ip /\ c.count = d.count
        /\ c.badvaddr = d.badvaddr /\ c.entryhi = d.entryhi /\ c.status = d.status /\ c.epc = d.epc
        /\ c.llbit = d.llbit /\ c.tlb = d.tlb /\ c.index = d.index
    BY <1>3, AdvanceDoes
  <1> HIDE DEF c
  <1>5. c.exc \in Causes \ {"Int"} /\ (c.exc # "None" => d.exc = c.exc) /\ (d.exc = "None" => c.exc = "None")
    BY <1>3, <1>4 DEF Causes
  <1>6. NoAddr \notin Addresses /\ b.pc \in Addresses
    BY DEF NoAddr, Addresses, Cpus
  <1>7. /\ next # NoAddr => next = b.pc /\ c.branch = 2 /\ c.excaddr = next /\ c.exc = "None"
        /\ next = NoAddr => c.branch = b.branch
    BY <1>1, <1>2, <1>4, <1>6 DEF Did, Untouched
  <1>8. c.exc # "None" => c.excaddr = IF b.branch = 0 THEN b.pc ELSE b.excaddr
    <2> SUFFICES ASSUME c.exc # "None" PROVE c.excaddr = IF b.branch = 0 THEN b.pc ELSE b.excaddr
      OBVIOUS
    <2>1. d.exc # "Jump" /\ d.branch = f.branch /\ d.pc = f.pc /\ d.excaddr = f.excaddr
      BY <1>2, <1>4 DEF Did
    <2>2. d.branch = b.branch /\ d.pc = b.pc /\ d.excaddr = b.excaddr
      BY <1>1, <2>1 DEF Untouched
    <2> QED BY <1>4, <2>2
  <1>9. CP0_USABLE(f) = CP0_USABLE(b)
    BY <1>1 DEF CP0_USABLE, CPU_KERNEL_MODE, Untouched
  <1>10. Privileged([f EXCEPT !.entryhi = d.entryhi]) = Privileged([b EXCEPT !.entryhi = d.entryhi])
    BY <1>1 DEF Privileged, Cpus, Untouched
  <1>11. c.exc # "None" \/ ~CP0_USABLE(b) => /\ Privileged(c) = Privileged([b EXCEPT !.entryhi = c.entryhi])
                                              /\ c.ip = b.ip
    BY <1>1, <1>2, <1>4, <1>5, <1>9, <1>10 DEF Did, Untouched
  <1>12. ~CP0_USABLE(b) /\ c.exc = "None" => c.entryhi = b.entryhi
    BY <1>1, <1>2, <1>4, <1>9 DEF Did
  <1>13. c.exc \in Refills => c.entryhi.vpn2 = Vpn(c.badvaddr) \div 2
    BY <1>2, <1>4 DEF Did, Refills
  <1>14. c.llbit => IF c.exc = "None" THEN i.op = "ll" \/ (b.llbit /\ i.op \notin {"sc", "eret"}) ELSE b.llbit
    BY <1>1, <1>2, <1>4 DEF Did
  <1>15. /\ Name(i) \notin {"eret", "Status"} => c.status = b.status
         /\ Name(i) # "EPC" => c.epc = b.epc
         /\ Name(i) # "Compare" => (7 \in b.ip => 7 \in c.ip)
         /\ Name(i) = "Compare" => c.count = b.count
    BY <1>1, <1>2, <1>4 DEF Did, Untouched
  <1>16. Name(i) \in {"eret", "tlbp", "tlbwr"} => d.exc # "Jump"
    <2>1. i.op = "branch" \/ d.exc # "Jump"
      <3>1. i.op \in Accesses => d.exc # "Jump"
        BY <1>1, AccessesDo DEF Loads, Stores
      <3>2. i.op \in Cp0Instructions => d.exc # "Jump"
        <4> SUFFICES ASSUME i.op \in Cp0Instructions PROVE d.exc # "Jump"
          OBVIOUS
        <4>1. "CpU" \in Excs /\ "None" \in Excs
          BY DEF Excs, Causes
        <4>2. CASE d = Return(f, "CpU")
          BY <1>1, <4>1, <4>2, ReturnDoes
        <4>3. CASE d = Return(Effect(f, i), "None") /\ Confined(f, Effect(f, i), Name(i))
          <5>1. Effect(f, i) \in Cpus
            BY <4>3, Zenon DEF Confined
          <5>2. Return(Effect(f, i), "None").exc = "None"
            BY <4>1, <5>1, ReturnDoes
          <5> QED BY <4>3, <5>2
        <4> QED BY <1>1, <4>2, <4>3, Cp0Does
      <3>3. i.op \in {"skip", "raise", "other"} => d.exc # "Jump"
        <4>1. i.op = "skip" => d.exc = "None"
          BY <1>1, ZenonT(60) DEF fnc, Return, Cpus
        <4>2. i.op = "raise" => d.exc = i.exc /\ i.exc # "Jump"
          BY <1>1 DEF fnc, Return, Cpus, Legal
        <4>3. i.op = "other" => d.exc = "None"
          BY <1>1 DEF fnc, Return, Cpus
        <4> QED BY <4>1, <4>2, <4>3
      <3> QED BY <3>1, <3>2, <3>3 DEF Legal, Operations, Cp0Instructions
    <2> QED BY <2>1 DEF Name
  <1>17. Name(i) = "eret" /\ c.exc = "None" /\ ~b.status.erl => c.pc = b.epc
    BY <1>1, <1>2, <1>4, <1>16 DEF Did, Untouched
  <1>18. Name(i) = "tlbp" /\ c.exc = "None" => Probe(c)
    <2> SUFFICES ASSUME Name(i) = "tlbp", c.exc = "None" PROVE Probe(c)
      OBVIOUS
    <2>1. d = Return(TLBP(f), "None")
      BY <1>2, <1>4, <1>16 DEF Did
    <2> QED BY <1>1, <1>3, <1>4, <2>1, TlbpExecuted, ProbeKept
  <1>19. /\ Name(i) = "tlbwr" => \A e \in Slots : e # b.random => c.tlb[e] = b.tlb[e]
         /\ Name(i) = "tlbwr" /\ c.exc = "None" =>
              /\ c.entryhi = b.entryhi
              /\ \E m \in Nat \ {0} : c.tlb[b.random].size = m /\ c.tlb[b.random].vpn2 = b.entryhi.vpn2 \div m
              /\ c.tlb[b.random].asid = b.entryhi.asid
    <2> SUFFICES ASSUME Name(i) = "tlbwr"
                 PROVE  /\ \A e \in Slots : e # b.random => c.tlb[e] = b.tlb[e]
                        /\ c.exc = "None" =>
                             /\ c.entryhi = b.entryhi
                             /\ \E m \in Nat \ {0} : c.tlb[b.random].size = m /\ c.tlb[b.random].vpn2 = b.entryhi.vpn2 \div m
                             /\ c.tlb[b.random].asid = b.entryhi.asid
      OBVIOUS
    <2>0. f.random = b.random /\ f.tlb = b.tlb
      BY <1>1 DEF Untouched
    <2>1. CASE c.exc # "None"
      <3>1. Privileged(d) = Privileged([f EXCEPT !.entryhi = d.entryhi])
        BY <1>2, <1>5, <2>1 DEF Did
      <3>2. d.tlb = f.tlb
        BY <1>1, <3>1 DEF Privileged, Cpus
      <3> QED BY <1>4, <2>0, <2>1, <3>2
    <2>2. CASE c.exc = "None"
      <3>1. d = Return(TLBW(f, f.random), "None")
        BY <1>2, <1>4, <1>16, <2>2 DEF Did
      <3>2. /\ d.entryhi = f.entryhi
            /\ \A e \in Slots : e # f.random => d.tlb[e] = f.tlb[e]
            /\ \E m \in Nat \ {0} : d.tlb[f.random].size = m /\ d.tlb[f.random].vpn2 = f.entryhi.vpn2 \div m
            /\ d.tlb[f.random].asid = f.entryhi.asid
        BY <1>1, <3>1, TlbwrExecuted, ZenonT(60)
      <3>3. f.random = b.random /\ f.tlb = b.tlb /\ f.entryhi = b.entryhi /\ c.tlb = d.tlb /\ c.entryhi = d.entryhi
        BY <1>1, <1>4, <2>0
      <3> QED BY <3>2, <3>3, Zenon
    <2> QED BY <2>1, <2>2
  <1>20. Executed(b, c, i, next, TRUE)
    <2> HIDE DEF next
    <2> QED BY <1>4, <1>5, <1>7, <1>8, <1>11, <1>12, <1>13, <1>14, <1>15, <1>17, <1>18, <1>19 DEF Executed
  <1> QED BY <1>20, Zenon DEF c

\* What manage leaves of c, for the exception e: the end of a step.
Managed(c, x, e) ==
    /\ x \in Cpus /\ x.host = c.host /\ x.exc = "None"
    /\ x.branch = IF c.branch > 0 THEN c.branch - 1 ELSE 0
    /\ x.excaddr = c.excaddr /\ x.llbit = c.llbit
    /\ x.tlb = c.tlb /\ x.index = c.index /\ x.entryhi = c.entryhi /\ x.wired = c.wired
    /\ x.wired < Entries => x.wired <= x.random
    /\ x.count = (c.count + 1) % CountSize
    /\ 7 \in c.ip => 7 \in x.ip
    /\ e = "None" => /\ x.pc = c.pc /\ x.status = c.status /\ x.epc = c.epc
                     /\ Privileged(x) = Privileged(c)
    /\ e # "None" => /\ x.pc \in Vectors /\ x.status.exl
                     /\ x.epc = IF c.status.exl THEN c.epc ELSE Epc(c, e)

\* The exception of a step is a known one.
LEMMA CauseIs ==
    ASSUME NEW c \in Cpus, c.exc \in Causes \ {"Int"}
    PROVE  /\ Cause(c) \in Causes
           /\ Cause(c) # c.exc => /\ Cause(c) = "Int" /\ c.exc = "None" /\ ~c.status.exl
           /\ Cause(c) = "Int" => c.exc = "None" /\ ~c.status.exl
           /\ Cause(c) = "None" => c.exc = "None"
  BY DEF Cause, Causes

\* handle_exception.
LEMMA HandleDoes ==
    ASSUME NEW c \in Cpus, NEW e \in Causes \ {"None"}
    PROVE  LET x == handle_exception(c, e) IN
           /\ x \in Cpus /\ x.host = c.host /\ x.branch = c.branch
           /\ x.excaddr = c.excaddr /\ x.llbit = c.llbit
           /\ x.tlb = c.tlb /\ x.index = c.index /\ x.entryhi = c.entryhi /\ x.wired = c.wired
           /\ x.random = c.random /\ x.count = c.count /\ x.ip = c.ip /\ x.compare = c.compare
           /\ x.pc \in Vectors /\ x.status.exl
           /\ x.epc = IF c.status.exl THEN c.epc ELSE Epc(c, e)
  <1> DEFINE v == Vector(c, e)
             n == Plus(v, 1)
             p == IF c.status.exl THEN c.epc ELSE Epc(c, e)
             s == [c.status EXCEPT !.exl = TRUE]
             code == Exccode(e)
             bd == c.branch = 1
             x == [c EXCEPT !.exccode = code, !.bd = bd, !.epc = p, !.status = s, !.pc = v, !.pc_next = n]
  <1>1. handle_exception(c, e) = x
    BY DEF handle_exception, r4k_set_pc, Cpus
  <1>2. e \in Excs
    BY DEF Excs
  <1>3. v \in Vectors /\ v \in Addresses
    BY <1>2, VectorsAre
  <1>4. n \in Addresses
    <2> HIDE DEF v
    <2> QED BY <1>3, Segments
  <1>5. p \in Addresses
    BY DEF Epc, Cpus
  <1>6. s \in Statuses /\ s.exl
    BY Zenon DEF Cpus, Statuses
  <1>7. code \in Excs
    BY <1>2 DEF Exccode, Excs, Causes
  <1>8. bd \in BOOLEAN
    OBVIOUS
  <1> HIDE DEF v, n, p, s, code, bd
  <1>9. x \in Cpus
    BY <1>3, <1>4, <1>5, <1>6, <1>7, <1>8, ZenonT(60) DEF Cpus
  <1>10. /\ x.host = c.host /\ x.branch = c.branch
         /\ x.excaddr = c.excaddr /\ x.llbit = c.llbit
         /\ x.tlb = c.tlb /\ x.index = c.index /\ x.entryhi = c.entryhi /\ x.wired = c.wired
         /\ x.random = c.random /\ x.count = c.count /\ x.ip = c.ip /\ x.compare = c.compare
         /\ x.pc = v /\ x.status = s /\ x.epc = p
    BY DEF Cpus
  <1> HIDE DEF x
  <1> QED BY <1>1, <1>3, <1>6, <1>9, <1>10 DEF p

\* Random stays an entry, and keeps away from the wired ones.
LEMMA RandomDoes ==
    ASSUME NEW c \in Cpus
    PROVE  Random(c) \in Slots /\ (c.wired < Entries => c.wired <= Random(c))
  <1>1. c.random \in 0 .. Entries - 1 /\ c.wired \in Nat /\ Entries \in Nat \ {0}
    BY R4kConstants DEF Cpus, Slots
  <1> QED BY <1>1 DEF Random, Down, Slots

\* The end of a step, manage: the exception or the interrupt is handled, Count and
\* Random advance, the timer may fire and the branch state is lowered.
LEMMA ManageDoes ==
    ASSUME NEW c \in Cpus, c.exc \in Causes \ {"Int"}
    PROVE  Managed(c, [manage(c) EXCEPT !.exc = "None"], Cause(c))
  <1> DEFINE d == IF Cause(c) = "None" THEN c ELSE handle_exception(c, Cause(c))
             count == (d.count + 1) % CountSize
             random == Random(d)
             ip == IF count = d.compare THEN d.ip \cup {7} ELSE d.ip
             branch == IF d.branch > 0 THEN d.branch - 1 ELSE 0
             x == [d EXCEPT !.count = count, !.random = random, !.ip = ip, !.branch = branch, !.exc = "None"]
  <1>0. Cause(c) \in Causes
    BY CauseIs
  <1>1. /\ d \in Cpus /\ d.host = c.host /\ d.branch = c.branch
        /\ d.excaddr = c.excaddr /\ d.llbit = c.llbit
        /\ d.tlb = c.tlb /\ d.index = c.index /\ d.entryhi = c.entryhi /\ d.wired = c.wired
        /\ d.random = c.random /\ d.count = c.count /\ d.ip = c.ip
        /\ Cause(c) = "None" => d = c
        /\ Cause(c) # "None" => /\ d.pc \in Vectors /\ d.status.exl
                                /\ d.epc = IF c.status.exl THEN c.epc ELSE Epc(c, Cause(c))
    <2>1. CASE Cause(c) = "None"
      BY <2>1
    <2>2. CASE Cause(c) # "None"
      <3>1. Cause(c) \in Causes \ {"None"} /\ d = handle_exception(c, Cause(c))
        BY <1>0, <2>2
      <3> QED BY <2>2, <3>1, HandleDoes
    <2> QED BY <2>1, <2>2, Zenon
  <1>2. [manage(c) EXCEPT !.exc = "None"] = x
    <2>1. manage(c) = [d EXCEPT !.count = count, !.random = random, !.ip = ip, !.branch = branch]
      BY DEF manage
    <2> HIDE DEF d, count, random, ip, branch
    <2> QED BY <1>1, <2>1 DEF Cpus
  <1> HIDE DEF d
  <1>3. count \in 0 .. CountSize - 1 /\ count = (c.count + 1) % CountSize
    BY <1>1, R4kConstants DEF Cpus
  <1>4. random \in Slots /\ (d.wired < Entries => d.wired <= random)
    BY <1>1, RandomDoes
  <1>5. ip \in SUBSET (0 .. 7) /\ (7 \in d.ip => 7 \in ip)
    BY <1>1 DEF Cpus
  <1>6. branch \in 0 .. 2 /\ branch = IF c.branch > 0 THEN c.branch - 1 ELSE 0
    BY <1>1 DEF Cpus
  <1>7. "None" \in Excs
    BY DEF Excs, Causes
  <1> HIDE DEF count, random, ip, branch
  <1>8. x \in Cpus
    <2>1. d \in Cpus /\ count \in 0 .. CountSize - 1 /\ random \in Slots /\ ip \in SUBSET (0 .. 7) /\ branch \in 0 .. 2
      BY <1>1, <1>3, <1>4, <1>5, <1>6
    <2> QED BY <1>7, <2>1, ZenonT(60) DEF Cpus
  <1>9. /\ x.host = d.host /\ x.branch = branch /\ x.excaddr = d.excaddr /\ x.llbit = d.llbit /\ x.exc = "None"
        /\ x.tlb = d.tlb /\ x.index = d.index /\ x.entryhi = d.entryhi /\ x.wired = d.wired
        /\ x.random = random /\ x.count = count /\ x.ip = ip
        /\ x.pc = d.pc /\ x.status = d.status /\ x.epc = d.epc
    BY <1>1 DEF Cpus
  <1>10. Privileged(x) = Privileged(d)
    BY <1>1 DEF Privileged, Cpus
  <1> HIDE DEF x
  <1>11. Managed(c, x, Cause(c))
    BY <1>1, <1>3, <1>4, <1>5, <1>6, <1>8, <1>9, <1>10 DEF Managed
  <1> QED BY <1>2, <1>11

---------------------------------------------------------------------------
\* The invariant.  While the simulator runs, the branch of the slot that is
\* next is the address an exception would return to; without one, the branch
\* state is left over only where an interrupt was taken before the slot.
IInv ==
    /\ cpu \in Cpus /\ cpu.branch \in {0, 1} /\ cpu.exc = "None"
    /\ prog \in DOMAIN Programs
    /\ slot \in Addresses \cup {NoAddr} /\ frame \in Addresses \cup {NoAddr} /\ missed \in Addresses \cup {NoAddr}
    /\ linked \in BOOLEAN
    /\ cpu.llbit => linked
    /\ cpu.wired < Entries => cpu.wired <= cpu.random
    /\ missed # NoAddr => cpu.entryhi.vpn2 = Vpn(missed) \div 2
    /\ slot # NoAddr => cpu.branch = 1 /\ cpu.excaddr = slot
    /\ slot = NoAddr => cpu.branch = 0 \/ cpu.status.exl
    /\ frame # NoAddr => cpu.epc = frame
    /\ did.op = "tlbp" /\ did.exc = "None" => Probe(cpu)

\* A step of the processor ends the simulator, or executes something and ends
\* with manage.
LEMMA StepIs ==
    ASSUME IInv, r4k_step
    PROVE  \/ cpu' = Abort(cpu) /\ UNCHANGED <<prog, did, slot, frame, missed, linked>>
           \/ \E c, i, next, exact : Executed(cpu, c, i, next, exact) /\ Finish(c, i, next, exact)
  <1> DEFINE f == r4k_convert_addr(cpu, cpu.pc, FALSE)
  <1>1. cpu \in Cpus /\ cpu.branch \in {0, 1} /\ cpu.host = "runs" /\ prog \in DOMAIN Programs
    BY Zenon DEF IInv, r4k_step
  <1>2. /\ Converted(cpu, f.c, FALSE) /\ f.c.host = "runs" /\ f.phys \subseteq Nat
        /\ f.c.exc = "None" => Fetched(cpu, f.c)
    BY <1>1, FetchDoes, Zenon
  <1>3. CASE f.c.exc # "None" /\ Finish(FetchFault(f.c), [op |-> "fetch"], NoAddr, TRUE)
    <2> HIDE DEF f
    <2>1. Executed(cpu, FetchFault(f.c), [op |-> "fetch"], NoAddr, TRUE)
      BY <1>1, <1>2, <1>3, FaultExecuted, Zenon
    <2> QED BY <1>3, <2>1, Zenon
  <1>4. CASE f.c.exc = "None" /\ Finish(Return(f.c, "AdEL"), [op |-> "outside"], NoAddr, FALSE)
    <2> HIDE DEF f
    <2>1. Executed(cpu, Return(f.c, "AdEL"), [op |-> "outside"], NoAddr, FALSE)
      BY <1>1, <1>2, <1>4, OutsideExecuted, ZenonT(60)
    <2> QED BY <1>4, <2>1, Zenon
  <1>5. ASSUME f.c.exc = "None", NEW p \in f.phys \cap DOMAIN Text, NEW i \in Text[p], NEW d \in fnc(f.c, i),
               IF d.host # "runs" THEN cpu' = Abort(cpu) /\ UNCHANGED <<prog, did, slot, frame, missed, linked>>
               ELSE Finish(Advance(d), i, IF d.exc = "Jump" THEN cpu.pc ELSE NoAddr, TRUE)
        PROVE  \/ cpu' = Abort(cpu) /\ UNCHANGED <<prog, did, slot, frame, missed, linked>>
               \/ \E c, j, next, exact : Executed(cpu, c, j, next, exact) /\ Finish(c, j, next, exact)
    <2> HIDE DEF f
    <2>1. CASE d.host # "runs"
      BY <1>5, <2>1, Zenon
    <2>2. CASE d.host = "runs"
      <3>1. Legal(i)
        BY <1>1, Guests DEF Text
      <3>2. Executed(cpu, Advance(d), i, IF d.exc = "Jump" THEN cpu.pc ELSE NoAddr, TRUE)
        BY <1>1, <1>2, <1>5, <2>2, <3>1, InstructionExecuted, Zenon
      <3> QED BY <1>5, <2>2, <3>2, Zenon
    <2> QED BY <2>1, <2>2
  <1> QED BY <1>3, <1>4, <1>5, Zenon DEF r4k_step

\* A step that executes something keeps the invariant.
LEMMA FinishKeeps ==
    ASSUME IInv, NEW c, NEW i, NEW next, NEW exact, Executed(cpu, c, i, next, exact), Finish(c, i, next, exact)
    PROVE  IInv'
  <1> DEFINE e == Cause(c)
  <1>1. /\ cpu \in Cpus /\ cpu.branch \in {0, 1} /\ cpu.pc \in Addresses
        /\ prog \in DOMAIN Programs /\ slot \in Addresses \cup {NoAddr}
        /\ frame \in Addresses \cup {NoAddr} /\ missed \in Addresses \cup {NoAddr}
        /\ linked \in BOOLEAN
        /\ missed # NoAddr => cpu.entryhi.vpn2 = Vpn(missed) \div 2
        /\ cpu.llbit => linked
        /\ slot # NoAddr => cpu.branch = 1 /\ cpu.excaddr = slot
        /\ slot = NoAddr => cpu.branch = 0 \/ cpu.status.exl
        /\ frame # NoAddr => cpu.epc = frame
    BY DEF IInv, Cpus
  <1>2. c \in Cpus /\ c.exc \in Causes \ {"Int"}
    BY DEF Executed
  <1>3. /\ e \in Causes
        /\ e # c.exc => /\ e = "Int" /\ c.exc = "None" /\ ~c.status.exl
        /\ e = "Int" => c.exc = "None" /\ ~c.status.exl
        /\ e = "None" => c.exc = "None"
    BY <1>2, CauseIs
  <1>4. Managed(c, cpu', e)
    BY <1>2, ManageDoes DEF Finish
  <1>5. /\ did' = [op |-> Name(i), exc |-> e]
        /\ slot' = IF e = "None" THEN next ELSE NoAddr
        /\ frame' = IF e # "None" /\ ~c.status.exl THEN Resume(c, e, next, exact)
                    ELSE IF e = "None" /\ Name(i) \in {"eret", "EPC", "Status"} THEN NoAddr
                    ELSE frame
        /\ missed' = IF e \in Refills THEN c.badvaddr
                     ELSE IF c.entryhi # cpu.entryhi THEN NoAddr ELSE missed
        /\ linked' = IF c.exc = "None" THEN i.op = "ll" \/ (linked /\ i.op \notin {"sc", "eret"}) ELSE linked
        /\ prog' = prog
    BY DEF Finish
  <1> HIDE DEF e
  <1>6. c.exc # "None" => c.status = cpu.status /\ c.epc = cpu.epc
    BY <1>1, <1>2 DEF Executed, Privileged, Cpus
  <1>7. next \in Addresses \cup {NoAddr}
    BY <1>1 DEF Executed
  <1>8. cpu' \in Cpus /\ cpu'.branch \in {0, 1} /\ cpu'.exc = "None" /\ (cpu'.wired < Entries => cpu'.wired <= cpu'.random)
    <2>1. c.branch \in 0 .. 2
      BY <1>2 DEF Cpus
    <2>2. (IF c.branch > 0 THEN c.branch - 1 ELSE 0) \in {0, 1}
      BY <2>1
    <2> QED BY <1>4, <2>2 DEF Managed
  <1>9. cpu'.llbit => linked'
    <2>1. cpu'.llbit = c.llbit
      BY <1>4 DEF Managed
    <2> QED BY <1>1, <1>5, <2>1, ZenonT(60) DEF Executed
  <1>10. /\ missed' \in Addresses \cup {NoAddr}
         /\ missed' # NoAddr => cpu'.entryhi.vpn2 = Vpn(missed') \div 2
    <2>1. cpu'.entryhi = c.entryhi
      BY <1>4 DEF Managed
    <2>2. CASE e \in Refills
      <3>1. c.exc \in Refills /\ missed' = c.badvaddr /\ c.badvaddr \in Addresses
        BY <1>2, <1>3, <1>5, <2>2 DEF Refills, Cpus
      <3>2. c.entryhi.vpn2 = Vpn(c.badvaddr) \div 2
        BY <3>1 DEF Executed
      <3> QED BY <2>1, <3>1, <3>2
    <2>3. CASE e \notin Refills
      BY <1>1, <1>5, <2>1, <2>3, Zenon
    <2> QED BY <2>2, <2>3
  <1>11. /\ slot' \in Addresses \cup {NoAddr}
         /\ slot' # NoAddr => cpu'.branch = 1 /\ cpu'.excaddr = slot'
         /\ slot' = NoAddr => cpu'.branch = 0 \/ cpu'.status.exl
    <2>1. cpu'.branch = (IF c.branch > 0 THEN c.branch - 1 ELSE 0) /\ cpu'.excaddr = c.excaddr
      BY <1>4 DEF Managed
    <2>2. CASE e = "None"
      <3>1. slot' = next
        BY <1>5, <2>2
      <3>2. next # NoAddr => c.branch = 2 /\ c.excaddr = next
        BY DEF Executed
      <3>3. next = NoAddr => c.branch \in {0, 1}
        BY <1>1 DEF Executed
      <3> QED BY <1>7, <2>1, <3>1, <3>2, <3>3
    <2>3. CASE e # "None"
      BY <1>4, <1>5, <2>3, Zenon DEF Managed
    <2> QED BY <2>2, <2>3
  <1>12. /\ frame' \in Addresses \cup {NoAddr}
         /\ frame' # NoAddr => cpu'.epc = frame'
    <2>1. CASE e # "None" /\ ~c.status.exl
      <3>1. frame' = Resume(c, e, next, exact) /\ cpu'.epc = Epc(c, e)
        BY <1>4, <1>5, <2>1, Zenon DEF Managed
      <3>2. CASE e = "Int"
        <4>1. Resume(c, e, next, exact) = IF next = NoAddr THEN c.pc ELSE next
          BY <3>2 DEF Resume
        <4>2. Epc(c, e) = IF c.branch # 2 THEN c.pc ELSE c.excaddr
          BY <3>2 DEF Epc
        <4>3. next = NoAddr => c.branch # 2
          BY <1>1 DEF Executed
        <4>4. next # NoAddr => c.branch = 2 /\ c.excaddr = next
          BY DEF Executed
        <4>5. c.pc \in Addresses
          BY <1>2 DEF Cpus
        <4> QED BY <1>7, <3>1, <4>1, <4>2, <4>3, <4>4, <4>5
      <3>3. CASE e # "Int"
        <4>1. c.exc # "None" /\ ~cpu.status.exl
          BY <1>3, <1>6, <2>1, <3>3
        <4>2. Epc(c, e) = c.excaddr
          BY <3>3 DEF Epc
        <4>3. CASE exact
          <5>1. frame' = IF slot = NoAddr THEN cpu.pc ELSE slot
            BY <3>1, <3>3, <4>3 DEF Resume
          <5>2. c.excaddr = IF cpu.branch = 0 THEN cpu.pc ELSE cpu.excaddr
            BY <4>1, <4>3 DEF Executed
          <5>3. slot = NoAddr => cpu.branch = 0
            BY <1>1, <4>1
          <5>4. slot # NoAddr => cpu.branch = 1 /\ cpu.excaddr = slot
            BY <1>1
          <5>5. cpu.pc \in Addresses /\ slot \in Addresses \cup {NoAddr}
            BY <1>1
          <5>6. CASE slot = NoAddr
            BY <3>1, <4>2, <5>1, <5>2, <5>3, <5>5, <5>6, Zenon
          <5>7. CASE slot # NoAddr
            <6>1. c.excaddr = slot /\ frame' = slot
              BY <5>1, <5>2, <5>4, <5>7
            <6> QED BY <3>1, <4>2, <5>5, <6>1
          <5> QED BY <5>6, <5>7
        <4>4. CASE ~exact
          BY <3>1, <3>3, <4>4 DEF Resume
        <4> QED BY <4>3, <4>4
      <3> QED BY <3>2, <3>3
    <2>2. CASE e = "None" /\ Name(i) \in {"eret", "EPC", "Status"}
      BY <1>5, <2>2
    <2>3. CASE e = "None" /\ Name(i) \notin {"eret", "EPC", "Status"}
      <3>1. frame' = frame /\ cpu'.epc = c.epc
        BY <1>4, <1>5, <2>3, Zenon DEF Managed
      <3>2. c.epc = cpu.epc
        BY <2>3 DEF Executed
      <3> QED BY <1>1, <3>1, <3>2
    <2>4. CASE e # "None" /\ c.status.exl
      <3>1. frame' = frame /\ cpu'.epc = c.epc
        BY <1>4, <1>5, <2>4, Zenon DEF Managed
      <3>2. c.epc = cpu.epc
        BY <1>3, <1>6, <2>4
      <3> QED BY <1>1, <3>1, <3>2
    <2> QED BY <2>1, <2>2, <2>3, <2>4
  <1>13. did'.op = "tlbp" /\ did'.exc = "None" => Probe(cpu')
    <2> SUFFICES ASSUME did'.op = "tlbp", did'.exc = "None" PROVE Probe(cpu')
      OBVIOUS
    <2>1. Name(i) = "tlbp" /\ e = "None"
      BY <1>5
    <2>2. Probe(c)
      BY <1>3, <2>1 DEF Executed
    <2>3. cpu'.index = c.index /\ cpu'.tlb = c.tlb /\ cpu'.entryhi = c.entryhi
      BY <1>4, Zenon DEF Managed
    <2> QED BY <1>2, <1>8, <2>2, <2>3, ProbeKept
  <1>14. linked' \in BOOLEAN /\ prog' \in DOMAIN Programs
    BY <1>1, <1>5, Zenon
  <1>15. (Probe(cpu))' <=> Probe(cpu')
    BY DEF Probe
  <1> QED BY <1>8, <1>9, <1>10, <1>11, <1>12, <1>13, <1>14, <1>15, Zenon DEF IInv

\* What the devices and the other processors do to this one, and what is left
\* of it when the simulator ends.
Quiet ==
    /\ UNCHANGED <<prog, did, slot, frame, missed, linked>>
    /\ cpu' \in Cpus /\ Untouched([cpu EXCEPT !.ip = cpu'.ip], cpu')
    /\ cpu'.exc = cpu.exc /\ cpu'.entryhi = cpu.entryhi
    /\ cpu'.llbit => cpu.llbit
    /\ 7 \notin Programs[prog].lines => (7 \in cpu.ip => 7 \in cpu'.ip)

\* Every step of the system is the end of something executed, or quiet.
LEMMA NextIs ==
    ASSUME IInv, [Next]_vars
    PROVE  \/ Quiet
           \/ \E c, i, next, exact : Executed(cpu, c, i, next, exact) /\ Finish(c, i, next, exact)
  <1>0. cpu \in Cpus /\ prog \in DOMAIN Programs
    BY DEF IInv
  <1>1. Programs[prog].lines \subseteq 0 .. 7 /\ Programs[prog].snoop \subseteq Nat
    BY <1>0, Guests
  <1>2. ASSUME NEW ip \in SUBSET (0 .. 7), cpu' = [cpu EXCEPT !.ip = ip],
               UNCHANGED <<prog, did, slot, frame, missed, linked>>,
               7 \notin Programs[prog].lines => (7 \in cpu.ip => 7 \in ip)
        PROVE  Quiet
    <2>1. cpu' \in Cpus
      BY <1>0, <1>2 DEF Cpus
    <2>2. cpu'.ip = ip /\ cpu'.exc = cpu.exc /\ cpu'.entryhi = cpu.entryhi /\ cpu'.llbit = cpu.llbit
      BY <1>0, <1>2 DEF Cpus
    <2>3. Untouched([cpu EXCEPT !.ip = cpu'.ip], cpu')
      BY <1>2, <2>2 DEF Untouched
    <2> QED BY <1>2, <2>1, <2>2, <2>3 DEF Quiet
  <1>3. CASE r4k_step
    <2>1. ASSUME cpu' = Abort(cpu), UNCHANGED <<prog, did, slot, frame, missed, linked>>
          PROVE  Quiet
      <3>1. cpu' = [cpu EXCEPT !.host = "abort"]
        BY <2>1 DEF Abort
      <3>2. cpu' \in Cpus /\ cpu'.ip = cpu.ip
        BY <1>0, <3>1 DEF Cpus
      <3>3. Untouched([cpu EXCEPT !.ip = cpu'.ip], cpu')
        BY <1>0, <3>1 DEF Untouched, Cpus
      <3>4. cpu'.exc = cpu.exc /\ cpu'.entryhi = cpu.entryhi /\ cpu'.llbit = cpu.llbit
        BY <1>0, <3>1 DEF Cpus
      <3> QED BY <2>1, <3>2, <3>3, <3>4 DEF Quiet
    <2> QED BY <1>3, <2>1, StepIs
  <1>4. ASSUME NEW no \in Programs[prog].lines, r4k_interrupt_up(no) PROVE Quiet
    <2>1. cpu.ip \cup {no} \in SUBSET (0 .. 7)
      BY <1>0, <1>1 DEF Cpus
    <2> QED BY <1>2, <1>4, <2>1 DEF r4k_interrupt_up
  <1>5. ASSUME NEW no \in Programs[prog].lines, r4k_interrupt_down(no) PROVE Quiet
    <2>1. cpu.ip \ {no} \in SUBSET (0 .. 7)
      BY <1>0 DEF Cpus
    <2> QED BY <1>2, <1>5, <2>1, Zenon DEF r4k_interrupt_down
  <1>6. ASSUME NEW p \in Programs[prog].snoop, Snoop(p) PROVE Quiet
    <2>1. cpu' = r4k_sc_access(cpu, p) /\ UNCHANGED <<prog, did, slot, frame, missed, linked>> /\ p \in Nat
      BY <1>1, <1>6 DEF Snoop
    <2>2. /\ cpu' \in Cpus /\ Untouched(cpu, cpu') /\ cpu'.exc = cpu.exc
          /\ cpu'.entryhi = cpu.entryhi /\ (cpu'.llbit => cpu.llbit)
      BY <1>0, <2>1, ScAccessDoes
    <2>3. cpu'.ip = cpu.ip /\ [cpu EXCEPT !.ip = cpu'.ip] = cpu
      BY <1>0, <2>2 DEF Untouched, Cpus
    <2> QED BY <2>1, <2>2, <2>3 DEF Quiet
  <1>7. CASE UNCHANGED vars
    <2>1. [cpu EXCEPT !.ip = cpu'.ip] = cpu /\ cpu' = cpu
      BY <1>0, <1>7 DEF vars, Cpus
    <2>2. Untouched([cpu EXCEPT !.ip = cpu'.ip], cpu')
      BY <2>1 DEF Untouched
    <2> QED BY <1>0, <1>7, <2>1, <2>2 DEF Quiet, vars
  <1> QED BY <1>3, <1>4, <1>5, <1>6, <1>7, Zenon DEF Next

\* A quiet step leaves these registers alone.
LEMMA QuietDoes ==
    ASSUME IInv, Quiet
    PROVE  /\ cpu'.branch = cpu.branch /\ cpu'.wired = cpu.wired /\ cpu'.random = cpu.random
           /\ cpu'.excaddr = cpu.excaddr /\ cpu'.status = cpu.status /\ cpu'.epc = cpu.epc
           /\ cpu'.index = cpu.index /\ cpu'.tlb = cpu.tlb /\ cpu'.count = cpu.count
           /\ Privileged(cpu') = Privileged(cpu)
  BY DEF IInv, Quiet, Untouched, Cpus, Privileged

\* The state after a hard reset satisfies the invariant.
LEMMA InitIs ==
    ASSUME Init
    PROVE  IInv
  <1>1. 5 * Seg + ResetAt \in Addresses /\ 5 * Seg + ResetAt + 1 \in Addresses /\ 0 \in Addresses
    <2>1. Seg \in Nat /\ Space = 8 * Seg /\ ResetAt \in Nat /\ ResetAt + 1 < Seg
      BY Segments, R4kConstants
    <2>2. 0 <= 5 * Seg + ResetAt /\ 5 * Seg + ResetAt + 1 <= 8 * Seg - 1 /\ 5 * Seg + ResetAt \in Nat
      BY <2>1
    <2> QED BY <2>1, <2>2 DEF Addresses
  <1> DEFINE s == [ie |-> FALSE, exl |-> FALSE, erl |-> TRUE, ksu |-> 0, im |-> {}, bev |-> TRUE, cu0 |-> FALSE, ts |-> FALSE]
             x == [p |-> FALSE, n |-> 0]
             hi == [vpn2 |-> 0, asid |-> 0]
             tlb == [e \in 0 .. Entries - 1 |-> NoEntry]
             pc == 5 * Seg + ResetAt
             pc_next == 5 * Seg + ResetAt + 1
             last == Entries - 1
             c == [pc |-> pc, pc_next |-> pc_next, excaddr |-> 0, branch |-> 0,
                   status |-> s, ip |-> {}, exccode |-> "Int", bd |-> FALSE, epc |-> 0, errorepc |-> 0, badvaddr |-> 0,
                   index |-> x, random |-> last, wired |-> 0,
                   entryhi |-> hi, entrylo0 |-> NoLo, entrylo1 |-> NoLo, pagemask |-> 1,
                   count |-> 0, compare |-> 0, watch |-> {}, waddr |-> 0, llbit |-> FALSE, lladdr |-> 0,
                   tlb |-> tlb, tlb_hint |-> 0, exc |-> "None", host |-> "runs"]
  <1>2. cpu = c
    BY Zenon DEF Init, r4k_init
  <1>3. s \in Statuses
    BY DEF Statuses
  <1>4. x \in Indexes /\ hi \in EntryHis /\ NoLo \in EntryLos
    BY DEF Indexes, EntryHis, NoLo, EntryLos
  <1>5. tlb \in [Slots -> TlbEntries]
    <2>1. NoPage \in PageRecs
      BY DEF NoPage, PageRecs
    <2>2. NoEntry \in TlbEntries
      BY <2>1, R4kConstants DEF NoEntry, TlbEntries
    <2> QED BY <2>2 DEF Slots
  <1>6. last \in Slots /\ 0 \in Slots /\ 1 \in Masks /\ 0 \in 0 .. CountSize - 1 /\ last \in Nat
    BY R4kConstants DEF Slots
  <1>7. "Int" \in Excs /\ "None" \in Excs /\ pc \in Addresses /\ pc_next \in Addresses
    BY <1>1 DEF Excs, Causes
  <1> HIDE DEF s, x, hi, tlb, pc, pc_next, last
  <1>8. c \in Cpus
    <2>1. /\ 0 \in 0 .. 2 /\ {} \in SUBSET (0 .. 7) /\ {} \in SUBSET {"read", "write"} /\ 0 \in Nat
          /\ "runs" \in {"runs", "abort"} /\ FALSE \in BOOLEAN
      OBVIOUS
    <2>2. 0 \in Addresses /\ 0 \in Slots /\ 1 \in Masks /\ 0 \in 0 .. CountSize - 1 /\ last \in Slots
      BY <1>1, <1>6
    <2> QED BY <1>3, <1>4, <1>5, <1>7, <2>1, <2>2, Zenon DEF Cpus
  <1>9. c.branch = 0 /\ c.exc = "None" /\ c.llbit = FALSE /\ c.wired = 0 /\ c.random = last
    BY Zenon
  <1> HIDE DEF c
  <1>10. /\ prog \in DOMAIN Programs /\ did.op = "reset"
         /\ slot = NoAddr /\ frame = NoAddr /\ missed = NoAddr /\ linked = FALSE
    BY DEF Init
  <1>11. 0 <= last
    BY <1>6
  <1>12. /\ cpu \in Cpus /\ cpu.branch = 0 /\ cpu.exc = "None" /\ cpu.llbit = FALSE
         /\ cpu.wired = 0 /\ cpu.random = last
    BY <1>2, <1>8, <1>9
  <1> QED BY <1>10, <1>11, <1>12, Zenon DEF IInv

\* The invariant is inductive.
LEMMA Inductive == IInv /\ [Next]_vars => IInv'
  <1> SUFFICES ASSUME IInv, [Next]_vars PROVE IInv'
    OBVIOUS
  <1>1. CASE Quiet
    <2>1. /\ cpu'.branch = cpu.branch /\ cpu'.wired = cpu.wired /\ cpu'.random = cpu.random
          /\ cpu'.excaddr = cpu.excaddr /\ cpu'.status = cpu.status /\ cpu'.epc = cpu.epc
          /\ cpu'.index = cpu.index /\ cpu'.tlb = cpu.tlb
      BY <1>1, QuietDoes
    <2>2. /\ cpu' \in Cpus /\ cpu'.exc = cpu.exc /\ cpu'.entryhi = cpu.entryhi /\ (cpu'.llbit => cpu.llbit)
          /\ UNCHANGED <<prog, did, slot, frame, missed, linked>>
      BY <1>1 DEF Quiet
    <2>3. Probe(cpu) => Probe(cpu')
      BY <2>1, <2>2, ProbeKept DEF IInv
    <2>4. (Probe(cpu))' <=> Probe(cpu')
      BY DEF Probe
    <2> QED BY <2>1, <2>2, <2>3, <2>4 DEF IInv
  <1>2. CASE \E c, i, next, exact : Executed(cpu, c, i, next, exact) /\ Finish(c, i, next, exact)
    BY <1>2, FinishKeeps
  <1> QED BY <1>1, <1>2, NextIs

\* IInv holds in every state.
LEMMA Invariant == Spec => []IInv
  BY InitIs, Inductive, PTL DEF Spec

---------------------------------------------------------------------------
\* What TLBR reads of an entry with a legal mask, TLBW writes back.
LEMMA RoundTrip ==
    ASSUME NEW c \in Cpus, NEW e \in Slots, c.tlb[e].size \in Masks
    PROVE  TLBW(TLBR([c EXCEPT !.index.n = e]), e).tlb[e] = c.tlb[e]
  <1> DEFINE t == c.tlb[e]
             n == [c.index EXCEPT !.n = e]
             x == [c EXCEPT !.index = n]
             y == TLBR(x)
  <1>1. [c EXCEPT !.index.n = e] = x
    BY DEF Cpus
  <1>2. e \in Nat /\ e < Entries /\ ~(e >= Entries)
    BY R4kConstants DEF Slots
  <1>3. n \in Indexes /\ n.n = e
    BY <1>2 DEF Cpus, Indexes
  <1>4. c.tlb \in [Slots -> TlbEntries] /\ t \in TlbEntries
    BY DEF Cpus
  <1> HIDE DEF n
  <1>5. x \in Cpus /\ x.tlb = c.tlb /\ x.index = n
    BY <1>3 DEF Cpus
  <1> HIDE DEF x
  <1>6. x.index.n = e /\ x.tlb[x.index.n] = t
    BY <1>3, <1>5
  <1>7. y = [x EXCEPT !.pagemask = t.size, !.entryhi = [vpn2 |-> t.vpn2 * t.size, asid |-> t.asid],
                      !.entrylo0 = EntryLo(t.pg[1], t.global), !.entrylo1 = EntryLo(t.pg[2], t.global)]
    BY <1>2, <1>6 DEF TLBR
  <1>8. y \in Cpus /\ y.tlb = c.tlb
    BY <1>5, TlbrDoes DEF Confined
  <1>9. TLBW(y, e).tlb = [y.tlb EXCEPT ![e] = IF e < Entries THEN NewEntry(y) ELSE @]
    BY <1>2, <1>8, TlbwDoes
  <1>10. TLBW(y, e).tlb[e] = NewEntry(y)
    BY <1>2, <1>4, <1>8, <1>9
  <1> HIDE DEF t
  <1>11. /\ y.pagemask = t.size /\ y.entryhi = [vpn2 |-> t.vpn2 * t.size, asid |-> t.asid]
         /\ y.entrylo0 = EntryLo(t.pg[1], t.global) /\ y.entrylo1 = EntryLo(t.pg[2], t.global)
    BY <1>5, <1>7 DEF Cpus
  <1>12. /\ t.size \in Nat \ {0} /\ t.vpn2 \in Nat /\ t.global \in BOOLEAN /\ t.pg \in PageRecs \X PageRecs
         /\ t = [size |-> t.size, vpn2 |-> t.vpn2, global |-> t.global, asid |-> t.asid, pg |-> t.pg]
    BY <1>4 DEF TlbEntries
  <1>13. (t.vpn2 * t.size) \div t.size = t.vpn2
    BY <1>12, PairNumbers
  <1>14. /\ Page(EntryLo(t.pg[1], t.global)) = t.pg[1] /\ Page(EntryLo(t.pg[2], t.global)) = t.pg[2]
         /\ t.pg = <<t.pg[1], t.pg[2]>>
    BY <1>12 DEF Page, EntryLo, PageRecs
  <1>15. (t.global /\ t.global) = t.global
    BY <1>12
  <1>16. y.entrylo0.g = t.global /\ y.entrylo1.g = t.global /\ y.entryhi.vpn2 = t.vpn2 * t.size /\ y.entryhi.asid = t.asid
    BY <1>11 DEF EntryLo
  <1> HIDE DEF y
  <1>17. NewEntry(y) = [size |-> t.size, vpn2 |-> t.vpn2, global |-> t.global, asid |-> t.asid, pg |-> t.pg]
    BY <1>11, <1>13, <1>14, <1>15, <1>16, Zenon DEF NewEntry
  <1> QED BY <1>1, <1>10, <1>12, <1>17 DEF t, y

\* The instructions on the TLB agree with the translation and with each other,
\* for every number of entries and every set of page sizes: TLBP finds the page
\* in EntryHi exactly if an access would, TLBR and TLBWI restore an entry, and
\* Random and the hint name entries.
THEOREM TlbInstructionsAlwaysAgree == Spec => []TlbInstructionsAgree
  <1>1. IInv => TlbInstructionsAgree
    <2> SUFFICES ASSUME IInv PROVE TlbInstructionsAgree
      OBVIOUS
    <2>1. TypeOK
      BY DEF IInv, TypeOK, Cpus, Slots
    <2>2. ASSUME NEW e \in 0 .. Entries - 1, cpu.tlb[e].size \in Masks
          PROVE  TLBW(TLBR([cpu EXCEPT !.index.n = e]), e).tlb[e] = cpu.tlb[e]
      BY <2>2, RoundTrip DEF IInv, Slots
    <2>3. did.op = "tlbp" /\ did.exc = "None" => Probe(cpu)
      BY DEF IInv
    <2> QED BY <2>1, <2>2, <2>3, Zenon DEF TlbInstructionsAgree, Probe
  <1> QED BY <1>1, Invariant, PTL

\* An SC succeeds only after an LL that no SC and no ERET followed.
THEOREM LinkStaysFresh == Spec => []LinkFresh
  <1>1. IInv => LinkFresh
    BY DEF IInv, LinkFresh
  <1> QED BY <1>1, Invariant, PTL

\* The step predicate of TlbwrSafe.
TlbwrStep ==
    Stepped /\ did'.op = "tlbwr" =>
      /\ cpu.wired < Entries => \A e \in 0 .. cpu.wired - 1 : cpu'.tlb[e] = cpu.tlb[e]
      /\ did'.exc = "None" /\ missed # NoAddr => tlb_look(cpu', missed, FALSE).look # "REFILL"

\* A step that executes TLBWR keeps the wired entries and serves the miss.
LEMMA TlbwrSteps ==
    ASSUME IInv, [Next]_vars
    PROVE  TlbwrStep
  <1> SUFFICES ASSUME Stepped, did'.op = "tlbwr"
               PROVE  /\ cpu.wired < Entries => \A e \in 0 .. cpu.wired - 1 : cpu'.tlb[e] = cpu.tlb[e]
                      /\ did'.exc = "None" /\ missed # NoAddr => tlb_look(cpu', missed, FALSE).look # "REFILL"
    BY Zenon DEF TlbwrStep
  <1>1. ~Quiet
    BY QuietDoes DEF Stepped, Quiet
  <1>2. PICK c, i, next, exact : Executed(cpu, c, i, next, exact) /\ Finish(c, i, next, exact)
    BY <1>1, NextIs
  <1>3. c \in Cpus /\ c.exc \in Causes \ {"Int"}
    BY <1>2 DEF Executed
  <1>4. did' = [op |-> Name(i), exc |-> Cause(c)] /\ Managed(c, cpu', Cause(c))
    BY <1>2, <1>3, ManageDoes DEF Finish
  <1>5. Name(i) = "tlbwr" /\ did'.exc = Cause(c)
    BY <1>4
  <1>6. cpu' \in Cpus /\ cpu'.tlb = c.tlb /\ cpu'.entryhi = c.entryhi
    BY <1>4, Zenon DEF Managed
  <1>7. cpu \in Cpus /\ cpu.random \in Slots /\ cpu.wired \in Nat /\ (cpu.wired < Entries => cpu.wired <= cpu.random)
    BY DEF IInv, Cpus
  <1>8. ASSUME cpu.wired < Entries, NEW e \in 0 .. cpu.wired - 1 PROVE cpu'.tlb[e] = cpu.tlb[e]
    <2>1. e \in Slots /\ e # cpu.random
      BY <1>7, <1>8, R4kConstants DEF Slots
    <2>2. c.tlb[e] = cpu.tlb[e]
      BY <1>2, <1>5, <2>1 DEF Executed
    <2> QED BY <1>6, <2>2
  <1>9. ASSUME did'.exc = "None", missed # NoAddr PROVE tlb_look(cpu', missed, FALSE).look # "REFILL"
    <2> DEFINE t == cpu'.tlb[cpu.random]
    <2>1. c.exc = "None"
      BY <1>3, <1>5, <1>9, CauseIs, Zenon
    <2>2. PICK m \in Nat \ {0} : t.size = m /\ t.vpn2 = cpu.entryhi.vpn2 \div m
      BY <1>2, <1>5, <1>6, <2>1 DEF Executed
    <2>3. cpu'.entryhi = cpu.entryhi /\ t.asid = cpu.entryhi.asid
      BY <1>2, <1>5, <1>6, <2>1 DEF Executed
    <2>4. missed \in Addresses /\ cpu.entryhi.vpn2 = Vpn(missed) \div 2
      BY <1>9 DEF IInv
    <2> HIDE DEF t
    <2>5. Vpn(missed) \div (2 * m) = (Vpn(missed) \div 2) \div m
      BY <2>4, Pagings, PairNumbers
    <2>6. Matches(t, missed, cpu'.entryhi.asid)
      BY <2>2, <2>3, <2>4, <2>5 DEF Matches
    <2> QED BY <1>6, <1>7, <2>6, LookMisses, Zenon DEF t
  <1> QED BY <1>8, <1>9, Zenon

\* TLBWR never replaces a wired entry, and after a refill exception whose
\* EntryHi the handler kept it makes the address hit, for every page size.
THEOREM TlbwrStaysSafe == Spec => TlbwrSafe
  <1>1. IInv /\ [Next]_vars => [TlbwrStep]_vars
    BY TlbwrSteps
  <1> QED BY <1>1, Invariant, PTL DEF Spec, TlbwrSafe, TlbwrStep

\* The step predicate of ExceptionsExact.
ExceptionStep ==
    /\ did'.op = "eret" /\ did'.exc = "None" /\ Stepped /\ frame # NoAddr /\ ~cpu.status.erl
         => cpu'.pc = frame
    /\ CPU_USER_MODE(cpu) /\ ~cpu.status.cu0 /\ cpu'.host = "runs"
         => IF CPU_USER_MODE(cpu') THEN Privileged(cpu') = Privileged(cpu)
            ELSE cpu'.pc \in Vectors /\ cpu'.tlb = cpu.tlb
    /\ 7 \in cpu.ip /\ 7 \notin cpu'.ip /\ 7 \notin Programs[prog].lines => Stepped /\ did'.op = "Compare"

\* A step enters a handler at a vector, leaves it at the address that was
\* interrupted, and changes nothing privileged from user mode.
LEMMA ExceptionSteps ==
    ASSUME IInv, [Next]_vars
    PROVE  ExceptionStep
  <1>1. CASE Quiet
    <2>1. cpu'.status = cpu.status /\ Privileged(cpu') = Privileged(cpu) /\ cpu'.count = cpu.count /\ did' = did
      BY <1>1, QuietDoes DEF Quiet
    <2>2. ~Stepped
      BY <2>1 DEF Stepped
    <2>3. CPU_USER_MODE(cpu) <=> CPU_USER_MODE(cpu')
      BY <2>1 DEF CPU_USER_MODE
    <2>4. 7 \notin Programs[prog].lines => (7 \in cpu.ip => 7 \in cpu'.ip)
      BY <1>1 DEF Quiet
    <2> QED BY <2>1, <2>2, <2>3, <2>4 DEF ExceptionStep
  <1>2. ASSUME NEW c, NEW i, NEW next, NEW exact, Executed(cpu, c, i, next, exact), Finish(c, i, next, exact)
        PROVE  ExceptionStep
    <2> DEFINE e == Cause(c)
    <2>1. c \in Cpus /\ c.exc \in Causes \ {"Int"}
      BY <1>2 DEF Executed
    <2>2. did' = [op |-> Name(i), exc |-> e] /\ Managed(c, cpu', e)
      BY <1>2, <2>1, ManageDoes DEF Finish
    <2>3. e = "None" => c.exc = "None"
      BY <2>1, CauseIs
    <2>4. did'.op = Name(i) /\ did'.exc = e
      BY <2>2
    <2> HIDE DEF e
    <2>5. ASSUME did'.op = "eret", did'.exc = "None", frame # NoAddr, ~cpu.status.erl PROVE cpu'.pc = frame
      <3>1. c.pc = cpu.epc
        BY <1>2, <2>3, <2>4, <2>5 DEF Executed
      <3>2. cpu'.pc = c.pc
        BY <2>2, <2>4, <2>5 DEF Managed
      <3> QED BY <2>5, <3>1, <3>2 DEF IInv
    <2>6. ASSUME CPU_USER_MODE(cpu), ~cpu.status.cu0
          PROVE  IF CPU_USER_MODE(cpu') THEN Privileged(cpu') = Privileged(cpu)
                 ELSE cpu'.pc \in Vectors /\ cpu'.tlb = cpu.tlb
      <3>1. ~CP0_USABLE(cpu)
        BY <2>6 DEF CPU_USER_MODE, CP0_USABLE, CPU_KERNEL_MODE
      <3>2. cpu \in Cpus
        BY DEF IInv
      <3>3. Privileged(c) = Privileged([cpu EXCEPT !.entryhi = c.entryhi])
        BY <1>2, <3>1 DEF Executed
      <3>4. c.tlb = cpu.tlb /\ c.status = cpu.status
        BY <3>2, <3>3 DEF Privileged, Cpus
      <3>5. CASE e = "None"
        <4>1. c.entryhi = cpu.entryhi
          BY <1>2, <2>3, <3>1, <3>5 DEF Executed
        <4>2. Privileged(c) = Privileged(cpu)
          BY <3>2, <3>3, <4>1 DEF Privileged, Cpus
        <4>3. Privileged(cpu') = Privileged(c) /\ cpu'.status = c.status
          BY <2>2, <3>5 DEF Managed
        <4>4. CPU_USER_MODE(cpu')
          BY <2>6, <3>4, <4>3 DEF CPU_USER_MODE
        <4> QED BY <4>2, <4>3, <4>4
      <3>6. CASE e # "None"
        <4>1. cpu'.pc \in Vectors /\ cpu'.status.exl /\ cpu'.tlb = c.tlb
          BY <2>2, <3>6 DEF Managed
        <4> QED BY <3>4, <4>1 DEF CPU_USER_MODE
      <3> QED BY <3>5, <3>6
    <2>7. ASSUME 7 \in cpu.ip, 7 \notin cpu'.ip PROVE Stepped /\ did'.op = "Compare"
      <3>1. 7 \notin c.ip
        BY <2>2, <2>7 DEF Managed
      <3>2. Name(i) = "Compare"
        BY <1>2, <2>7, <3>1 DEF Executed
      <3>3. c.count = cpu.count /\ cpu'.count = (c.count + 1) % CountSize
        BY <1>2, <2>2, <3>2 DEF Executed, Managed
      <3>4. cpu.count \in 0 .. CountSize - 1 /\ CountSize \in Nat /\ CountSize > 1
        BY R4kConstants DEF IInv, Cpus
      <3>5. cpu'.count # cpu.count
        <4>1. CASE cpu.count = CountSize - 1
          <5>1. cpu'.count = CountSize % CountSize
            BY <3>3, <3>4, <4>1
          <5>2. CountSize % CountSize = 0
            BY <3>4
          <5> QED BY <3>4, <4>1, <5>1, <5>2
        <4>2. CASE cpu.count < CountSize - 1
          <5>1. (cpu.count + 1) % CountSize = cpu.count + 1
            BY <3>4, <4>2
          <5> QED BY <3>3, <3>4, <5>1
        <4> QED BY <3>4, <4>1, <4>2
      <3> QED BY <2>4, <3>2, <3>5 DEF Stepped
    <2> QED BY <2>5, <2>6, <2>7 DEF ExceptionStep
  <1> QED BY <1>1, <1>2, NextIs

\* An ERET that ends a handler which kept EPC resumes where the exception was,
\* user mode leaves by a vector and changes nothing privileged, and only
\* Compare ends a timer interrupt.
THEOREM ExceptionsStayExact == Spec => ExceptionsExact
  <1>1. IInv /\ [Next]_vars => [ExceptionStep]_vars
    BY ExceptionSteps
  <1> QED BY <1>1, Invariant, PTL DEF Spec, ExceptionsExact, ExceptionStep
=============================================================================
