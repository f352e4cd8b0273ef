------------------------------- MODULE R4kCpu -------------------------------
(***************************************************************************)
(* The MIPS R4000 around its instructions (src/device/cpu/mips_r4000/      *)
(* cpu.c): address translation through the TLB, exceptions and the return  *)
(* from them, branch delay slots, interrupts, the timer and the Random     *)
(* register, and the instructions on the system coprocessor.               *)
(*                                                                         *)
(* The guest is any program whose word at physical address p is one of     *)
(* text[p].  The address space is scaled down: addresses count words, a    *)
(* page has PageWords of them and a segment (512 MB) Seg, so that kuseg is *)
(* 0 .. 4 * Seg - 1, then kseg0, kseg1, ksseg and kseg3.  The mask of a    *)
(* TLB entry is the number of pages, size, in either half of it.  Status   *)
(* never holds KX, SX or UX (MTC0 masks them), so the mode is always       *)
(* 32 bit, and no instruction reaches standby (the decoder knows no WAIT). *)
(* Context and XContext repeat BadVAddr and are left out.                  *)
(***************************************************************************)
EXTENDS Integers

CONSTANTS
    PageWords,      \* words in a page
    Pages,          \* pages of the address space
    Entries,        \* TLB_ENTRIES
    IndexSize,      \* values of the index fields (64)
    Masks,          \* the legal page sizes of PageMask, in pages
    LineWords,      \* words in the line LL tracks
    CountSize,      \* values of Count (2^32)
    ResetAt,        \* HARD_RESET_START_ADDRESS, as an offset in kseg1
    BootBase,       \* EXCEPTION_BOOT_BASE_ADDRESS, as an offset in kseg1
    Offset,         \* EXCEPTION_OFFSET
    Garbage,        \* what an uninitialised ptr36_t may hold
    Programs        \* the guests: a sequence of records [text, lines, snoop]

VARIABLES
    cpu,            \* the processor: r4k_cpu_t
    prog,           \* the guest that runs, a position in Programs
    did,            \* history: the instruction of the last step and its exception
    slot,           \* history: the branch in whose delay slot pc is, or NoAddr
    frame,          \* history: where ERET has to resume, while the guest keeps EPC; or NoAddr
    missed,         \* history: the address of the last TLB refill, while EntryHi names it; or NoAddr
    linked          \* history: an LL succeeded, and no SC and no ERET since

vars == <<cpu, prog, did, slot, frame, missed, linked>>

Text == Programs[prog].text

Space == Pages * PageWords
Seg == Space \div 8
Addresses == 0 .. Space - 1
NoAddr == 0 - 1
Plus(a, d) == (a + d) % Space
Vpn(a) == a \div PageWords

kuseg == 0 .. 4 * Seg - 1
kseg0 == 4 * Seg .. 5 * Seg - 1
kseg1 == 5 * Seg .. 6 * Seg - 1
ksseg == 6 * Seg .. 7 * Seg - 1
kseg3 == 7 * Seg .. 8 * Seg - 1

\* The reset address and the boot vectors are in kseg1, the other vectors in
\* kseg0.
ASSUME R4kConstants ==
    /\ PageWords \in Nat \ {0} /\ Pages \in Nat \ {0} /\ Pages % 8 = 0
    /\ Entries \in Nat \ {0} /\ IndexSize \in Nat \ {0} /\ CountSize \in Nat \ {0, 1}
    /\ 1 \in Masks /\ Masks \subseteq Nat \ {0} /\ \E k \in Masks : \A j \in Masks : j <= k
    /\ LineWords \in Nat \ {0} /\ Garbage \subseteq Nat
    /\ ResetAt \in Nat /\ ResetAt + 1 < Seg
    /\ BootBase \in Nat /\ Offset \in Nat /\ BootBase + Offset + 1 < Seg

---------------------------------------------------------------------------
\* A record of zeroes matches every address of ASID 0, and is invalid.
NoPage == [pfn |-> 0, dirty |-> FALSE, valid |-> FALSE]
NoEntry == [size |-> Pages, vpn2 |-> 0, global |-> FALSE, asid |-> 0, pg |-> <<NoPage, NoPage>>]
NoLo == [pfn |-> 0, d |-> FALSE, v |-> FALSE, g |-> FALSE]

r4k_set_pc(c, a) == [c EXCEPT !.pc = a, !.pc_next = Plus(a, 1)]

r4k_init ==
    [pc |-> 5 * Seg + ResetAt, pc_next |-> 5 * Seg + ResetAt + 1, excaddr |-> 0, branch |-> 0,
     status |-> [ie |-> FALSE, exl |-> FALSE, erl |-> TRUE, ksu |-> 0, im |-> {}, bev |-> TRUE, cu0 |-> FALSE, ts |-> FALSE],
     ip |-> {}, exccode |-> "Int", bd |-> FALSE, epc |-> 0, errorepc |-> 0, badvaddr |-> 0,
     index |-> [p |-> FALSE, n |-> 0], random |-> Entries - 1, wired |-> 0,
     entryhi |-> [vpn2 |-> 0, asid |-> 0], entrylo0 |-> NoLo, entrylo1 |-> NoLo, pagemask |-> 1,
     count |-> 0, compare |-> 0, watch |-> {}, waddr |-> 0, llbit |-> FALSE, lladdr |-> 0,
     tlb |-> [e \in 0 .. Entries - 1 |-> NoEntry], tlb_hint |-> 0, exc |-> "None", host |-> "runs"]

Init ==
    /\ cpu = r4k_init
    /\ prog \in DOMAIN Programs
    /\ did = [op |-> "reset", exc |-> "None"]
    /\ slot = NoAddr
    /\ frame = NoAddr
    /\ missed = NoAddr
    /\ linked = FALSE

---------------------------------------------------------------------------
\* Modes
CPU_USER_MODE(c) == c.status.ksu = 2 /\ ~c.status.exl /\ ~c.status.erl
CPU_SUPERVISOR_MODE(c) == c.status.ksu = 1 /\ ~c.status.exl /\ ~c.status.erl
CPU_KERNEL_MODE(c) == c.status.ksu = 0 \/ c.status.exl \/ c.status.erl
CP0_USABLE(c) == c.status.cu0 \/ CPU_KERNEL_MODE(c)

Return(c, e) == [c EXCEPT !.exc = e]
\* ASSERT(false): the simulator ends here.
Abort(c) == [c EXCEPT !.host = "abort"]

---------------------------------------------------------------------------
\* Address translation.  A conversion yields the processor, its exc, and
\* phys, the values *phys may have.
Matches(e, a, asid) == Vpn(a) \div (2 * e.size) = e.vpn2 /\ (e.global \/ e.asid = asid)
Subpage(e, a) == 1 + ((Vpn(a) \div e.size) % 2)
Frame(e, a) == ((e.pg[Subpage(e, a)].pfn \div e.size) * e.size) + (Vpn(a) % e.size)
Phys(e, a) == (Frame(e, a) * PageWords) + (a % PageWords)

\* The search starts at tlb_hint, and the hint becomes the distance searched.
tlb_look(c, a, wr) ==
    LET at(i) == c.tlb[(i + c.tlb_hint) % Entries]
        hits == {i \in 0 .. Entries - 1 : Matches(at(i), a, c.entryhi.asid)}
        i == CHOOSE h \in hits : \A g \in hits : h <= g
        page == at(i).pg[Subpage(at(i), a)]
    IN CASE c.status.ts -> [c |-> c, look |-> "OK", phys |-> Garbage]
         [] ~c.status.ts /\ hits = {} -> [c |-> c, look |-> "REFILL", phys |-> Garbage]
         [] OTHER -> IF ~page.valid THEN [c |-> c, look |-> "INVALID", phys |-> Garbage]
                     ELSE IF wr /\ ~page.dirty THEN [c |-> c, look |-> "MODIFIED", phys |-> Garbage]
                     ELSE [c |-> [c EXCEPT !.tlb_hint = i], look |-> "OK", phys |-> {Phys(at(i), a)}]

fill_tlb_error(c, a) == [c EXCEPT !.badvaddr = a, !.entryhi.vpn2 = Vpn(a) \div 2]
fill_addr_error(c, a) == [c EXCEPT !.badvaddr = a, !.entryhi.vpn2 = 0]

tlb_hit32(c, a, wr) ==
    LET r == tlb_look(c, a, wr)
        Failed(e) == [c |-> Return(fill_tlb_error(r.c, a), e), phys |-> r.phys]
    IN CASE r.look = "OK" -> [c |-> Return(r.c, "None"), phys |-> r.phys]
         [] r.look = "REFILL" -> Failed("TLBR")
         [] r.look = "INVALID" -> Failed("TLB")
         [] r.look = "MODIFIED" -> Failed("Mod")

Direct(c, phys) == [c |-> Return(c, "None"), phys |-> phys]
AddrError(c, a) == [c |-> Return(fill_addr_error(c, a), "AddrError"), phys |-> Garbage]

convert_addr_user32(c, a, wr) == IF a \in kuseg THEN tlb_hit32(c, a, wr) ELSE AddrError(c, a)
convert_addr_supervisor32(c, a, wr) == IF a \in kuseg \cup ksseg THEN tlb_hit32(c, a, wr) ELSE AddrError(c, a)
\* At the error level an address of kuseg is accepted and *phys never set.
convert_addr_kernel32(c, a, wr) ==
    CASE a \in kuseg /\ c.status.erl -> Direct(c, Garbage)
      [] a \in kseg0 -> Direct(c, {a - 4 * Seg})
      [] a \in kseg1 -> Direct(c, {a - 5 * Seg})
      [] OTHER -> tlb_hit32(c, a, wr)
r4k_convert_addr(c, a, wr) ==
    CASE CPU_USER_MODE(c) -> convert_addr_user32(c, a, wr)
      [] CPU_SUPERVISOR_MODE(c) -> convert_addr_supervisor32(c, a, wr)
      [] CPU_KERNEL_MODE(c) -> convert_addr_kernel32(c, a, wr)
      [] OTHER -> AddrError(c, a)

\* A watched access ends in the ASSERT(false) of the callers, whose switches
\* do not know the exception; at the exception level it is only noted.  The
\* result is one processor and physical address for each value of *phys.
access_mem(c, a, mode) ==
    LET r == r4k_convert_addr(c, a, mode = "write")
        watched(p) == mode \in c.watch /\ c.waddr = p \div 2
    IN {[c |-> IF watched(p) /\ ~c.status.exl THEN Abort(r.c) ELSE r.c, p |-> p] : p \in r.phys}

\* A write ends the tracking of the line that starts at lladdr.
r4k_sc_access(c, p) == [c EXCEPT !.llbit = @ /\ c.lladdr # p - (p % LineWords)]

ReadNames == [None |-> "None", AddrError |-> "AdEL", TLB |-> "TLBL", TLBR |-> "TLBLR"]
WriteNames == [None |-> "None", AddrError |-> "AdES", TLB |-> "TLBS", TLBR |-> "TLBSR", Mod |-> "Mod"]
cpu_read_mem(c, i) ==
    IF ~i.aligned THEN {[c |-> Return(fill_addr_error(c, i.a), "AdEL"), p |-> NoAddr]}
    ELSE {[c |-> Return(r.c, ReadNames[r.c.exc]), p |-> r.p] : r \in access_mem(c, i.a, "read")}
cpu_write_mem(c, i) ==
    IF ~i.aligned THEN {Return(fill_addr_error(c, i.a), "AdES")}
    ELSE {IF r.c.exc = "None" THEN r4k_sc_access(r.c, r.p) ELSE Return(r.c, WriteNames[r.c.exc]) :
              r \in access_mem(c, i.a, "write")}

---------------------------------------------------------------------------
\* The instructions.  Each yields the set of processors it may leave.
Usable(c, then) == IF CP0_USABLE(c) THEN Return(then, "None") ELSE Return(c, "CpU")

\* The page number in EntryHi is masked with the mask of the entry.
Probed_Exact(e, hi) == e.vpn2 * e.size = hi.vpn2 /\ (e.global \/ e.asid = hi.asid)
Probed(e, hi) == e.vpn2 = hi.vpn2 \div e.size /\ (e.global \/ e.asid = hi.asid)
TLBP(c) ==
    LET hits == {e \in 0 .. Entries - 1 : Probed(c.tlb[e], c.entryhi)}
    IN [c EXCEPT !.index = IF hits = {} THEN [p |-> TRUE, n |-> 0]
                           ELSE [p |-> FALSE, n |-> CHOOSE h \in hits : \A g \in hits : h <= g]]

EntryLo(page, g) == [pfn |-> page.pfn, d |-> page.dirty, v |-> page.valid, g |-> g]
LargestMask == CHOOSE k \in Masks : \A j \in Masks : j <= k
TLBR(c) ==
    LET e == c.tlb[c.index.n]
    IN IF c.index.n >= Entries
       THEN [c EXCEPT !.pagemask = 1, !.entryhi = [vpn2 |-> 0, asid |-> 0], !.entrylo0 = NoLo, !.entrylo1 = NoLo]
       ELSE [c EXCEPT !.pagemask = IF e.size \in Masks THEN e.size ELSE LargestMask,
                      !.entryhi = [vpn2 |-> e.vpn2 * e.size, asid |-> e.asid],
                      !.entrylo0 = EntryLo(e.pg[1], e.global), !.entrylo1 = EntryLo(e.pg[2], e.global)]

Page(lo) == [pfn |-> lo.pfn, dirty |-> lo.d, valid |-> lo.v]
TLBW(c, index) ==
    IF index >= Entries THEN c
    ELSE [c EXCEPT !.tlb[index] =
             [size |-> c.pagemask, vpn2 |-> c.entryhi.vpn2 \div c.pagemask,
              global |-> c.entrylo0.g /\ c.entrylo1.g, asid |-> c.entryhi.asid,
              pg |-> <<Page(c.entrylo0), Page(c.entrylo1)>>]]

SoftwareLines(ip, v) == (ip \ {0, 1}) \cup (v \cap {0, 1})

\* Random, BadVAddr, PRId, CacheErr and the reserved registers ignore the
\* value; nothing here reads Context, Config, LLAddr, ECC, TagLo and TagHi.
\* The operand is in the field its form calls for.
instr_mtc0(c, i) ==
    CASE i.reg = "Index" -> [c EXCEPT !.index = [p |-> FALSE, n |-> i.n % IndexSize]]
      [] i.reg = "EntryLo0" -> [c EXCEPT !.entrylo0 = i.lo]
      [] i.reg = "EntryLo1" -> [c EXCEPT !.entrylo1 = i.lo]
      [] i.reg = "PageMask" -> [c EXCEPT !.pagemask = IF i.n \in Masks THEN i.n ELSE 1]
      [] i.reg = "Wired" -> [c EXCEPT !.random = Entries - 1, !.wired = i.n % IndexSize]
      [] i.reg = "Count" -> [c EXCEPT !.count = i.n % CountSize]
      [] i.reg = "EntryHi" -> [c EXCEPT !.entryhi = i.hi]
      [] i.reg = "Compare" -> [c EXCEPT !.compare = i.n % CountSize, !.ip = @ \ {7}]
      [] i.reg = "Status" -> [c EXCEPT !.status = i.status]
      [] i.reg = "Cause" -> [c EXCEPT !.ip = SoftwareLines(@, i.ip)]
      [] i.reg = "EPC" -> [c EXCEPT !.epc = i.n]
      [] i.reg = "ErrorEPC" -> [c EXCEPT !.errorepc = i.n]
      [] i.reg = "WatchLo" -> [c EXCEPT !.watch = i.rw, !.waddr = i.paddr]
      [] i.reg = "XContext" -> Abort(c)
      [] OTHER -> c

instr_eret_KeepsLink(c) ==
    IF c.status.erl THEN [c EXCEPT !.pc_next = c.errorepc, !.status.erl = FALSE]
    ELSE [c EXCEPT !.pc_next = c.epc, !.status.exl = FALSE]
instr_eret(c) ==
    IF c.status.erl THEN [c EXCEPT !.llbit = FALSE, !.pc_next = c.errorepc, !.status.erl = FALSE]
    ELSE [c EXCEPT !.llbit = FALSE, !.pc_next = c.epc, !.status.exl = FALSE]

\* LL and SC convert the address a second time for the tracking.
Again(c, a) == [c EXCEPT !.tlb_hint = r4k_convert_addr(c, a, FALSE).c.tlb_hint]
instr_ll(c, i) ==
    UNION {IF r.c.exc # "None" THEN {[r.c EXCEPT !.llbit = FALSE]}
           ELSE {[Again(r.c, i.a) EXCEPT !.llbit = TRUE, !.lladdr = p] : p \in r4k_convert_addr(r.c, i.a, FALSE).phys} :
               r \in cpu_read_mem(c, i)}
\* The result, 1 if the write was done, is not modelled: it is c.llbit.
instr_sc(c, i) ==
    IF ~c.llbit THEN {Return(c, "None")}
    ELSE {[(IF d.exc = "None" THEN Again(d, i.a) ELSE d) EXCEPT !.llbit = FALSE] : d \in cpu_write_mem(c, i)}

\* "branch" stands for the jumps and the branches that are taken, "skip" for
\* a likely branch that is not, "raise" for the instructions that end in an
\* exception of their own, "other" for those that change nothing modelled.
fnc(c, i) ==
    CASE i.op = "branch" -> {Return([c EXCEPT !.pc_next = i.to, !.branch = 2], "Jump")}
      [] i.op = "skip" -> {Return([c EXCEPT !.pc_next = Plus(@, 1)], "None")}
      [] i.op = "raise" -> {Return(c, i.exc)}
      [] i.op = "load" -> {r.c : r \in cpu_read_mem(c, i)}
      [] i.op = "store" -> cpu_write_mem(c, i)
      [] i.op = "ll" -> instr_ll(c, i)
      [] i.op = "sc" -> instr_sc(c, i)
      [] i.op = "mfc0" -> {Usable(c, c)}
      [] i.op = "mtc0" -> {Usable(c, instr_mtc0(c, i))}
      [] i.op = "tlbp" -> {Usable(c, TLBP(c))}
      [] i.op = "tlbr" -> {Usable(c, TLBR(c))}
      [] i.op = "tlbwi" -> {Usable(c, TLBW(c, c.index.n))}
      [] i.op = "tlbwr" -> {Usable(c, TLBW(c, c.random))}
      [] i.op = "eret" -> {Usable(c, instr_eret(c))}
      [] i.op = "other" -> {Return(c, "None")}

---------------------------------------------------------------------------
\* What a guest is made of.
Statuses == [ie : BOOLEAN, exl : BOOLEAN, erl : BOOLEAN, ksu : 0 .. 3, im : SUBSET (0 .. 7),
             bev : BOOLEAN, cu0 : BOOLEAN, ts : BOOLEAN]
EntryLos == [pfn : Nat, d : BOOLEAN, v : BOOLEAN, g : BOOLEAN]
EntryHis == [vpn2 : Nat, asid : Nat]
Accesses == {"load", "store", "ll", "sc"}
Operations == Accesses \cup {"branch", "skip", "raise", "mfc0", "mtc0", "tlbp", "tlbr", "tlbwi", "tlbwr",
                             "eret", "other"}
Numbers == {"Index", "PageMask", "Wired", "Count", "Compare"}
Registers == Numbers \cup {"EntryLo0", "EntryLo1", "EntryHi", "Status", "Cause", "EPC", "ErrorEPC",
                           "WatchLo", "XContext", "Random"}
Legal(i) ==
    /\ i.op \in Operations
    /\ i.op = "branch" => i.to \in Addresses
    /\ i.op = "raise" => i.exc \in {"Sys", "Bp", "RI", "CpU", "Ov", "Tr"}
    /\ i.op \in Accesses => i.a \in Addresses /\ i.aligned \in BOOLEAN
    /\ i.op = "mtc0" =>
         /\ i.reg \in Registers
         /\ i.reg \in Numbers => i.n \in Nat
         /\ i.reg \in {"EPC", "ErrorEPC"} => i.n \in Addresses
         /\ i.reg \in {"EntryLo0", "EntryLo1"} => i.lo \in EntryLos
         /\ i.reg = "EntryHi" => i.hi \in EntryHis
         /\ i.reg = "Status" => i.status \in Statuses
         /\ i.reg = "Cause" => i.ip \subseteq 0 .. 7
         /\ i.reg = "WatchLo" => i.rw \subseteq {"read", "write"} /\ i.paddr \in Nat

ASSUME Guests ==
    \A g \in DOMAIN Programs :
       /\ \A p \in DOMAIN Programs[g].text : \A i \in Programs[g].text[p] : Legal(i)
       /\ Programs[g].lines \subseteq 0 .. 7 /\ Programs[g].snoop \subseteq Nat

---------------------------------------------------------------------------
\* Exceptions
Vectors == {4 * Seg, 4 * Seg + Offset, 5 * Seg + BootBase, 5 * Seg + BootBase + Offset}
Refills == {"TLBLR", "TLBSR"}
Exccode(e) == CASE e = "TLBLR" -> "TLBL" [] e = "TLBSR" -> "TLBS" [] OTHER -> e

Vector_General(c, e) == Offset + (IF c.status.bev THEN 5 * Seg + BootBase ELSE 4 * Seg)
Vector(c, e) ==
    (IF c.status.bev THEN 5 * Seg + BootBase ELSE 4 * Seg)
        + (IF c.status.exl \/ e \notin Refills THEN Offset ELSE 0)
\* Where ERET resumes: before the branch if pc is in its slot.
Epc_InSlot(c, e) == IF e = "Int" THEN c.pc ELSE c.excaddr
Epc(c, e) == IF e = "Int" /\ c.branch # 2 THEN c.pc ELSE c.excaddr
handle_exception(c, e) ==
    r4k_set_pc([c EXCEPT !.exccode = Exccode(e), !.bd = c.branch = 1,
                         !.epc = IF c.status.exl THEN @ ELSE Epc(c, e), !.status.exl = TRUE],
               Vector(c, e))

\* The exception of a step: the instruction's own, or an enabled interrupt.
Cause(c) ==
    IF /\ c.exc = "None" /\ ~c.status.exl /\ ~c.status.erl /\ c.status.ie
       /\ c.ip \cap c.status.im # {}
    THEN "Int" ELSE c.exc

\* Random counts down to Wired and starts again at the last entry.
Down(c) == IF c.random = 0 THEN Entries - 1 ELSE c.random - 1
Random_IgnoresWired(c) == Down(c)
Random(c) == IF Down(c) < c.wired THEN Entries - 1 ELSE Down(c)
manage(c) ==
    LET d == IF Cause(c) = "None" THEN c ELSE handle_exception(c, Cause(c))
        count == (d.count + 1) % CountSize
    IN [d EXCEPT !.count = count, !.random = Random(d),
                 !.ip = IF count = d.compare THEN @ \cup {7} ELSE @,
                 !.branch = IF @ > 0 THEN @ - 1 ELSE 0]

\* What execute leaves when the conversion of pc fails, and after the
\* instruction.
FetchFault(c) ==
    [c EXCEPT !.excaddr = IF c.branch = 0 THEN c.pc ELSE @, !.exc = ReadNames[c.exc]]
Advance(c) ==
    LET d == [c EXCEPT !.excaddr = IF c.branch # 1 THEN c.pc ELSE @]
    IN IF c.exc = "Jump" THEN [d EXCEPT !.exc = "None", !.pc = Plus(@, 1)]
       ELSE [d EXCEPT !.pc = c.pc_next, !.pc_next = Plus(c.pc_next, 1)]

---------------------------------------------------------------------------
(***************************************************************************)
(* Steps, with their history.  c is the processor after execute: pc is     *)
(* the next instruction, and its branch if that is in a delay slot is      *)
(* next.  exact says that execute saw where the exception was.             *)
(***************************************************************************)
Name(i) == IF i.op = "mtc0" THEN i.reg ELSE i.op
Resume(c, e, next, exact) ==
    IF e = "Int" THEN IF next = NoAddr THEN c.pc ELSE next
    ELSE IF ~exact THEN NoAddr ELSE IF slot = NoAddr THEN cpu.pc ELSE slot
Finish(c, i, next, exact) ==
    LET e == Cause(c) IN
    /\ cpu' = [manage(c) EXCEPT !.exc = "None"]
    /\ did' = [op |-> Name(i), exc |-> e]
    /\ slot' = IF e = "None" THEN next ELSE NoAddr
    /\ frame' = IF e # "None" /\ ~c.status.exl THEN Resume(c, e, next, exact)
                ELSE IF e = "None" /\ Name(i) \in {"eret", "EPC", "Status"} THEN NoAddr
                ELSE frame
    /\ missed' = IF e \in Refills THEN c.badvaddr
                 ELSE IF c.entryhi # cpu.entryhi THEN NoAddr ELSE missed
    /\ linked' = IF c.exc = "None" THEN i.op = "ll" \/ (linked /\ i.op \notin {"sc", "eret"}) ELSE linked
    /\ UNCHANGED prog

r4k_step ==
    /\ cpu.host = "runs"
    /\ LET f == r4k_convert_addr(cpu, cpu.pc, FALSE) IN
       \/ /\ f.c.exc # "None"
          /\ Finish(FetchFault(f.c), [op |-> "fetch"], NoAddr, TRUE)
       \/ /\ f.c.exc = "None"
          /\ f.phys \ DOMAIN Text # {}
          /\ Finish(Return(f.c, "AdEL"), [op |-> "outside"], NoAddr, FALSE)
       \/ /\ f.c.exc = "None"
          /\ \E p \in f.phys \cap DOMAIN Text : \E i \in Text[p] : \E d \in fnc(f.c, i) :
                IF d.host # "runs" THEN cpu' = Abort(cpu) /\ UNCHANGED <<prog, did, slot, frame, missed, linked>>
                ELSE Finish(Advance(d), i, IF d.exc = "Jump" THEN cpu.pc ELSE NoAddr, TRUE)

r4k_interrupt_up(no) ==
    /\ cpu.host = "runs"
    /\ cpu' = [cpu EXCEPT !.ip = @ \cup {no}]
    /\ UNCHANGED <<prog, did, slot, frame, missed, linked>>
r4k_interrupt_down(no) ==
    /\ cpu.host = "runs"
    /\ cpu' = [cpu EXCEPT !.ip = @ \ {no}]
    /\ UNCHANGED <<prog, did, slot, frame, missed, linked>>
\* Another processor or a device writes to physical address p.
Snoop(p) ==
    /\ cpu.host = "runs"
    /\ cpu' = r4k_sc_access(cpu, p)
    /\ UNCHANGED <<prog, did, slot, frame, missed, linked>>

Next ==
    \/ r4k_step
    \/ \E no \in Programs[prog].lines : r4k_interrupt_up(no) \/ r4k_interrupt_down(no)
    \/ \E p \in Programs[prog].snoop : Snoop(p)

\* The machine steps every processor in turn while the simulator runs
\* (r4k_step is enabled then).
Fairness == []<>(cpu.host # "runs") \/ []<><<r4k_step>>_vars

Spec == Init /\ [][Next]_vars /\ Fairness

---------------------------------------------------------------------------
(***************************************************************************)
(* Properties                                                              *)
(***************************************************************************)
Stepped == cpu'.count # cpu.count \/ did' # did

\* The processor's registers stay in their ranges: Random names an entry,
\* the branch state is one of the three, and what waits is a known line.
TypeOK ==
    /\ cpu.pc \in Addresses /\ cpu.pc_next \in Addresses /\ cpu.epc \in Addresses
    /\ cpu.random \in 0 .. Entries - 1 /\ cpu.tlb_hint \in 0 .. Entries - 1
    /\ cpu.branch \in {0, 1} /\ cpu.ip \subseteq 0 .. 7
    /\ cpu.count \in 0 .. CountSize - 1

\* What an exception interrupts is kept.  The ERET that ends a handler which
\* left EPC alone resumes at the interrupted instruction, or at the branch if
\* that instruction was in a delay slot, whatever exceptions the handler itself
\* met on the way (EPC in handle_exception, excaddr and branch in execute).
\* User mode without the coprocessor changes no privileged state, and leaves
\* for kernel mode through an exception vector only.  And the timer interrupt
\* stays until Compare is written: no other write to Cause, no exception and no
\* interrupt taken on the way drops it, unless a device shares its line (manage,
\* instr_mtc0).
Privileged(c) == <<c.tlb, c.status, c.epc, c.errorepc, c.entryhi, c.entrylo0, c.entrylo1, c.pagemask,
                   c.wired, c.index, c.compare, c.watch>>
ExceptionsExact ==
    [][/\ did'.op = "eret" /\ did'.exc = "None" /\ Stepped /\ frame # NoAddr /\ ~cpu.status.erl
            => cpu'.pc = frame
       /\ CPU_USER_MODE(cpu) /\ ~cpu.status.cu0 /\ cpu'.host = "runs"
            => IF CPU_USER_MODE(cpu') THEN Privileged(cpu') = Privileged(cpu)
               ELSE cpu'.pc \in Vectors /\ cpu'.tlb = cpu.tlb
       /\ 7 \in cpu.ip /\ 7 \notin cpu'.ip /\ 7 \notin Programs[prog].lines => Stepped /\ did'.op = "Compare"]_vars

\* TLBWR never replaces a wired entry, whenever Wired is written and whatever
\* Random was then (manage).  And after a TLB refill exception EntryHi describes
\* the page that missed: a TLBWR that finds EntryHi as the exception left it
\* makes the address hit, for every page size (fill_tlb_error, TLBW, tlb_look).
TlbwrSafe ==
    [][Stepped /\ did'.op = "tlbwr" =>
         /\ cpu.wired < Entries => \A e \in 0 .. cpu.wired - 1 : cpu'.tlb[e] = cpu.tlb[e]
         /\ did'.exc = "None" /\ missed # NoAddr => tlb_look(cpu', missed, FALSE).look # "REFILL"]_vars

\* The instructions on the TLB agree with the translation and with each other:
\* TLBP finds the page in EntryHi exactly if an access to it would, for every mix
\* of page sizes (TLBP, tlb_look); and reading an entry with TLBR and writing it
\* back with TLBWI restores it, once it has been written at all.  Random and
\* the hint stay indices of entries.
TlbInstructionsAgree ==
    /\ TypeOK
    /\ did.op = "tlbp" /\ did.exc = "None"
       => (cpu.index.p <=> tlb_look([cpu EXCEPT !.status.ts = FALSE],
                                    cpu.entryhi.vpn2 * 2 * PageWords, FALSE).look = "REFILL")
    /\ \A e \in 0 .. Entries - 1 :
          cpu.tlb[e].size \in Masks
          => TLBW(TLBR([cpu EXCEPT !.index.n = e]), e).tlb[e] = cpu.tlb[e]

\* An SC can succeed only if its LL was not followed by an SC or an ERET
\* (instr_eret, instr_sc, r4k_sc_access).
LinkFresh == cpu.llbit => linked
=============================================================================
