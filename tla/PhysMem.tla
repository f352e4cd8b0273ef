------------------------------- MODULE PhysMem -------------------------------
(***************************************************************************)
(* Physical memory as all processors and devices share it (physmem.c,     *)
(* device/mem.c), with the two things every store has to keep right:       *)
(*                                                                         *)
(*  - the reservations of LR/SC and LL/SC: sc_list in physmem.c, and the   *)
(*    reserved address and flag of each processor (mem_ops.c for RISC-V,   *)
(*    instr/ll.c, sc.c, lld.c, scd.c, eret.c for MIPS);                    *)
(*  - the decoded-instruction caches, one list per processor architecture, *)
(*    refreshed when the frame's valid bit is off.                         *)
(*                                                                         *)
(* Addresses count 32-bit words.  Accesses have width 1 or, aligned, 2;    *)
(* narrower stores touch the same word for all that is modelled here.      *)
(***************************************************************************)
EXTENDS Integers, FiniteSets

CONSTANTS
    Frames,      \* number of frames of the address space
    FrameWords,  \* words of a frame (1024)
    LineWords,   \* words of the cache line r4k_sc_access aligns to (16)
    Val, Zero,   \* contents of a word; the contents of fresh memory
    Rom,         \* frames whose area is not writable
    Harts,       \* processors
    Arch,        \* their architecture: "rv32", "rv64" or "r4k"
    Fetchers     \* architectures that execute, and so decode, instructions

ASSUME MemConstants ==
    /\ Frames \in Nat \ {0} /\ LineWords \in Nat \ {0}
    /\ FrameWords \in Nat \ {0} /\ FrameWords % 2 = 0
    /\ Zero \in Val /\ Rom \subseteq 0 .. Frames - 1
    /\ Arch \in [Harts -> {"rv32", "rv64", "r4k"}]

VARIABLES
    wired,      \* frames with a frame_t
    mem,        \* contents
    valid,      \* frames whose valid bit is set
    cache,      \* decoded frames, per architecture
    scList,     \* sc_list
    resValid,   \* reserved_valid, llbit
    resAddr,    \* reserved_addr, lladdr
    resWidth,   \* history: words the last LR or LL of the processor read
    broken      \* history: some store hit those words since

resVars == <<scList, resValid, resAddr, resWidth, broken>>
memVars == <<wired, mem, valid, cache, scList, resValid, resAddr, resWidth, broken>>

Addr     == 0 .. (Frames * FrameWords) - 1
AllFrames == 0 .. Frames - 1
FrameOf(a) == a \div FrameWords
Content(m, f) == [i \in 0 .. FrameWords - 1 |-> m[(f * FrameWords) + i]]
NotCached == [i \in {} |-> Zero]

Aligned(a, w) == a % w = 0 /\ a + w - 1 \in Addr
Overlap(b1, s1, b2, s2) ==
    (b1 >= b2 /\ b1 < b2 + s2) \/ (b2 >= b1 /\ b2 < b1 + s1)

MemInit ==
    /\ wired = {} /\ valid = {}
    /\ mem = [a \in Addr |-> Zero]
    /\ cache = [x \in Fetchers |-> [f \in AllFrames |-> NotCached]]
    /\ scList = {}
    /\ resValid = [h \in Harts |-> FALSE] /\ resAddr = [h \in Harts |-> 0]
    /\ resWidth = [h \in Harts |-> 1] /\ broken = [h \in Harts |-> FALSE]

(***************************************************************************)
(* The store path                                                          *)
(***************************************************************************)
AlignDown(a, n) == a - (a % n)

ScAccess_Exact(h, a, w) == resAddr[h] = a

(* rv_sc_access compares with a reservation of four bytes, r4k_sc_access the
   tracked address itself with the line of the store. *)
ScAccess(h, a, w) ==
    IF Arch[h] = "r4k" THEN resAddr[h] = AlignDown(a, LineWords)
    ELSE Overlap(resAddr[h], 1, a, w)

(* physmem_write32 and physmem_write64 on a writable frame, with sc_control
   for the processors of list. *)
Hits(list, a, w) == {h \in list : ScAccess(h, a, w)}

StoreTo(list, flags, a, w, v) ==
    LET hits == Hits(list, a, w)
    IN  /\ scList' = list \ hits
        /\ resValid' = [h \in Harts |-> flags[h] /\ h \notin hits]
        /\ broken' = [h \in Harts |-> broken[h] \/ Overlap(resAddr[h], resWidth[h], a, w)]
        /\ valid' = valid \ {FrameOf(a)}
        /\ mem' = [x \in Addr |-> IF x \in a .. a + w - 1 THEN v ELSE mem[x]]

Writable(a) == FrameOf(a) \in wired \ Rom

Store_KeepsValid(a, w, v) ==
    /\ Aligned(a, w) /\ Writable(a)
    /\ scList' = scList \ Hits(scList, a, w)
    /\ resValid' = [h \in Harts |-> resValid[h] /\ h \notin Hits(scList, a, w)]
    /\ broken' = [h \in Harts |-> broken[h] \/ Overlap(resAddr[h], resWidth[h], a, w)]
    /\ mem' = [x \in Addr |-> IF x \in a .. a + w - 1 THEN v ELSE mem[x]]
    /\ UNCHANGED <<valid, wired, cache, resAddr, resWidth>>

(* A store of a processor or a device.  Outside wired memory it goes to the
   devices and on ROM it is refused: nothing changes here. *)
Store(a, w, v) ==
    /\ Aligned(a, w) /\ Writable(a)
    /\ StoreTo(scList, resValid, a, w, v)
    /\ UNCHANGED <<wired, cache, resAddr, resWidth>>

(***************************************************************************)
(* Reservations                                                            *)
(***************************************************************************)
Reserve(h, a, w) ==
    /\ scList' = scList \cup {h}
    /\ resValid' = [resValid EXCEPT ![h] = TRUE]
    /\ resAddr' = [resAddr EXCEPT ![h] = a]
    /\ resWidth' = [resWidth EXCEPT ![h] = w]
    /\ broken' = [broken EXCEPT ![h] = FALSE]
    /\ UNCHANGED <<wired, mem, valid, cache>>

Unreserve_FlagOnly(h) ==
    /\ resValid' = [resValid EXCEPT ![h] = FALSE]
    /\ UNCHANGED <<wired, mem, valid, cache, scList, resAddr, resWidth, broken>>

Unreserve(h) ==
    /\ scList' = scList \ {h}
    /\ resValid' = [resValid EXCEPT ![h] = FALSE]
    /\ UNCHANGED <<wired, mem, valid, cache, resAddr, resWidth, broken>>

Widths(h) == IF Arch[h] = "rv32" THEN {1} ELSE {1, 2}

(* rv_lr_w_instr, rv_lr_instr, instr_ll, instr_lld: the read succeeds, or
   faults and cancels the reservation. *)
LoadReserved(h, a, w) == w \in Widths(h) /\ Aligned(a, w) /\ Reserve(h, a, w)
LoadReservedFault(h) == Unreserve(h)

(* rv_sc_w_instr and rv_sc_instr.  Without a reservation nothing happens.
   Otherwise the reservation is dropped first; the store then fails to
   translate, is not at the reserved address, is refused by ROM or nobody's
   memory, or is done. *)
RvScStore(h, a, w, v) ==
    /\ Arch[h] # "r4k" /\ resValid[h] /\ w \in Widths(h) /\ Aligned(a, w)
    /\ a = resAddr[h] /\ Writable(a)
    /\ StoreTo(scList \ {h}, [resValid EXCEPT ![h] = FALSE], a, w, v)
    /\ UNCHANGED <<wired, cache, resAddr, resWidth>>

RvScFail(h) == Arch[h] # "r4k" /\ resValid[h] /\ Unreserve(h)

(* instr_sc and instr_scd: the store comes first, at whatever address the
   instruction names ("we are too polite"), and drops the reservation. *)
R4kScStore(h, a, w, v) ==
    /\ Arch[h] = "r4k" /\ resValid[h] /\ w \in Widths(h) /\ Aligned(a, w) /\ Writable(a)
    /\ StoreTo(scList \ {h}, [resValid EXCEPT ![h] = FALSE], a, w, v)
    /\ UNCHANGED <<wired, cache, resAddr, resWidth>>

R4kScFail(h) == Arch[h] = "r4k" /\ resValid[h] /\ Unreserve(h)

Eret(h) == Arch[h] = "r4k" /\ Unreserve(h)

(***************************************************************************)
(* Instruction fetch (fetch_instr of rv32, rv64 and r4k,                   *)
(* sh2e_cpu_fetch_insn_func): a cached frame is decoded again when its     *)
(* valid bit is off, a frame that is not cached is decoded and added.      *)
(***************************************************************************)
Fetch(x, f) ==
    /\ f \in wired
    /\ IF cache[x][f] # NotCached /\ f \in valid THEN UNCHANGED <<cache, valid>>
       ELSE /\ cache' = [cache EXCEPT ![x][f] = Content(mem, f)]
            /\ valid' = valid \cup {f}
    /\ UNCHANGED <<wired, mem, resVars>>

(***************************************************************************)
(* Console: mem_generic and mem_fmap establish an area; mem_fill and       *)
(* mem_load overwrite its bytes directly.                                  *)
(***************************************************************************)

Wire(f) ==
    /\ f \notin wired
    /\ wired' = wired \cup {f} /\ valid' = valid \ {f}
    /\ mem' = [a \in Addr |-> IF FrameOf(a) = f THEN Zero ELSE mem[a]]
    /\ UNCHANGED <<cache, resVars>>

Fill(f, v) ==
    /\ f \in wired
    /\ mem' = [a \in Addr |-> IF FrameOf(a) = f THEN v ELSE mem[a]]
    /\ UNCHANGED <<wired, valid, cache, resVars>>

HartStep(h) ==
    \/ \E a \in Addr, w \in 1 .. 2 : LoadReserved(h, a, w)
    \/ LoadReservedFault(h)
    \/ \E a \in Addr, w \in 1 .. 2, v \in Val : RvScStore(h, a, w, v) \/ R4kScStore(h, a, w, v)
    \/ RvScFail(h)
    \/ R4kScFail(h)
    \/ Eret(h)

Run ==
    \/ \E a \in Addr, w \in 1 .. 2, v \in Val : Store(a, w, v)
    \/ \E h \in Harts : HartStep(h)
    \/ \E x \in Fetchers, f \in AllFrames : Fetch(x, f)
    \/ \E f \in AllFrames : Wire(f)

MemNext == Run \/ \E f \in AllFrames, v \in Val : Fill(f, v)

(* MemSpec is the machine with its console; RunSpec one in which nobody uses
   fill and load after the simulation has started. *)
MemSpec    == MemInit /\ [][MemNext]_memVars
RunSpec == MemInit /\ [][Run]_memVars

(***************************************************************************)
(* Properties                                                              *)
(***************************************************************************)
(* Every field has a value of its type. *)
MemTypeOK ==
    /\ wired \subseteq AllFrames /\ valid \subseteq AllFrames
    /\ mem \in [Addr -> Val]
    /\ cache \in [Fetchers -> [AllFrames -> {NotCached} \cup [0 .. FrameWords - 1 -> Val]]]
    /\ scList \subseteq Harts
    /\ resValid \in [Harts -> BOOLEAN] /\ resAddr \in [Harts -> Addr]
    /\ resWidth \in [Harts -> 1 .. 2] /\ broken \in [Harts -> BOOLEAN]

(* sc_list and the processors' own flags, kept in two places by nine
   handlers, agree: sc_control therefore reaches every live reservation and
   no processor is listed without one. *)
ScListExact == scList = {h \in Harts : resValid[h]}

(* An RV32 reservation that is still valid has not been written since its
   LR, by any processor or device, so an SC.W that succeeds is atomic. *)
Rv32Atomic == \A h \in Harts : Arch[h] = "rv32" /\ resValid[h] => ~broken[h]

(* cpu.c of r4k_sc_access: "MIPS R4K SC fails on write to whole cache line". *)
R4kAtomic == \A h \in Harts : Arch[h] = "r4k" /\ resValid[h] => ~broken[h]

(* rv32 cpu.c of update_cache_item: "Updates the cache item to represent the
   data in memory"; whatever fetch_instr returns is decoded from what the
   frame holds now. *)
FetchFresh ==
    \A x \in Fetchers, f \in AllFrames :
        f \in valid /\ cache[x][f] # NotCached => cache[x][f] = Content(mem, f)
=============================================================================
