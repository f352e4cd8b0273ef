-------------------------------- MODULE RvCsr -------------------------------
(***************************************************************************)
(* The control and status registers of the RISC-V processors:              *)
(* src/device/cpu/riscv_rv_ima/csr.c, compiled once for XLEN 32 and once    *)
(* for 64.                                                                 *)
(*                                                                         *)
(* A register is the set of the positions of its one bits, so a mask is a  *)
(* set and masking an intersection.  The 64-bit counters are scaled down   *)
(* to two halves of Half bits.  Every routine takes the hart h, a record,  *)
(* and returns it changed; the exception it returns is left in h.exc, and  *)
(* what a read routine stores through its pointer in h.target.  The four   *)
(* routines of a register (read, write, set and clear) are one operator    *)
(* with the routine's name in op.                                          *)
(***************************************************************************)
EXTENDS Integers, FiniteSets, FiniteSetsExt

CONSTANTS
    Xlen,   \* 32 or 64
    Half,   \* bits in a half of a counter: 32, scaled down
    Hpm     \* the performance counters there are: 3 .. 31, or some of them

ASSUME RvCsrAssumption ==
    /\ Xlen \in {32, 64}
    /\ Half \in Nat \ {0}
    /\ Hpm \subseteq 3 .. 31

rv_umode == 0
rv_smode == 1
rv_mmode == 3

none == 24
illegal_instruction == 2

---------------------------------------------------------------------------
\* Bit positions, and the masks made of them.
SIE == 1
MIE == 3
SPIE == 5
MPIE == 7
SPP == 8
MPP == {11, 12}
MPRV == 17
SUM == 18
MXR == 19
TVM == 20
TW == 21
TSR == 22
sstatus_mask == {MXR, SUM, SPP, SPIE, SIE}
mstatus_mask == sstatus_mask \cup {TSR, TW, TVM, MPRV, MPIE, MIE} \cup MPP

SSI == 1
MSI == 3
STI == 5
MTI == 7
SEI == 9
MEI == 11
si_mask == {SEI, STI, SSI}
mi_mask == si_mask \cup {MEI, MTI, MSI}

Bits32 == 0 .. 31
Bits == 0 .. Xlen - 1
High == 32 .. 63

satp_mode == Xlen - 1
satp_ppn_mask == IF Xlen = 32 THEN 0 .. 21 ELSE 0 .. 43
satp_asid_offset == IF Xlen = 32 THEN 22 ELSE 44

\* What number a privilege mode is in a two-bit field at bit 0.
Field(priv) == (IF priv % 2 = 1 THEN {0} ELSE {}) \cup (IF priv \div 2 = 1 THEN {1} ELSE {})
mpp(h) == (IF 11 \in h.mstatus THEN 1 ELSE 0) + (IF 12 \in h.mstatus THEN 2 ELSE 0)
spp(h) == IF SPP \in h.mstatus THEN rv_smode ELSE rv_umode
ReservedMpp(word) == word \cap MPP = {12}

---------------------------------------------------------------------------
\* Numbers as sets of bits: the successor and the order of w-bit words.
Inc(word, w) ==
    LET zeros == (0 .. w - 1) \ word
        z == Min(zeros)
    IN IF zeros = {} THEN {} ELSE (word \ (0 .. z)) \cup {z}
AtLeast(a, b) == a = b \/ Max((a \ b) \cup (b \ a)) \in a

\* A uxlen_t on the scale of the counters, and the two halves.
UXbits == 0 .. (IF Xlen = 32 THEN Half ELSE 2 * Half) - 1
LowHalf == 0 .. Half - 1
HighHalf == Half .. 2 * Half - 1
ShiftUp(word) == {b + Half : b \in word \cap LowHalf}
ExtractHalf(word, high) == {b \in LowHalf : (IF high THEN b + Half ELSE b) \in word}

---------------------------------------------------------------------------
Illegal(h) == [h EXCEPT !.exc = illegal_instruction]
minimal_privilege(priv, h, result) == IF h.priv < priv THEN Illegal(h) ELSE result
Target(h, value) == [h EXCEPT !.target = value]
Apply(op, old, value) ==
    CASE op = "write" -> value
      [] op = "set" -> old \cup value
      [] op = "clear" -> old \ value

\* The routines of a register that holds the bits of mask.
Masked(h, op, value, priv, reg, mask) ==
    minimal_privilege(priv, h,
        IF op = "read" THEN Target(h, h[reg])
        ELSE [h EXCEPT ![reg] = Apply(op, @, value \cap mask)])
default_csr_functions(h, op, value, priv, reg) == Masked(h, op, value, priv, reg, Bits)

\* A register whose writes have no effect.
Fixed(h, op, value) == minimal_privilege(rv_mmode, h, IF op = "read" THEN Target(h, value) ELSE h)
\* A register that can only be read.
ReadOnly(h, op, value) == IF op = "read" THEN Fixed(h, op, value) ELSE Illegal(h)

---------------------------------------------------------------------------
\* Counters.  A counter's number is the low five bits of the CSR's, bit 7
\* tells the upper half, bits 8 and 9 the privilege.
min_priv_mode(csr) == (csr \div 256) % 4
CounterOf(csr) == csr % 32
is_high_counter(csr) == (csr \div 128) % 2 = 1
csr_mcycle == \hB00
csr_minstret == \hB02
IsCounter(csr) ==
    /\ CounterOf(csr) \in 0 .. 2 \cup Hpm
    /\ csr \div 128 \in {24, 25, 22, 23} /\ (csr \div 32) % 4 = 0
    /\ csr \notin {\hB01, \hB81}

\* 1 << csr * 0x1F, as the host shifts: the count is taken modulo 32, and
\* an int with bit 31 set is sign-extended to the register's width.
EnableBits(csr) == LET b == (csr * 31) % 32 IN IF b = 31 THEN 31 .. Xlen - 1 ELSE {b}

read_counter_csr_unchecked(h, csr) ==
    LET n == CounterOf(csr)
        counter == CASE n = 0 -> h.cycle
                     [] n = 1 -> h.mtime
                     [] n = 2 -> h.instret
                     [] OTHER -> h.hpmcounters[n]
    IN Target(h, ExtractHalf(counter, is_high_counter(csr)))

counter_read(h, csr) ==
    LET enabled_m == EnableBits(csr) \cap h.mcounteren # {}
        enabled_s == EnableBits(csr) \cap h.scounteren # {}
        allowed == IF min_priv_mode(csr) = rv_mmode THEN h.priv = rv_mmode
                   ELSE /\ h.priv = rv_smode => enabled_m
                        /\ h.priv = rv_umode => enabled_m /\ enabled_s
    IN IF allowed THEN read_counter_csr_unchecked(h, csr) ELSE Illegal(h)

\* A write keeps the other half; its value is not cut to the half it is for.
Counter(op, old, value, high) ==
    LET val == IF high THEN ShiftUp(value) ELSE value \cap UXbits
    IN Apply(op, old, IF op # "write" THEN val
                      ELSE (old \cap (IF high THEN LowHalf ELSE HighHalf)) \cup val)
\* Only mcycle and minstret are told apart from hpmcounters[counter - 3]:
\* minstreth is hpmcounters[-1], which is instret, and mcycleh is
\* hpmcounters[-3], which is the last of the general registers.
counter_write(h, csr, op, value) ==
    LET n == CounterOf(csr)
        New(old) == Counter(op, old, value, is_high_counter(csr))
        cycle == New(h.cycle)
        seen == IF op = "clear" THEN cycle ELSE cycle \cap UXbits
    IN minimal_privilege(rv_mmode, h,
         CASE min_priv_mode(csr) # rv_mmode \/ n = 1 -> Illegal(h)
           [] csr = csr_mcycle -> [h EXCEPT !.cycle = cycle,
                                            !.external_STIP = AtLeast(seen, h.scyclecmp)]
           [] n = 2 -> [h EXCEPT !.instret = New(@)]
           [] n = 0 -> [h EXCEPT !.x31 = IF Xlen = 32 THEN Apply(op, @, value \cap UXbits) ELSE New(@)]
           [] OTHER -> [h EXCEPT !.hpmcounters[n] = New(@)])

mcountinhibit(h, op, value) == Masked(h, op, value, rv_mmode, "mcountinhibit", Bits32 \ {1})

\* The events are the numbers below 6; set and clear compare a signed int.
IsEvent(word) == word \subseteq 0 .. 2 /\ ~({1, 2} \subseteq word)
mhpmevent(h, csr, op, value) ==
    LET n == CounterOf(csr)
        old == h.hpmevents[n]
        val == Apply(op, old, value)
        int == (val \cap Bits32) \cup (IF 31 \in val THEN Bits \ Bits32 ELSE {})
    IN minimal_privilege(rv_mmode, h,
         CASE op = "read" -> Target(h, old)
           [] op = "write" -> IF IsEvent(value) THEN [h EXCEPT !.hpmevents[n] = value] ELSE h
           [] OTHER -> IF IsEvent(int) \/ 31 \in int THEN [h EXCEPT !.hpmevents[n] = int] ELSE h)

---------------------------------------------------------------------------
\* Supervisor registers.
sstatus(h, op, value) ==
    minimal_privilege(rv_smode, h,
        CASE op = "read" -> Target(h, h.mstatus \cap sstatus_mask)
          [] op = "write" -> [h EXCEPT !.mstatus = (@ \cap High) \cup (value \cap sstatus_mask)]
          [] OTHER -> [h EXCEPT !.mstatus = Apply(op, @, value \cap sstatus_mask)])

\* The routines of a window on some bits of a machine register.
Window(h, op, value, reg, shown, mask) ==
    minimal_privilege(rv_smode, h,
        IF op = "read" THEN Target(h, shown)
        ELSE [h EXCEPT ![reg] = (@ \ mask) \cup Apply(op, @ \cap mask, value \cap mask)])
External(h) == (IF h.external_SEIP THEN {SEI} ELSE {}) \cup (IF h.external_STIP THEN {STI} ELSE {})
sie_Unmasked(h, op, value) == Window(h, op, value, "mie", h.mie \cap si_mask, mi_mask)
sie(h, op, value) == Window(h, op, value, "mie", h.mie \cap si_mask, si_mask)
sip(h, op, value) == Window(h, op, value, "mip", (h.mip \cap si_mask) \cup External(h), {SSI})
stvec(h, op, value) == Masked(h, op, value, rv_smode, "stvec", Bits32 \ {1})
senvcfg(h, op, value) == Masked(h, op, value, rv_smode, "senvcfg", {0, 4, 5, 6})
sepc(h, op, value) == Masked(h, op, value, rv_smode, "sepc", Bits \ {0, 1})

\* RV_EXCEPTION_MASK shifts by the cause: the host takes a count modulo 32,
\* and the 64-bit build masks it itself.
Interrupts == {1, 3, 5, 7, 9, 11}
Exceptions == 0 .. 9 \cup {11, 12, 13, 15}
Code(n) == {b \in 0 .. 3 : (n \div 2 ^ b) % 2 = 1}
Cause(n, interrupt) == Code(n) \cup (IF interrupt THEN {Xlen - 1} ELSE {})
is_exception_code(word) ==
    \E n \in IF Xlen - 1 \in word THEN Interrupts ELSE Exceptions :
        word \cap (0 .. (IF Xlen = 32 THEN 4 ELSE 5)) = Code(n)
CauseCsr(h, op, value, priv, reg) ==
    LET val == Apply(op, h[reg], value)
    IN minimal_privilege(priv, h,
         CASE op = "read" -> Target(h, h[reg])
           [] op # "read" /\ is_exception_code(val) -> [h EXCEPT ![reg] = val]
           [] OTHER -> Illegal(h))
scause(h, op, value) == CauseCsr(h, op, value, rv_smode, "scause")

satp_is_bare(word) == satp_mode \notin word
satp(h, op, value) ==
    LET asid_mask == satp_asid_offset .. satp_asid_offset + h.asid_len - 1
        val == Apply(op, h.satp, value \cap ({satp_mode} \cup asid_mask \cup satp_ppn_mask))
    IN minimal_privilege(rv_smode, h,
         CASE TVM \in h.mstatus -> Illegal(h)
           [] TVM \notin h.mstatus /\ op = "read" -> Target(h, h.satp)
           [] OTHER -> [h EXCEPT !.satp = IF satp_is_bare(val) THEN {} ELSE val])

\* Writes of the comparand raise or drop the timer line at once.
scyclecmp(h, op, value) ==
    LET cmp == Apply(op, h.scyclecmp, value \cap UXbits)
    IN minimal_privilege(rv_smode, h,
         IF op = "read" THEN Target(h, h.scyclecmp)
         ELSE [h EXCEPT !.scyclecmp = cmp, !.external_STIP = AtLeast(h.cycle \cap UXbits, cmp)])

---------------------------------------------------------------------------
\* Machine registers.  A change that would leave the reserved mode in MPP
\* leaves MPP alone.
mstatus_write(h, value) ==
    LET val == value \cap mstatus_mask
    IN [h EXCEPT !.mstatus = (@ \cap High) \cup
            (IF ReservedMpp(val) THEN (val \ MPP) \cup (@ \cap MPP) ELSE val)]
mstatus_set(h, value) ==
    LET val == value \cap mstatus_mask
    IN [h EXCEPT !.mstatus = @ \cup (IF ReservedMpp(@ \cup val) THEN val \ MPP ELSE val)]
mstatus_clear(h, value) ==
    LET val == value \cap mstatus_mask
    IN [h EXCEPT !.mstatus = @ \ (IF ReservedMpp(@ \ val) THEN val \ MPP ELSE val)]
mstatus(h, op, value) ==
    minimal_privilege(rv_mmode, h,
        CASE op = "read" -> Target(h, h.mstatus \cap Bits)
          [] op = "write" -> mstatus_write(h, value)
          [] op = "set" -> mstatus_set(h, value)
          [] op = "clear" -> mstatus_clear(h, value))
mstatush(h, op, value) == Fixed(h, op, {b - 32 : b \in h.mstatus \cap High})
medeleg(h, op, value) == Masked(h, op, value, rv_mmode, "medeleg", Exceptions \ {11})
mideleg(h, op, value) == Masked(h, op, value, rv_mmode, "mideleg", si_mask)
mie(h, op, value) == Masked(h, op, value, rv_mmode, "mie", mi_mask)
mip(h, op, value) ==
    IF op = "read" THEN minimal_privilege(rv_mmode, h, Target(h, h.mip \cup External(h)))
    ELSE Masked(h, op, value, rv_mmode, "mip", si_mask)
mtvec(h, op, value) == Masked(h, op, value, rv_mmode, "mtvec", Bits32 \ {1})
mcause(h, op, value) == CauseCsr(h, op, value, rv_mmode, "mcause")
menvcfg(h, op, value) == Masked(h, op, value, rv_mmode, "menvcfg", {0})

---------------------------------------------------------------------------
\* The other registers' numbers; those that are left out, the physical
\* memory protection's, the trigger and the debug registers among them, are
\* illegal to every operation.
csr_num ==
    [sstatus |-> \h100, sie |-> \h104, stvec |-> \h105, scounteren |-> \h106, senvcfg |-> \h10A,
     sscratch |-> \h140, sepc |-> \h141, scause |-> \h142, stval |-> \h143, sip |-> \h144,
     satp |-> \h180, scontext |-> \h5A8, scyclecmp |-> \h5C0,
     mvendorid |-> \hF11, marchid |-> \hF12, mimpid |-> \hF13, mhartid |-> \hF14, mconfigptr |-> \hF15,
     mstatus |-> \h300, misa |-> \h301, medeleg |-> \h302, mideleg |-> \h303, mie |-> \h304,
     mtvec |-> \h305, mcounteren |-> \h306, mstatush |-> \h310, mcountinhibit |-> \h320,
     mscratch |-> \h340, mepc |-> \h341, mcause |-> \h342, mtval |-> \h343, mip |-> \h344,
     mtinst |-> \h34A, mtval2 |-> \h34B, menvcfg |-> \h30A, menvcfgh |-> \h31A,
     mseccfg |-> \h747, mseccfgh |-> \h757]

\* Only the 32-bit build knows mstatush: the other one dies.
get_csr_ops(h, csr, op, value) ==
    CASE IsCounter(csr) -> IF op = "read" THEN counter_read(h, csr) ELSE counter_write(h, csr, op, value)
      [] csr \in {\h320 + n : n \in Hpm} -> mhpmevent(h, csr, op, value)
      [] csr = csr_num.mcountinhibit -> mcountinhibit(h, op, value)
      [] csr = csr_num.sstatus -> sstatus(h, op, value)
      [] csr = csr_num.sie -> sie(h, op, value)
      [] csr = csr_num.stvec -> stvec(h, op, value)
      [] csr = csr_num.scounteren -> default_csr_functions(h, op, value, rv_smode, "scounteren")
      [] csr = csr_num.senvcfg -> senvcfg(h, op, value)
      [] csr = csr_num.sscratch -> default_csr_functions(h, op, value, rv_smode, "sscratch")
      [] csr = csr_num.sepc -> sepc(h, op, value)
      [] csr = csr_num.scause -> scause(h, op, value)
      [] csr = csr_num.stval -> default_csr_functions(h, op, value, rv_smode, "stval")
      [] csr = csr_num.sip -> sip(h, op, value)
      [] csr = csr_num.satp -> satp(h, op, value)
      [] csr = csr_num.scontext -> default_csr_functions(h, op, value, rv_smode, "scontext")
      [] csr = csr_num.scyclecmp -> scyclecmp(h, op, value)
      [] csr \in {csr_num.mvendorid, csr_num.marchid, csr_num.mimpid, csr_num.mhartid, csr_num.mconfigptr} ->
            ReadOnly(h, op, {})
      [] csr = csr_num.mstatus -> mstatus(h, op, value)
      [] csr = csr_num.mstatush -> IF Xlen = 32 THEN mstatush(h, op, value) ELSE [h EXCEPT !.host = "die"]
      [] csr = csr_num.misa -> Fixed(h, op, h.misa)
      [] csr = csr_num.medeleg -> medeleg(h, op, value)
      [] csr = csr_num.mideleg -> mideleg(h, op, value)
      [] csr = csr_num.mie -> mie(h, op, value)
      [] csr = csr_num.mtvec -> mtvec(h, op, value)
      [] csr = csr_num.mcounteren -> default_csr_functions(h, op, value, rv_mmode, "mcounteren")
      [] csr = csr_num.mscratch -> default_csr_functions(h, op, value, rv_mmode, "mscratch")
      [] csr = csr_num.mepc -> default_csr_functions(h, op, value, rv_mmode, "mepc")
      [] csr = csr_num.mcause -> mcause(h, op, value)
      [] csr = csr_num.mtval -> default_csr_functions(h, op, value, rv_mmode, "mtval")
      [] csr = csr_num.mip -> mip(h, op, value)
      [] csr = csr_num.menvcfg -> menvcfg(h, op, value)
      [] csr \in {csr_num.menvcfgh, csr_num.mseccfg, csr_num.mseccfgh} -> Fixed(h, op, {})
      [] OTHER -> Illegal(h)

---------------------------------------------------------------------------
\* The read comes first and the register rd is written only when neither
\* routine fails; csrrw to x0 does not read, csrrs and csrrc of x0 do not
\* write.
Read(h, csr, read) == IF read THEN get_csr_ops(h, csr, "read", {}) ELSE h
Modify(h, csr, op, value, write) == IF write /\ h.exc = none THEN get_csr_ops(h, csr, op, value) ELSE h
Deliver(h, read) == [h EXCEPT !.rd = IF read /\ h.exc = none THEN h.target ELSE @, !.target = {}]
Access(h, csr, op, value, read, write) == Deliver(Modify(Read(h, csr, read), csr, op, value, write), read)
rv_csr_rw(h, csr, value, read) == Access(h, csr, "write", value, read, TRUE)
rv_csr_rs(h, csr, value, write) == Access(h, csr, "set", value, TRUE, write)
rv_csr_rc(h, csr, value, write) == Access(h, csr, "clear", value, TRUE, write)
==============================================================================
