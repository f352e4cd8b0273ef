-------------------------------- MODULE RvCpu -------------------------------
(***************************************************************************)
(* A RISC-V hart around its instructions: traps and returns from them,     *)
(* interrupts, standby, counters and timers, and the instructions that     *)
(* work on the control registers (riscv_rv32ima/cpu.c, riscv_rv64ima/cpu.c  *)
(* and riscv_rv_ima/instructions/system.c).                                 *)
(*                                                                         *)
(* The guest is any program whose k-th instruction is one of Text[k],      *)
(* the last set standing for all that follow.  Addresses have AddrBits     *)
(* bits.  Between two steps the devices raise and lower interrupt lines    *)
(* and the debugger may move the program counter.                          *)
(***************************************************************************)
EXTENDS RvCsr, Sequences

CONSTANTS
    AddrBits,   \* the width of an address: 32 or 64, scaled down
    Programs    \* the guests: a sequence of records [text, clock, lines, goto]

VARIABLES
    hart,       \* the processor: rv32_cpu_t
    prog,       \* the guest that runs and the devices beside it, a position in Programs
    n,          \* the index in Text of the next instruction
    did,        \* history: the instruction of the last step, or what else happened
    mframe,     \* history: what the last trap to M mode interrupted, while an mret can restore it
    sframe      \* history: the same for S mode

vars == <<hart, prog, n, did, mframe, sframe>>

Text == Programs[prog].text
Ops == {"nop", "jump", "fetch", "load", "store", "ecall", "sret", "mret", "wfi", "halt", "csrrw", "csrrs", "csrrc"}

---------------------------------------------------------------------------
\* An address is a set of bits too: a sum has the bits in which the two
\* numbers and the carry from the bits below have an odd number of ones.
Addresses == SUBSET (0 .. AddrBits - 1)
ToAddress(word) == word \cap (0 .. AddrBits - 1)
Carry(a, d, b) == \E j \in 0 .. b - 1 : j \in a \cap d /\ (j + 1 .. b - 1) \subseteq a \cup d
Plus(a, d) == {b \in 0 .. AddrBits - 1 : ((b \in a) # (b \in d)) # Carry(a, d, b)}

\* A jump and the debugger go to addresses, a store writes some of the 64 bits of
\* a register.
ASSUME RvCpuAssumption ==
    /\ AddrBits \in 3 .. Xlen
    /\ \A p \in DOMAIN Programs :
         /\ Len(Programs[p].text) \in Nat \ {0}
         /\ \A k \in 1 .. Len(Programs[p].text) : \A i \in Programs[p].text[k] :
              /\ i.op \in Ops
              /\ i.op = "jump" => i.to \in Addresses
              /\ i.op = "store" => i.bits \subseteq 0 .. 2 * Half - 1 /\ i.v \subseteq i.bits
         /\ Programs[p].goto \subseteq Addresses

NoTrap == [to |-> "", n |-> none, interrupt |-> FALSE]
NoFrame == [on |-> FALSE, priv |-> 0, pc |-> {}, ie |-> FALSE]
Frame(h, interrupt, ie) ==
    [on |-> TRUE, priv |-> h.priv, pc |-> IF interrupt THEN h.pc_next ELSE h.pc, ie |-> ie \in h.mstatus]

\* The reset address is 0 here; taken is a history field, what the last step
\* trapped to.
rv_init_csr ==
    [mstatus |-> {}, mtvec |-> {}, medeleg |-> {}, mideleg |-> {}, mip |-> {}, mie |-> {},
     mscratch |-> {}, mepc |-> {}, mcause |-> {}, mtval |-> {}, mcounteren |-> {}, mcountinhibit |-> {},
     menvcfg |-> {}, misa |-> {IF Xlen = 32 THEN 30 ELSE 31, 20, 18, 12, 8, 0}, stvec |-> {}, scounteren |-> {},
     sscratch |-> {}, sepc |-> {}, scause |-> {}, stval |-> {}, senvcfg |-> {}, satp |-> {},
     scontext |-> {}, external_SEIP |-> FALSE, external_STIP |-> FALSE, scyclecmp |-> {},
     mtime |-> {}, mtimecmp |-> {}, cycle |-> {}, instret |-> {}, hpmcounters |-> [c \in Hpm |-> {}],
     hpmevents |-> [c \in Hpm |-> {}], tval_next |-> {}, asid_len |-> IF Xlen = 32 THEN 9 ELSE 16]
cpu_init ==
    LET own == [priv |-> rv_mmode, pc |-> {}, pc_next |-> {2}, stdby |-> FALSE, rd |-> {}, x31 |-> {},
                exc |-> none, target |-> {}, host |-> "", taken |-> NoTrap]
    IN [f \in DOMAIN own \cup DOMAIN rv_init_csr |-> IF f \in DOMAIN own THEN own[f] ELSE rv_init_csr[f]]

Init ==
    /\ hart = cpu_init
    /\ prog \in DOMAIN Programs
    /\ n = 1
    /\ did = [op |-> "reset"]
    /\ mframe = NoFrame
    /\ sframe = NoFrame

---------------------------------------------------------------------------
\* Traps.  Status bits: copy sets bit to as bit from is.
Copy(word, to, from) == IF from \in word THEN word \cup {to} ELSE word \ {to}
Raise(h, ex) == [h EXCEPT !.exc = ex]

\* The reserved modes of a vector are asserted away.
Vectored(h, vec, ex, interrupt) ==
    LET base == ToAddress(vec \ {0, 1})
    IN CASE vec \cap {0, 1} = {} -> [h EXCEPT !.pc_next = base]
         [] vec \cap {0, 1} = {0} -> [h EXCEPT !.pc_next = IF interrupt THEN Plus(base, {b + 2 : b \in Code(ex)}) ELSE base]
         [] OTHER -> [h EXCEPT !.host = "assert"]

m_trap_KeepsStandby(h, ex, interrupt) ==
    Vectored([h EXCEPT
        !.mepc = IF interrupt THEN h.pc_next ELSE h.pc,
        !.mcause = Cause(ex, interrupt),
        !.mtval = h.tval_next,
        !.mstatus = ((Copy(@, MPIE, MIE) \ {MIE}) \ MPP) \cup {b + 11 : b \in Field(h.priv)},
        !.priv = rv_mmode,
        !.taken = [to |-> "m", n |-> ex, interrupt |-> interrupt]],
      h.mtvec, ex, interrupt)
m_trap(h, ex, interrupt) ==
    Vectored([h EXCEPT
        !.stdby = FALSE,
        !.mepc = IF interrupt THEN h.pc_next ELSE h.pc,
        !.mcause = Cause(ex, interrupt),
        !.mtval = h.tval_next,
        !.mstatus = ((Copy(@, MPIE, MIE) \ {MIE}) \ MPP) \cup {b + 11 : b \in Field(h.priv)},
        !.priv = rv_mmode,
        !.taken = [to |-> "m", n |-> ex, interrupt |-> interrupt]],
      h.mtvec, ex, interrupt)

s_trap_SavesPc(h, ex, interrupt) ==
    Vectored([h EXCEPT
        !.stdby = FALSE,
        !.sepc = h.pc,
        !.scause = Cause(ex, interrupt),
        !.stval = h.tval_next,
        !.mstatus = (Copy(@, SPIE, SIE) \ {SIE, SPP}) \cup (IF h.priv % 2 = 1 THEN {SPP} ELSE {}),
        !.priv = rv_smode,
        !.taken = [to |-> "s", n |-> ex, interrupt |-> interrupt]],
      h.stvec, ex, interrupt)
s_trap(h, ex, interrupt) ==
    Vectored([h EXCEPT
        !.stdby = FALSE,
        !.sepc = IF interrupt THEN h.pc_next ELSE h.pc,
        !.scause = Cause(ex, interrupt),
        !.stval = h.tval_next,
        !.mstatus = (Copy(@, SPIE, SIE) \ {SIE, SPP}) \cup (IF h.priv % 2 = 1 THEN {SPP} ELSE {}),
        !.priv = rv_smode,
        !.taken = [to |-> "s", n |-> ex, interrupt |-> interrupt]],
      h.stvec, ex, interrupt)

handle_exception(h) ==
    IF h.exc \in h.medeleg /\ h.priv # rv_mmode THEN s_trap(h, h.exc, FALSE) ELSE m_trap(h, h.exc, FALSE)

\* The order in which interrupts are tried; the 64-bit build has its own
\* for those that go to S mode.
MOrder == <<MEI, MSI, MTI, SEI, SSI, STI>>
SOrder == IF Xlen = 32 THEN <<SEI, SSI, STI>> ELSE <<STI, SEI, SSI>>
First(order, active) == order[Min({k \in DOMAIN order : order[k] \in active})]
try_handle_interrupt_IgnoresDelegation(h) ==
    LET pending == h.mip \cup External(h)
        to_M == (h.priv = rv_mmode /\ MIE \in h.mstatus) \/ h.priv < rv_mmode
        active == IF to_M THEN pending \cap h.mie ELSE {}
    IN IF active # {} THEN m_trap(h, First(MOrder, active), TRUE) ELSE h
try_handle_interrupt(h) ==
    LET pending == h.mip \cup External(h)
        to_M == (h.priv = rv_mmode /\ MIE \in h.mstatus) \/ h.priv < rv_mmode
        to_S == (h.priv = rv_smode /\ SIE \in h.mstatus) \/ h.priv < rv_smode
        m_active == IF to_M THEN (pending \cap h.mie) \ h.mideleg ELSE {}
        s_active == IF to_S THEN pending \cap h.mie \cap si_mask ELSE {}
    IN CASE m_active # {} -> m_trap(h, First(MOrder, m_active), TRUE)
         [] m_active = {} /\ s_active # {} -> s_trap(h, First(SOrder, s_active), TRUE)
         [] OTHER -> h

---------------------------------------------------------------------------
\* Counters and timers.  An event counts the cycles of a mode, or those in
\* standby, after the step's trap.
account_hmp(h, c) ==
    LET event == h.hpmevents[c]
        counts == \/ event = {0} /\ h.priv = rv_umode
                  \/ event = {1} /\ h.priv = rv_smode
                  \/ event = {2} /\ h.priv = rv_mmode
                  \/ event = {0, 2} /\ h.stdby
    IN IF counts /\ c \notin h.mcountinhibit THEN Inc(h.hpmcounters[c], 2 * Half) ELSE h.hpmcounters[c]

handle_mtip(h) == [h EXCEPT !.mip = IF AtLeast(h.mtime, h.mtimecmp) THEN @ \cup {MTI} ELSE @ \ {MTI}]

manage_timer_interrupts(h) ==
    handle_mtip([h EXCEPT !.external_STIP = AtLeast(h.cycle \cap UXbits, h.scyclecmp)])

\* tick: whether the host's clock moved since the last step.
account(h, retired, tick) ==
    manage_timer_interrupts([h EXCEPT
        !.cycle = IF 0 \in h.mcountinhibit THEN @ ELSE Inc(@, 2 * Half),
        !.mtime = IF tick THEN Inc(@, 2 * Half) ELSE @,
        !.instret = IF retired /\ 2 \notin h.mcountinhibit THEN Inc(@, 2 * Half) ELSE @,
        !.hpmcounters = [c \in Hpm |-> account_hmp(h, c)]])

---------------------------------------------------------------------------
\* Instructions.
rv_call_instr(h) ==
    Raise(h, CASE h.priv = rv_umode -> 8 [] h.priv = rv_smode -> 9 [] h.priv = rv_mmode -> 11)

rv_sret_instr(h) ==
    IF TSR \in h.mstatus \/ h.priv < rv_smode THEN Illegal(h)
    ELSE [h EXCEPT
            !.priv = spp(h),
            !.mstatus = (Copy(@, SIE, SPIE) \cup {SPIE}) \ {SPP, MPRV},
            !.pc_next = ToAddress(h.sepc)]

rv_mret_instr(h) ==
    IF h.priv < rv_mmode THEN Illegal(h)
    ELSE [h EXCEPT
            !.priv = mpp(h),
            !.mstatus = ((Copy(@, MIE, MPIE) \cup {MPIE}) \ MPP) \ (IF mpp(h) # rv_mmode THEN {MPRV} ELSE {}),
            !.pc_next = ToAddress(h.mepc)]

rv_wfi_instr(h) ==
    IF (TW \in h.mstatus /\ h.priv # rv_mmode) \/ h.priv = rv_umode THEN Illegal(h)
    ELSE [h EXCEPT !.stdby = TRUE]

rv_halt_instr(h) == [h EXCEPT !.host = "halt"]

\* The operand i.v is a register's value or the immediate; i.x0 says that the
\* register that makes the read or the write optional is x0.
rv_csr_instr(h, i) ==
    CASE i.op = "csrrw" -> rv_csr_rw(h, i.csr, i.v, ~i.x0)
      [] i.op = "csrrs" -> rv_csr_rs(h, i.csr, i.v, ~i.x0)
      [] i.op = "csrrc" -> rv_csr_rc(h, i.csr, i.v, ~i.x0)

\* A store to mtime or mtimecmp, i.reg, of the bits i.bits its width and offset
\* cover: an access to memory, which changes nothing here, unless M mode makes it
\* with MPRV clear.
try_write_memory_mapped_regs(h, i) ==
    LET patched(r) == (r \ i.bits) \cup i.v
    IN IF h.priv < rv_mmode \/ MPRV \in h.mstatus THEN h
       ELSE handle_mtip(IF i.reg = "mtime" THEN [h EXCEPT !.mtime = patched(@)]
                        ELSE [h EXCEPT !.mtimecmp = patched(@)])

Opcode == {0, 1, 4, 5, 6}
\* A fetch that faults leaves tval_next alone, a load that faults sets it.
instr_func(h, i) ==
    CASE i.op = "nop" -> h
      [] i.op = "jump" -> [h EXCEPT !.pc_next = i.to]
      [] i.op = "fetch" -> Raise(h, 12)
      [] i.op = "load" -> Raise([h EXCEPT !.tval_next = i.v], 13)
      [] i.op = "store" -> try_write_memory_mapped_regs(h, i)
      [] i.op = "ecall" -> rv_call_instr(h)
      [] i.op = "sret" -> rv_sret_instr(h)
      [] i.op = "mret" -> rv_mret_instr(h)
      [] i.op = "wfi" -> rv_wfi_instr(h)
      [] i.op = "halt" -> rv_halt_instr(h)
      [] OTHER -> rv_csr_instr(h, i)
ReportOpcode(h) == IF h.exc = illegal_instruction THEN [h EXCEPT !.tval_next = Opcode] ELSE h
execute(h, i) == ReportOpcode(instr_func(h, i))

\* The hart between the instruction and the trap, and after the whole step.
executed(h, i) == IF h.stdby THEN h ELSE execute(h, i)
Trapped(h) == IF h.exc # none THEN handle_exception(h) ELSE try_handle_interrupt(h)
Accounted(h, waited, tick) == account([h EXCEPT !.exc = none], ~waited /\ h.exc = none, tick)
Advanced(h) ==
    [h EXCEPT !.pc = IF h.stdby THEN @ ELSE h.pc_next,
              !.pc_next = IF h.stdby THEN @ ELSE Plus(h.pc_next, {2}),
              !.tval_next = {}]
cpu_step(h, i, tick) ==
    Advanced(Accounted(Trapped(executed([h EXCEPT !.taken = NoTrap], i)), h.stdby, tick))

---------------------------------------------------------------------------
\* Whether an instruction writes one of the registers, and so takes away
\* what a trap has saved there.
Writes(i, regs) ==
    i.op \in {"csrrw", "csrrs", "csrrc"} /\ i.csr \in regs /\ (i.x0 => i.op = "csrrw")

Step(i, tick) ==
    LET e == executed([hart EXCEPT !.taken = NoTrap], i)
        taken == hart'.taken
    IN /\ hart.host = ""
       /\ did' = IF hart.stdby THEN [op |-> "wait"] ELSE i
       /\ hart' = cpu_step(hart, i, tick)
       /\ n' = IF hart.stdby \/ n = Len(Text) THEN n ELSE n + 1
       /\ mframe' = IF taken.to = "m" THEN Frame(e, taken.interrupt, MIE)
                    ELSE IF ~hart.stdby /\ (i.op = "mret" \/ Writes(i, {csr_num.mstatus, csr_num.sstatus, csr_num.mepc}))
                    THEN NoFrame ELSE mframe
       /\ sframe' = IF taken.to = "s" THEN Frame(e, taken.interrupt, SIE)
                    ELSE IF ~hart.stdby /\ (i.op = "sret" \/ Writes(i, {csr_num.mstatus, csr_num.sstatus, csr_num.sepc}))
                    THEN NoFrame ELSE sframe
       /\ UNCHANGED prog

Run == \E tick \in Programs[prog].clock, i \in Text[n] : Step(i, tick)

\* Interrupt lines: SEI has its own flag beside mip, and a number that names
\* no line a device may drive stands for MEI.
Line(no) == IF no \in {MSI, SSI, MEI} THEN no ELSE MEI
interrupt_up(no) ==
    /\ hart' = IF no = SEI THEN [hart EXCEPT !.external_SEIP = TRUE]
               ELSE [hart EXCEPT !.mip = @ \cup {Line(no)}]
    /\ did' = [op |-> "up"]
    /\ UNCHANGED <<prog, n, mframe, sframe>>
interrupt_down(no) ==
    /\ hart' = IF no = SEI THEN [hart EXCEPT !.external_SEIP = FALSE]
               ELSE [hart EXCEPT !.mip = @ \ {Line(no)}]
    /\ did' = [op |-> "down"]
    /\ UNCHANGED <<prog, n, mframe, sframe>>
cpu_set_pc(value) ==
    /\ value \cap {0, 1} = {}
    /\ hart' = [hart EXCEPT !.pc = value, !.pc_next = Plus(value, {2})]
    /\ did' = [op |-> "goto"]
    /\ UNCHANGED <<prog, n, mframe, sframe>>

Next ==
    \/ Run
    \/ hart.host = "" /\ \E no \in Programs[prog].lines : interrupt_up(no) \/ interrupt_down(no)
    \/ hart.host = "" /\ \E value \in Programs[prog].goto : cpu_set_pc(value)

\* The machine loop steps the hart for ever, and the host's clock, where it
\* moves while the guest runs, goes on moving: weak fairness of Tick, with the
\* condition that enables it written out.
Ticking == hart.host = "" /\ TRUE \in Programs[prog].clock
Tick == Ticking /\ \E i \in Text[n] : Step(i, TRUE)
Fairness == []<>~Ticking \/ []<><<Tick>>_vars
Spec == Init /\ [][Next]_vars /\ Fairness

---------------------------------------------------------------------------
Words64 == SUBSET (0 .. 63)
Counters64 == SUBSET (0 .. 2 * Half - 1)

\* The fields of the hart have their types.
TypeOK ==
    /\ hart.priv \in {rv_umode, rv_smode, rv_mmode}
    /\ hart.pc \in Addresses /\ hart.pc_next \in Addresses
    /\ hart.stdby \in BOOLEAN /\ hart.external_SEIP \in BOOLEAN /\ hart.external_STIP \in BOOLEAN
    /\ hart.exc = none /\ hart.target = {} /\ hart.tval_next = {}
    /\ {hart.cycle, hart.instret, hart.mtime, hart.mtimecmp} \subseteq Counters64
    /\ hart.scyclecmp \subseteq UXbits
    /\ n \in 1 .. Len(Text)

\* The interrupts that may be taken in a state, as the RISC-V privileged
\* architecture has it: a delegated one in S mode if SIE is set, and always in
\* a mode below the one that takes it.
Takeable(h, to) ==
    LET pending == h.mip \cup External(h)
    IN {i \in pending \cap h.mie :
          IF i \in h.mideleg
          THEN to = "s" /\ (h.priv = rv_umode \/ (h.priv = rv_smode /\ SIE \in h.mstatus))
          ELSE to = "m" /\ (h.priv # rv_mmode \/ MIE \in h.mstatus)}
Rank(i) == CHOOSE r \in 1 .. 6 : MOrder[r] = i
TimerLinesTrue ==
    /\ hart.external_STIP = AtLeast(hart.cycle \cap UXbits, hart.scyclecmp)
    /\ (MTI \in hart.mip) = AtLeast(hart.mtime, hart.mtimecmp)
Stepped == did'.op \notin {"up", "down", "goto"}
Mid == executed([hart EXCEPT !.taken = NoTrap], did')

\* A step takes an interrupt exactly when its instruction did not fail and one
\* may be taken: to S mode only a delegated one and never from M mode, to M
\* mode first, and the one that comes first in the order MEI, MSI, MTI, SEI,
\* SSI, STI (try_handle_interrupt, whose comment on the trap to S mode says
\* "priv_mode < M" where its code, and this, have S mode protected by SIE).  And
\* the timer lines say what the timers say after every step: the supervisor's
\* that the low word of cycle has reached scyclecmp, the machine's that mtime
\* has reached mtimecmp, whichever of the registers the guest has written
\* (manage_timer_interrupts, handle_mtip, scyclecmp_write, counter_write).
InterruptsByTheRule ==
    [][/\ Stepped => TimerLinesTrue'
       /\ Stepped /\ Mid.exc = none =>
         LET m == Takeable(Mid, "m")
             s == Takeable(Mid, "s")
             may == IF m # {} THEN m ELSE s
             taken == hart'.taken
         IN IF may = {} THEN taken = NoTrap
            ELSE /\ taken.interrupt
                 /\ taken.to = IF m # {} THEN "m" ELSE "s"
                 /\ taken.n \in may /\ \A i \in may : Rank(taken.n) <= Rank(i)]_vars

\* What a return resumes: where the hart is after the step, or, when an
\* interrupt is taken in the same step, what that trap has saved.
Resumed(h, ie, pie) ==
    CASE h.taken.to = "" -> <<h.priv, h.pc, ie \in h.mstatus>>
      [] h.taken.to = "m" -> <<mpp(h), ToAddress(h.mepc), (IF ie = MIE THEN pie ELSE ie) \in h.mstatus>>
      [] h.taken.to = "s" -> <<spp(h), ToAddress(h.sepc), (IF ie = SIE THEN pie ELSE ie) \in h.mstatus>>
FrameOf(f) == <<f.priv, f.pc, f.ie>>

\* Traps are exact.  An instruction that fails has done nothing but fail: the
\* trap finds the hart as it was before it, so the instruction can be run again
\* (rv_csr_rw, rv_csr_rs and rv_csr_rc read before they write).  And a return
\* goes back to the mode, the address and the interrupt enable the trap
\* interrupted, whatever happened between the two as long as the guest did not
\* write the registers that hold them: after an S-mode trap also through traps
\* to M mode and back, and when the return itself is interrupted (m_trap, s_trap,
\* rv_mret_instr, rv_sret_instr, rv32_cpu_step).
TrapsExact ==
    [][/\ Stepped /\ Mid.exc # none =>
            /\ [Mid EXCEPT !.exc = none, !.tval_next = {}] = [hart EXCEPT !.taken = NoTrap]
            /\ hart'.instret = hart.instret
       /\ did'.op = "mret" /\ hart.priv = rv_mmode /\ mframe.on
            => Resumed(hart', MIE, MPIE) = FrameOf(mframe)
       /\ did'.op = "sret" /\ hart.priv >= rv_smode /\ TSR \notin hart.mstatus /\ sframe.on
            => Resumed(hart', SIE, SPIE) = FrameOf(sframe)]_vars

\* A trap finds a legal vector (m_trap and s_trap assert that its mode is direct
\* or vectored), an mret finds a mode that exists in MPP, and nothing is delegated
\* that S mode must not get: M-mode ecalls and machine interrupts.
LegalControl ==
    /\ TypeOK
    /\ hart.host # "assert"
    /\ 1 \notin hart.mtvec /\ 1 \notin hart.stvec
    /\ ~ReservedMpp(hart.mstatus)
    /\ 11 \notin hart.medeleg
    /\ hart.mideleg \subseteq si_mask
    /\ hart.mie \subseteq mi_mask

\* The parts of the hart that belong to M mode.
Machine(h) ==
    [mstatus |-> h.mstatus \ sstatus_mask, mie |-> h.mie \ si_mask, mip |-> h.mip \ {SSI, MTI},
     regs |-> <<h.mtvec, h.medeleg, h.mideleg, h.mepc, h.mcause, h.mtval, h.mscratch, h.mcounteren,
                h.mcountinhibit, h.menvcfg, h.hpmevents, h.mtimecmp>>]
SstatusWrite(i) == i.op = "csrrw" /\ i.csr = csr_num.sstatus

\* Whatever the guest writes into the control registers, they stay legal.  And a
\* step of S or U mode that does not trap to M mode leaves the state of M mode as
\* it is, but for MPRV, which an sret clears, and for a csrrw of
\* sstatus (the minimal_privilege checks and the masks of csr.c).
ControlConfined ==
    [][/\ LegalControl'
       /\ Stepped /\ hart.priv # rv_mmode /\ hart'.taken.to # "m" /\ ~SstatusWrite(did') =>
         LET before == [hart EXCEPT !.mstatus = @ \ {MPRV}]
             after == [hart' EXCEPT !.mstatus = @ \ {MPRV}]
         IN Machine(after) = Machine(before) /\ (MPRV \in hart'.mstatus => MPRV \in hart.mstatus)]_vars

\* The timer interrupts that will wake a waiting hart.
Armed(i) ==
    /\ i \in hart.mie
    /\ i = STI => 0 \notin hart.mcountinhibit
    /\ IF i \in hart.mideleg
       THEN hart.priv = rv_smode /\ SIE \in hart.mstatus
       ELSE hart.priv # rv_mmode \/ MIE \in hart.mstatus

\* A hart that waits in wfi wakes up when a timer interrupt is armed, unless
\* the host's clock stands still or cycle, which is the supervisor's timer, is
\* inhibited (rv32_cpu_step accounts for a cycle in standby too).
ArmedTimerWakes ==
    hart.stdby /\ Ticking /\ (Armed(MTI) \/ Armed(STI)) ~> ~hart.stdby
==============================================================================
