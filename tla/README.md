# MSIM: models and proofs

MSIM simulates computers with MIPS R4000, RISC-V (RV32/RV64 IMA) and SuperH
SH-2E processors and a set of simple devices.  This directory holds TLA+ models
of its parts, TLC configurations that check them on small instances, and TLAPS
proofs of some of their properties for every instance.

Run `tlc -config X.cfg M` on the pairs listed under *Runs*, and
`tlapm DDiskProofs.tla` (`BoardProofs`, `Sh2eIntcProofs`, `Sh2eCpuProofs`,
`Sh2eTimersProofs`, `RvMmuProofs`, `RvCpuProofs`, `R4kCpuProofs`) for the proofs; the
last two take some ten minutes each, the others five at most.

## The system

`main.c` repeats one loop: look for breakpoints, serve a debugger (GDB or DAP) or
the console, then run one machine step.  A machine step calls the `step` function
of every device in turn; processors are devices.  Everything is one thread, so
one call of a `step` function, one guest register access and one console command
are the atomic steps.  What makes the system concurrent is that these calls
alternate: a device's transfer takes many steps, and between two of them the guest
writes its registers, another processor stores into the same memory, a reset
arrives, or the user replaces the device's contents at the console.  Inside a
processor, instructions, traps, interrupts, the TLB and the timers interleave in
the same way: what one step leaves behind, a much later one relies on.

| Part | Source (under `src/src`) | Modules | Status |
|---|---|---|---|
| Disk | `device/ddisk.c` | `DDisk` | modelled, proved |
| SH-2E interrupt controller | `device/intc`, `device/dsh2eintc.c` | `Sh2eIntc` | modelled, proved |
| SH-2E processor control | `device/cpu/superh_sh2e/cpu.c`, `device/dsh2ecpu.c` | `Sh2eCpu` (with `Sh2eIntc`) | modelled, proved |
| SH-2E watchdog and compare-match timers | `device/dsh2ewdt.c`, `device/dsh2ecmt.c` | `Sh2eTimers` (with `Sh2eIntc`) | modelled, proved |
| SH-2E DMA controller | `device/dsh2edmac.c` | `Sh2eDmac` | control modelled, proved |
| SH-2E instructions and decoder | `superh_sh2e/exec.c`, `decode.c` | `Sh2eInstr`, `Sh2eFloat`, `Sh2eDecode` | modelled |
| RISC-V traps, interrupts, CSRs, timers | `riscv_rv32ima/cpu.c`, `riscv_rv_ima/csr.c`, `instructions/system.c` | `RvCsr`, `RvCpu` | modelled for rv32, proved |
| RISC-V address translation | `tlb.c`, the page walk in `cpu.c`, `virt_mem.h` | `RvPte`, `RvMmu`; abstract `RvPaging` | modelled, refinement proved |
| RISC-V instructions and decoders | `riscv_rv_ima/instructions`, `memory.c`, `instr.c`, `mnemonics.c` | `RvInstr`, `Rv32Decode`, `Rv64Decode` | modelled |
| MIPS R4000 control, CP0 and TLB | `mips_r4000/cpu.c`, `device/dr4kcpu.c` | `R4kCpu` | modelled but for registers that only repeat others, proved |
| MIPS R4000 instructions, decoder and disassembler tables | `mips_r4000/instr`, `cpu.c` | `R4kInstr`, `R4kDecode` | modelled |
| Physical memory, reservations, decode caches | `physmem.c`, `device/mem.c`, LR/SC and LL/SC | `PhysMem` | modelled, proved |
| Keyboard, interprocessor device, processor registry | `device/dkeyboard.c`, `device/dorder.c`, `device/cpu/general_cpu.c` | `IrqLines` | modelled, proved |
| Main loop, prompt, GDB, DAP, breakpoints, Ctrl-C | `main.c`, `debug/`, `cmd.c`, `input.c`, `arch/posix/signal.c` | `Machine` | control modelled, proved |
| Printer, LCD, clock, cycle counter | `device/dprinter.c`, `dlcd.c`, `dtime.c`, `dcycle.c` | | not modelled |
| Parser, environment, device registry | `parser.c`, `env.c`, `device/device.c` | | not modelled |
| Disassembly and register dumps, host layer | `disasm.c`, `debug.c`, `utils.c`, `arch/` | | not modelled |

## The modules

Every definition is a translation of the lines that `PROJECT.json` gives for it.
Definitions named `X_Something` just before `X` are deliberately wrong variants of
`X`, kept to show that the properties notice them.

**`DDisk`**: the register block, the DMA engine and the console commands of a disk.
`status` is the set of flags in `disk_status`; addresses count 32-bit words and the
36-bit DMA pointer is `LoSpan * HiSpan` words wide and wraps.  `WriteAddrLo`,
`WriteAddrHi`, `WriteSecno` and `WriteCommand` are the cases of `ddisk_write32`;
`Step` is `ddisk_step`, one word of the current sector; `Generic`, `Fmap`, `Fill`
and `Load` are console commands; `CpuStore` is any processor's store.  `start` and
`quiet` are history variables: where the action began and whether anyone else wrote
what it transfers.

**`Sh2eIntc`**: the interrupt controller as a record and operators on it, because the
processor applies several of its functions in one step.  `isr` and `sense` are sets
of inputs, `ipr` maps each priority pool to its half-byte.  The loop of
`sh2e_check_pending_interrupts` is a recursive function (`Arbitrate`).  `IntcNext` uses the
controller in every way a device, a guest or a processor can.

**`Sh2eCpu`**: extends `Sh2eIntc` to the composition of processor and controller.
`CpuStep` is one `sh2e_cpu_step`, split by processing state (`ResetStep`,
`ProgramStep`, `StandbyStep`, `ExceptionStep`).  Instructions are represented by what
they do to control: branch kinds, masking instructions, faults, `SLEEP`, `TRAPA`,
`RTE`, stores to the controller's registers.  The program counter is reduced to
whether it already names the next instruction.  Devices, reset lines, the DMA
controller's address error and the `goto` command act between two steps.  `guest`
fixes, in a whole behaviour, which instruction kinds and which disturbances there are.

**`Sh2eTimers`**: extends `Sh2eIntc` to the composition of the two timers, the
processor that clocks and resets them and the controller that takes their requests.
A machine cycle is a `CpuStep` (an instruction worth some cycles, with or without a
write to a timer register, sleep, an interrupt or a reset) and a `DeviceStep`
(`WdtStep` and `CmtStep`, the loops of the two `step` functions).  `due` is the
history variable: the cycles after which each timer has to overflow or match.

**`Sh2eDmac`**: the DMA controller's transfer state machine.  The state is one record;
`Cycle` is one iteration of `dsh2edmac_step`, going through `Pick`, `Waiting`,
`Transferring` and `Transfer` as the functions call each other.  Addresses are left
out: whether a transfer is misaligned, and whether an address is the registered
one, are choices.  The state `"DIED"` stands for the `ASSERT(false)` of
`step_waiting` and of `perform_transfer`, which end the simulator; hence the run's
deadlock check is off.

**`PhysMem`**: memory contents, wired frames, the valid bit of each frame, the decode
cache of each architecture, and LR/SC and LL/SC.  `scList` is `sc_list`; `resValid`
and `resAddr` are the fields of each processor.  `StoreTo` is the common path of all
stores, in the order of the code: reservations, the valid bit, the bytes.  `broken`
and `resWidth` are history variables recording whether a reserved word was written.

**`IrqLines`**: the interrupt bits of the processors, the devices that drive them
without a controller, and the processors' own writes to the same bits.  `GenKey` is
`gen_key`, `ReadChar` is `keyboard_read32`, `SyncUp` and `SyncDown` the two registers
of `dorder`; `Target` is `get_cpu` with the fallback of `cpu_interrupt_up`.  `Line` is
the bit a number stands for, which RISC-V and the R4000 decide differently; `Refused`
is the R4000's assertion, after which `host` is `"assert"`.  `board`, fixed in a
behaviour, is the configuration: processors and numbers.  `delivered` and `driven` (the
bits a device was the last to write) are history variables.

**`Machine`**: `machine_run` cut at the points where something else may happen: `at` is
the place in the loop, and `UserBreak`, the Ctrl-C handler, may run at every one of
them.  `Check` is the breakpoint check, `GdbStartup` to `GdbMemory` the GDB session,
`DapStartup` to `DapDone` the DAP session, `Stepping`, `Interact` and the `Cmd...`
actions the prompt, `MachineStep` one call of `machine_step`, which may hit memory
breakpoints or execute a break or halt instruction.  Variables keep their C names.
Breakpoints are counted by kind and address, so the order of a list is left out: where
the code takes the first of several, any of them may be taken.  GDB is modelled for a
MIPS and DAP for an RV32 processor, the only ones whose structures these sessions
read.  `asked`, `ran`, `held`, `due` and `pressed` are history variables.

**`RvCsr`**: the control and status registers.  A register is the set of its one bits,
so the masks of `csr.c` are sets.  The read, write, set and clear routines of a
register are one operator with the routine's name as a parameter; `Access` is the
order in which `rv_csr_rw`, `rv_csr_rs` and `rv_csr_rc` call them.  The 64-bit counters
are two halves of `Half` bits.

**`RvCpu`**: extends `RvCsr` to the hart.  `cpu_step` is `rv32_cpu_step`: the instruction
unless in standby, then a trap (`m_trap`, `s_trap`) or an interrupt
(`try_handle_interrupt`), then the accounting of counters and timers.  An address is a
set of bits like a register, and `Plus` is the addition of such sets.  The guest is any
program whose k-th instruction is one of a given set; devices raise and lower lines
and the debugger moves the program counter between two steps.  `mframe` and `sframe`
remember what the last trap to each mode interrupted, while the guest has not written
the registers that hold it.

**`RvPte`, `RvMmu`, `RvPaging`**: page tables and the walk; the TLB, the walk that
fills it, the accessed and dirty bits, the four kinds of `sfence.vma`, `satp`, the
console's flush, resize and ASID length, and the debugger's translations, which leave
entries behind; and the abstract specification, in which there is no TLB: an
access goes by a mapping that the tables hold now or have held since the last fence or
flush that covers it.  `Implements` is the refinement, with the variables of
`RvPaging` (`table`, `ad`, `satp`, `past`, `out`) mapped to those of the same name: `past`, the mappings
that a stale entry may still hold, is a history variable of `RvMmu`.

**`R4kCpu`**: `r4k_step`: fetch through the TLB, one instruction of the word's
choices, exceptions (`handle_exception`), the branch state, Random, Count and Compare
(`manage`).  Address conversion has the segments, the modes and the error level;
`tlb_look` starts at the hint as the code does.  Addresses count words and a segment
has a few dozen of them; the mask of a TLB entry is the number of pages in either half
of it.  A physical address that the code leaves uninitialised is any of `Garbage`, and a
failing assertion sets `host` and ends the behaviour.  `Legal` says which operands the
instructions of a guest may have.  `slot`, `frame`, `missed` and `linked` are history
variables: the branch whose delay slot is next, where ERET has to resume, the address of the
last refill, and whether an LL is still to be followed by its SC.

**`Words`, `R4kInstr`, `Sh2eInstr`, `RvInstr`**: every instruction routine of the three
processors, one operator per routine, at a scaled width: a byte has `B` bits, so that
a word of four 1-bit bytes keeps carries, signs, byte lanes and alignment.
**`Sh2eFloat`**: the FPU's numbers and the host's arithmetic on them, in the smallest
format with every class of value.  **`Sh2eDecode`, `R4kDecode`,
`Rv32Decode`, `Rv64Decode`**: the decoders at full width, from fields of a word to the
name of a routine.  **`Isa`** executes short programs on the routines and gives words
to the decoders.

## Runs

| Run | Instance | What it shows |
|---|---|---|
| `disk` | 2-word sectors, up to 2 sectors, 2 words of RAM in a 4-word address space | Transfers stay inside the image whatever the console does (`InFlightInBounds`); INT flag, `ig` and CPU line agree (`InterruptWired`); every undisturbed transfer is exact word by word and is not redirected by later commands (`TransferExact`); every transfer ends (`TransferTerminates`) |
| `sh2e` | two sources, an input, a reset line, three priorities; three guests: undisturbed, with resets, and with every instruction kind, faults, DMA errors and `goto` | The assertions in the reset and exception code hold (`AssertionsHold`); delay slots are what the branch state says (`SlotTruthful`); an interrupt resumes at the next instruction (`InterruptResumesExactly`); the one taken is the one accepted, above the mask and outside disabled windows (`TakenIsAccepted`); exception processing ends and every reset is served (`ProcessingGoesOn`) |
| `timers` | counters modulo 3 (WDT) and 4 (CMT), two periods, instructions of 1 and 3 cycles; one scene per timer and one with the controller alone | Timers keep exact time (`OnTime`); requests appear exactly when due and vanish exactly when accepted (`RequestsExact`); for every mask the arbitration loop serves the best of all requests, its four blind ids apart (`ArbitrationCorrect`); the cause of a watchdog reset survives it (`ResetCauseKept`); an armed watchdog bites (`WatchdogBites`) |
| `mem` | an RV32 and a MIPS processor, two frames of two words, one of them ROM | `sc_list` is exact; an RV32 reservation still valid has not been written; fetched instructions are current |
| `mem_r4k` (violation) | one MIPS processor, two-word lines | A reservation survives stores to its own word |
| `keyboards` | five boards: two keyboards and a `dorder` on two processors of either kind, with numbers of their own, shared with the timer or the software interrupts, folded into one RISC-V line, refused by the R4000; mask bits 0 to 2 | Every key is accounted for; a keyboard's line is up exactly while a key waits, as long as only it drives the line and the processor has not overwritten it (`KeysKept`) |
| `dmac` | channels 0 and 2, counts modulo 3, auto-request, peripheral, burst, no request, unregistered, an illegal size | No transfer for a stopped channel, one request per cycle of transfers, a finished cycle-steal block is final |
| `machine` | two instruction addresses, up to two breakpoints of a kind at one place, `step` up to 2, every option | A stop reaches the prompt or GDB before the next machine step, and a stopped GDB holds the machine (`StopsHold`); `step n` runs n steps; Ctrl-C is answered after at most one step; without debuggers a stop always comes (`StopComes`) |
| `rv` | four guests: traps through both modes, timers and waiting, every CSR instruction in every mode, a debugger's jumps | Interrupts follow the rule of the RISC-V privileged architecture and timer lines say what the timers say (`InterruptsByTheRule`); failing instructions change nothing and returns are exact (`TrapsExact`); control registers stay legal and M mode's out of reach (`ControlConfined`); an armed timer wakes a waiting hart (`ArmedTimerWakes`) |
| `rv_mmu` | Sv32 with two entries a table, a root and a second table, two ASIDs, TLBs of one and two entries, two changes of the tables | Every answer is one `RvPaging` allows (`Implements`); the TLB has accessed and dirty bits only if the table has them (`AdBitsTrue`) |
| `r4k` | three TLB entries, two page sizes, five guests: exceptions around branches with LL and SC, a paging kernel, rewriting of entries, the error level, every mode | Exceptions resume exactly, user mode is confined, the timer interrupt is kept (`ExceptionsExact`); wired entries stay and a refill maps what missed (`TlbwrSafe`); TLBP, TLBR and TLBWI agree with translation (`TlbInstructionsAgree`); SC needs an LL without ERET in between (`LinkFresh`); a miss is served (`MissServed`) |
| `isa` | words of four 1-bit bytes; all 65,536 SH-2E words, every value of each field the R4000 decoder looks at, every RISC-V opcode and `funct3` with 38 values of `funct7` and 6 of `rs2` | Arithmetic against whole numbers, through DIV1 and carry chains, MAC and FPU flags, without the trapping ADD and SUB and saturation (`ArithmeticExact`); unaligned and conditional accesses (`AccessesExact`); a failing routine changes nothing, but for what the known differences list (`PreciseFaults`); decoders agree with each other and, with the exceptions listed below, with the disassemblers (`DecodersAgree`) |

**Bounds.**  A sector of two words has a first, a last and a between; an address space
of two low by two high words, half of it RAM, makes a transfer wrap at the end, cross
the high part, and leave RAM.  Images of one and two sectors allow a replacement by a smaller
one.  Two frames of two words give a store inside and outside a cached frame and
doublewords beside single words.  Three priority levels separate below, at and above
the mask.  The sources of `timers` lie on both sides of both ends of the arbitration
scan.  Transfer counts modulo 3 let a burst (two transfers) neither vanish nor
meet itself; a wrapped count is the largest one.  Three keys per keyboard reach an
overrun after a delivery.  Two addresses separate a breakpoint reached
from one not reached, `step 2` the last step from the others, and two breakpoints at
one place a removal that leaves one.  An instruction of three cycles is worth more than
one count of the shorter period and leaves a remainder of both.  Two entries a table and
two levels give pages beside megapages and pointers beside leaves; two TLB entries give
an eviction that picks one; two changes of the tables let the second meet what the first
left stale.  Three TLB entries of the R4000 are one that is wired, one that Random may
choose and one between; two page sizes let the probe and the access differ.  One-bit bytes
keep each carry, sign and byte lane; the decoders run at full width.  `MaxKeys`,
`MaxStep`, `MaxBps`, `MaxSecno`, `MaxSectors`, `MaxCount` and `MaxChanges` are the bounds
on inputs; the code has no smaller ones.

**Fairness.**  Weak fairness of `Step` (disk) and `CpuStep` (SH-2E processor):
`machine_step` calls the step function of every device in every machine cycle.  For the
timers the same is said of whole cycles (`CyclesGoOn`: the processor and the devices take
turns for ever), for the RISC-V hart of the steps in which its clock moves (`Fairness`:
either it stops ticking again and again, because `mtime` is the host's clock or `cycle`
is inhibited, or ticks come again and again), and for the R4000 of `r4k_step` as
long as the simulator runs.  Weak fairness of `Loop` (main loop): the parts of
`machine_run` that wait for nobody.  Nothing is assumed of guests, users, debuggers and
devices; `MissServed` is about the one guest that is a kernel.

The deadlock check is off where the system may stop: the simulator may end (`keyboards`,
`dmac`, `machine`, `rv`, `r4k`), and a straight-line program ends (`isa`).

Type invariants are part of the properties named above where they are model-checked
(`AssertionsHold`, `OnTime`, `ControlConfined`, `TlbInstructionsAgree`) and of the
inductive invariants where they are proved.

## Proofs

TLAPS proves, for all values of the constants that satisfy the named assumptions:

* `DDiskProofs` (from `DiskConstants`).  `IInv == TypeOK /\ InFlightInBounds` is
  inductive: without the typing, the image's domain is unknown; without the bounds a
  step could write outside it.  This gives `BoundsHold`.  On top of it
  `InterruptStaysWired` is inductive, and `TransferStaysExact` needs `IInv` and that
  a sector is no longer than the address space, so that the words of a buffer that
  wraps are distinct (`WrapDistinct`).  `WholeSectorDelivered` is the action property
  at the last word.  `LowPart` and `HighPart` are the arithmetic of the two address
  registers.
* `BoardProofs`, the machine around the processors, in four parts that share no state.
  - `PhysMem` (from `MemConstants`).  `ResInv` adds to `ScListExact` the types
    and that a valid RV32 reservation has width one and is unbroken; each handler is
    reduced to one of four lemmas (store, reserve, unreserve, conditional store).
    Results: `ScListStaysExact`, `Rv32StaysAtomic`.  `FetchStaysFresh` assumes one
    architecture that fetches and no `fill` or `load`: with two, a shared valid bit
    makes it false (see below).
  - `IrqLines` (from `LineConstants`).  `KeysStayKept`, for any number of keyboards
    and processors of either kind and any numbering the devices accept, whatever the
    processors write themselves.
  - `Sh2eDmac` (from `DmacConstants`).  `DmacInv` is the types, `ActiveHasChannel` and
    `EndNotPassed` (while a channel waits and no burst has been made, its block has not
    ended), without which a finished channel could still be the one that moves.  A cycle
    is followed from the transfer outwards, one lemma per function of the code;
    `CycleFacts` joins them, and `StoppedStaysStopped`, `RequestsAreUsedUp` and
    `CycleStealEnds` are read off it.  Counts must have at least three values: modulo two, a
    burst of two transfers leaves the count as it was and the property could not see it.
  - `Machine` (from `MachineConstants`).  Each property speaks of one place of the
    loop; `IInv` says how a stop travels there.  `DueWaits`: a stop that is due has made
    the machine interactive, or GDB is about to be listened to.  `HeldWaits`: GDB was told
    of a stop only inside its session or on the way to it, which needs
    `DebuggerPointsNeedSession`.  `StepsCounted`: the counter is what is left of the steps,
    plus one between a machine step and the stepping check.  `BreakWaits`: an unanswered
    Ctrl-C keeps the machine interactive.
* `RvMmuProofs` (from `RvPteAssumption` and `RvMmuAssumption`).  The refinement
  `TranslationImplementsPaging`: for every number of levels, page table, set of accesses,
  fence and TLB size, `RvMmu` implements `RvPaging`.  `IInv` is the shape of the TLB with
  `TlbPermitted`: every entry is a mapping in force or one of `past`, so a hit is an
  answer `RvPaging` allows.  The walk is never expanded: what it returns depends on the
  tables and the root only, and the accessed and dirty bits it writes are not part of a
  mapping.  One lemma per operation shows that it keeps `IInv` and is a step of `RvPaging`
  or a stutter.  The ASID register is taken to have one or zero active bits
  (`Asids = 0 .. 1`), as in the run.
  `AdBitsStayTrue`: `AdInv` adds that each entry which was not left by the debugger has only
  accessed and dirty bits that the leaf it came from has in memory.  This needs that a walk ends
  in the page tables (`WalkStaysInTables`), an induction over the levels.
* `Sh2eIntcProofs` (from `IntcConstants`).  For any set of sources, pools and priorities:
  each function of the controller keeps its types, at every mask the scan of
  `sh2e_check_pending_interrupts` returns the highest priority above it and the first source
  of that priority (`TypedArbitratesCorrectly`, an induction along the scan), and an
  acceptance withdraws one request (`AcceptsOnlyOne`).  The next two modules use it.
* `Sh2eCpuProofs` (also from `CpuConstants`).  `ArbitrationStaysCorrect` follows from the types.
  `AssertionsAlwaysHold` needs `TInv`: the types, and that the reset state is entered with a
  reset request.  The other three theorems are about undisturbed programs (no fault, reset, DMA
  error or `goto`): none of `SlotStaysTruthful`, `InterruptsResumeExactly` and
  `TakenStaysAccepted` is inductive, because the exception that is served in one step was
  announced in an earlier one.  `Control` says, for each processing state, what the branch
  state, the pending interrupt, PC and the controller's answer are (`Announced`: the interrupt
  announced is still the one the controller put out, above the mask); `Quiet` says what such a
  program is spared.
* `Sh2eTimersProofs` (also from `TimerConstants`: periods and widths are positive,
  the timers have interrupts of their own).  `TimersOnTime`, `RestartExplained`,
  `TimersRequestExactly` and `TimersArbitrate`, for all periods, widths, instruction lengths,
  register writes and contents of the uninitialised counter.  `OnTime` speaks of the moments
  between two cycles; `TimersInv` also covers those between the processor and the devices, where
  the cycles handed out are not counted yet (`InStep`).  `Explained` says that a
  watchdog reset which is pending or served finds WOVF set, and that nothing can clear it in
  between.  The loops of the two timers are compared, turn by turn, with a countdown in closed
  form (`Down`, `WdtTicksCounted`, `CmtTicksCounted`); `TimeLeft` is the arithmetic by which
  the remainder of the division carries what is left over, however many laps one instruction is worth.
* `RvCpuProofs` (from `RvCsrAssumption` and `RvCpuAssumption`: XLEN is 32 or 64, the operands of
  the guest's instructions have their types).  `RvControlConfined`, `RvTrapsExact` and
  `RvInterruptsByTheRule`, for every guest, any set of performance counters and any width of
  addresses and counters.  `RvInv` is the legal values of the fields
  (`Ready`) with `MKept` and `SKept`: while `mframe` is on, `mepc`, MPP and MPIE hold what the trap
  interrupted, and likewise for S mode.  Without the legal values a trap could find a reserved
  vector mode or a return a mode that does not exist.  A step is
  cut into the instruction (`ExecutedRan`), the trap (`TrappedIs`) and the accounting
  (`AccountedIs`), and `StepPhases` joins them.  The routines of `csr.c` come first, one lemma per
  kind of register; `RoutineDone` says for all of them that below its privilege a register is not
  touched, that a failing access changes nothing and that what is written is legal; `AccessIs` then
  follows `rv_csr_rw`, `rv_csr_rs` and `rv_csr_rc`.  The third theorem is for
  `Xlen = 32`: the 64-bit build has its own order for S mode, which is not that of the comment.
* `R4kCpuProofs` (from `R4kConstants` and `Guests`: the address space is divided into eight
  segments, the vectors lie in theirs, one page is a legal page size and there is a largest
  one, and the operands of the guest's instructions have their types).
  `TlbInstructionsAlwaysAgree`, `LinkStaysFresh`, `TlbwrStaysSafe` and `ExceptionsStayExact`.
  `IInv` ties the history to the registers: a delay slot to `excaddr` and the branch state,
  `frame` to EPC, `missed` to the page number in EntryHi, a link to its LL, Random to Wired,
  Index to the last probe.  Without each of them a step could not know what an earlier one has
  left.  A step is cut in three: the instruction (`Did`, one lemma per routine, on top of
  `Accessed` for the ones that translate an address and `Confined` for the coprocessor), the
  fetch before it (`Executed`), and `manage` (`Managed`), each described by what it may change.
  `SearchOrder` and `LookDoes` show that the lookup finds an entry if there is one wherever
  the hint makes it start; `PairNumbers` is the arithmetic by which the refill exception, MTC0,
  TLBWR and the lookup agree on the page number for every page size.

The provers cannot use the library's induction theorems, which take an operator; where
an induction is needed (the scan, the walk, the lookup, the timers' loops, the order of interrupts) it goes by the least counterexample,
from the well-foundedness of the natural numbers (`LeastOf`, `InductionOnSet`).  In the larger
modules Zenon is tried first and steps with arithmetic cite SMT, which keeps them fast to check.

Only model-checked:

* liveness, which needs fairness and is outside TLAPS: `TransferTerminates`,
  `ProcessingGoesOn`, `WatchdogBites`, `StopComes`, `ArmedTimerWakes`, `MissServed`;
* the instruction modules (`ArithmeticExact`, `AccessesExact`, `PreciseFaults`,
  `DecodersAgree`), whose bit operations and loops are defined recursively;
* `R4kAtomic`, which does not hold.

## Known differences between the code and what is said of it

Shown by a run: `mem_r4k` (finding in `PROJECT.json`).  Met while modelling, in the
models as the code has them, and not stated as properties:

* Disk: a rejected command overwrites the status and so clears BUSY under a running
  transfer (`ddisk.c:696`); ERROR survives later good transfers (`ddisk.c:780`); a
  pure acknowledgement is validated against the sector number (`ddisk.c:708`);
  `cmds_error` is never initialised (`ddisk.c:198`).
* Interrupt controller: the arbitration loop starts one past IRQ0 and ends before id 255,
  which are therefore never delivered (`intc.c:205`), and no code looks at the user break
  and H-UDI interrupts; `ArbitrationCorrect` exempts these four (`Unserved`); deasserting a level-sensed input does not clear its flag
  (`intc.c:313`, against the comment at 172); the NMI branch reports an interrupt without
  storing which one (`intc.c:198`), so an NMI is never taken.
* SH-2E processor: an address error parked behind a delayed branch can leave the
  exception state without a way out (`cpu.c:605`), so `ProcessingGoesOn` is
  stated for programs without faults; `pending_address_error` may hold an FPU
  exception (`cpu.c:622`); an FPU or address exception in a delay slot stacks PC + 2
  (`cpu.c:320`, against 318); an illegal instruction is dropped when an interrupt is
  taken in the same step (`cpu.c:634`); reset leaves `br_state` (`cpu.c:451`).
* SH-2E timers: the watchdog's internal counter is neither initialised nor reset
  (`dsh2ewdt.c:169`); an overflow in watchdog mode without RSTE resets TCSR inside the
  loop, and what is left of the cycles counts as an interval timer (`dsh2ewdt.c:448`);
  clearing OVF or CMF does not withdraw the request; enabling CMIE after a match requests
  nothing; a compare value below the count matches only after the counter wraps
  (`dsh2ecmt.c:551`); SLEEP resets both timers, which therefore cannot wake the processor.
* DMA controller: the second transfer of a burst may end the block, and the state is then
  set back to waiting, so the channel goes on (`dsh2edmac.c:768`); a channel that waits for
  its peripheral keeps the controller from every other channel, whatever its priority; DE
  stays set when RS is rewritten to "no request" together with DE, and the next cycle ends
  in `ASSERT(false)` (`dsh2edmac.c:786`), as does a transfer of the size TS = 3
  (`dsh2edmac.c:679`); SAR2 is reloaded whether RO is set or not
  (`dsh2edmac.c:710`).
* SH-2E instructions: saturating MAC.W uses a wrong lower bound and saturating MAC.L
  cuts the sum to 48 bits (`exec.c:1033`); the NaN the FPU delivers counts as a signalling
  one; LDS to FPSCR clears RM and DN; TRAPA leaves its first push behind when the second
  fails.
* Memory: the valid bit of a frame is shared by the caches of all architectures
  (`riscv_rv32ima/cpu.c:356`); `fill` and `load` do not clear it (`mem.c:228`, 177); an
  RV64 doubleword reservation is compared with four bytes (`memory.c:403`).
* Lines: the keyboard and the `dorder` accept numbers up to 11, of which the R4000 has
  eight: the first interrupt above ends in its assertion; RISC-V takes every number but
  those of the software and external interrupts for the machine's external one; a guest's
  write to `mip`, Cause or Compare may lower a line that a device still holds up.  Devices
  with the same number share one bit, so one that lowers it lowers it
  for all (`dkeyboard.c:57`); a `dorder` mask bit of an absent processor reaches
  processor 0 (`dorder.c:53`, against `doc/reference/devices.rst`).
* RISC-V control: the comment on the trap to S mode says `priv_mode < M`, which would
  ignore SIE in S mode, the code says `priv_mode < S` (`riscv_rv32ima/cpu.c:616`, 618);
  `doc/reference/riscv_special_csr.rst:9` clears the supervisor's timer interrupt by making
  `mcycle` greater than `scyclecmp`, the code by making it smaller
  (`manage_timer_interrupts`); writing `sstatus` clears fields of M mode (`csr.c:410`), writing `mip`
  clears the lines of M mode (`csr.c:1022`, against the comment at 1019); rv64 prefers the
  supervisor's timer over its external interrupt; `csrrc` on a counter compares the whole
  64-bit counter; a write to `mcycleh` reaches a performance counter below the table; an
  instruction page fault leaves `tval` 0; a hart in WFI with interrupts disabled globally
  never wakes.
* RISC-V translation: a translation made for the debugger caches accessed and dirty bits
  that it does not write to the table (`riscv_rv32ima/cpu.c:264`), so a later store may
  leave the page clean; `AdBitsTrue` exempts such entries.  Fences mask the ASID with its
  architectural, not its configured width.  rv64 does not check that addresses are
  canonical.
* RISC-V instructions: AMOs write `rd` before they read `rs2`; an SC that faults has
  written `rd`; `lr.w` and the unsigned word minimum and maximum zero-extend on rv64; reads
  of `mtime` and `mtimecmp` take a byte offset for a bit position (`memory.c:39`), and a
  64-bit write to them shifts by the width of the type.
* R4000 control: an interrupt just after a delay slot sets Cause.BD although EPC is the
  branch's target; a fetch outside memory raises an address error with the EPC of an earlier
  exception; a watchpoint hit ends in `ASSERT(false)`; kuseg at the error level leaves the
  physical address unset (`cpu.c:545`); MTC0 XContext asserts; WAIT is not decoded; entries
  of the TLB that were never written match ASID 0; `_xint` is executed without the option that
  enables machine-specific instructions.
* Decoders: the CP0 function has eight bits and its tables, for execution and for
  disassembly, 64 entries: a function above 63 reads past them (`cpu.c:2792`, 2563), and
  what is then executed or printed is not determined.  The RISC-V disassembler prints
  `(undefined)` for `lr.w` and `sc.w` on rv32, because it compares with the doubleword forms
  (`riscv_rv32ima/mnemonics.c:145`), and on rv64 for every atomic, which are commented out
  (`riscv_rv64ima/mnemonics.c:141`), and every instruction rv32 does not have.
* R4000 instructions: SC and SCD end the link also when the store faults; SUB and DSUB test for the overflow of an addition; JALR writes its link
  register before it reads `rs`; LWR does not sign-extend an unaligned word.
* Main loop: the end of a GDB session removes the user's code breakpoints too
  (`gdb.c:866`, against the comment at 865), and `z2` to `z4` may remove the user's memory
  breakpoint (`breakpoint.c:111`); a failed connection is tried again in every iteration
  (`main.c:286`, against 290); `step n` in the configuration file runs n - 1 steps, because
  the counter goes down before the first one (`main.c:396`); after a Ctrl-C
  between a `step` command and the test of the prompt's loop, `continue` still stops after
  those steps, as only entering the prompt clears them (`input.c:152`); a Ctrl-C swallowed by
  a connecting GDB, or arriving just after `continue`, leaves `machine_break` set, so that
  the next one ends the simulator (`signal.c:23`); a Ctrl-C while GDB is stopped ends the
  session (`gdb.c:91`); a single step onto a breakpoint is reported twice (`gdb.c:888`);
  DAP without a processor goes round the loop for ever (`main.c:307`), and is not read any
  more once it runs; SH-2E processors have no code breakpoints (`breakpoint.c:312`);
  `br` needs the sign-extended address that `break` adds by itself (`dr4kcpu.c:332`).

## Not modelled

* Text parsing and completion, disassembly output, register dumps, host system calls, the
  printer and the LCD's drawing: formatting and I/O without control that a property could be
  about.  The clock and the cycle counter copy a value of the host into a register.
* The device registry and the configuration: they fix the constants of the models.
* rv64's own trap and CSR code beyond the shared `csr.c`: it differs from rv32 in widths and
  in the interrupt order named above.  Its instructions, decoder and translation (any number of levels) are
  modelled.
* The 64-bit address space of the R4000, which no guest can reach because MTC0 masks the mode
  bits; Context and XContext, which repeat BadVAddr.
* Rounding modes of the host's floating point; the DMA controller's addresses and data.
