------------------------------ MODULE IrqLines ------------------------------
(***************************************************************************)
(* The interrupt lines of the processors and the devices that drive them  *)
(* without a controller: keyboards (device/dkeyboard.c) and the            *)
(* interprocessor device (device/dorder.c), through cpu_interrupt_up and   *)
(* cpu_interrupt_down of device/cpu/general_cpu.c and the routines of the  *)
(* R4000 and of the two RISC-V processors behind them.  A line is one bit  *)
(* of the processor: whoever lowers it lowers it for every device that     *)
(* raised it, and some bits the guest or the processor write as well.  The *)
(* SH-2E hands the number to its controller, see Sh2eIntc.                 *)
(***************************************************************************)
EXTENDS Integers

CONSTANTS
    NCpus,      \* configured processors
    MaskBits,   \* bits of a dorder mask (0 .. 31)
    Keyboards,
    Boards,     \* configurations considered
    Keys, NoKey,
    MaxKeys     \* key presses considered, the bound on the counters

MAX_INTRS == 11     \* the largest number dkeyboard_init and dorder_init accept
INTR_COUNT == 8     \* interrupt bits of the R4000 Cause register

\* RISC-V interrupt numbers, RV_INTERRUPT_NO of the exception codes
SSI == 1
MSI == 3
SEI == 9
MEI == 11

(* get_free_cpuno hands out the numbers in order and no processor is ever
   removed. *)
Cpus == 0 .. NCpus - 1

ASSUME LineConstants ==
    /\ NCpus \in Nat \ {0}
    /\ MaskBits \subseteq Nat
    /\ Boards \subseteq [kind : [Cpus -> {"r4k", "rv"}],
                         intno : [Keyboards -> 0 .. MAX_INTRS],   \* of each keyboard
                         order : 0 .. MAX_INTRS]                  \* of the dorder device
    /\ NoKey \notin Keys /\ MaxKeys \in Nat

VARIABLES
    board,      \* the configuration
    host,       \* "up", or "assert" once an ASSERT has stopped MSIM
    lines,      \* the raised interrupt bits of each processor
    incomming,  \* character buffer of each keyboard
    ig,         \* its interrupt pending flag
    intrcount, keycount, overrun,   \* its statistics
    delivered,  \* history: keys handed to the guest
    driven      \* history: the bits of each processor a device was the last to write

kbVars == <<incomming, ig, intrcount, keycount, overrun, delivered>>
lineVars == <<host, lines, driven>>
linesVars == <<board, lineVars, kbVars>>

(* get_fallback_cpu: the first choice, processor 0, always exists. *)
FallbackCpu == 0

(* get_cpu(no), NULL replaced by the fallback as cpu_interrupt_up does. *)
Target(no) == IF no \in Cpus THEN no ELSE FallbackCpu

LinesInit ==
    /\ board \in Boards
    /\ host = "up"
    /\ driven = [c \in Cpus |-> 0 .. MAX_INTRS]
    /\ lines = [c \in Cpus |-> {}]
    /\ incomming \in [Keyboards -> Keys \cup {NoKey}]  \* not assigned by dkeyboard_init
    /\ ig = [k \in Keyboards |-> FALSE]
    /\ intrcount = [k \in Keyboards |-> 0]
    /\ keycount = [k \in Keyboards |-> 0]
    /\ overrun = [k \in Keyboards |-> 0]
    /\ delivered = [k \in Keyboards |-> 0]

(* The bit a number stands for.  RISC-V knows the two software and the two
   external interrupts (SEI is the flag external_SEIP, not the bit of mip) and
   takes every other number for MEI. *)
Line(c, n) == IF board.kind[c] = "rv" /\ n \notin {SSI, MSI, SEI, MEI} THEN MEI ELSE n

(* ASSERT(no < INTR_COUNT): the R4000 has eight bits, the devices accept
   twelve numbers. *)
Refused(cs, n) == \E c \in cs : board.kind[c] = "r4k" /\ n >= INTR_COUNT

Drive(cs, n, up) ==
    IF Refused(cs, n)
    THEN host' = "assert" /\ UNCHANGED <<lines, driven>>
    ELSE /\ lines' = [c \in Cpus |-> IF c \notin cs THEN lines[c]
                                     ELSE IF up THEN lines[c] \cup {Line(c, n)}
                                     ELSE lines[c] \ {Line(c, n)}]
         /\ driven' = [c \in Cpus |-> IF c \in cs THEN driven[c] \cup {Line(c, n)}
                                      ELSE driven[c]]
         /\ UNCHANGED host

InterruptUp(cs, n)   == Drive(cs, n, TRUE)
InterruptDown(cs, n) == Drive(cs, n, FALSE)

(***************************************************************************)
(* Keyboard                                                                *)
(***************************************************************************)

(* gen_key: from the console's gen command or from keyboard_step4k. *)
GenKey(k, c) ==
    /\ keycount[k] < MaxKeys
    /\ incomming' = [incomming EXCEPT ![k] = c]
    /\ keycount' = [keycount EXCEPT ![k] = @ + 1]
    /\ ig' = [ig EXCEPT ![k] = TRUE]
    /\ IF ig[k]
       THEN /\ overrun' = [overrun EXCEPT ![k] = @ + 1]
            /\ UNCHANGED <<intrcount, lineVars>>
       ELSE /\ intrcount' = [intrcount EXCEPT ![k] = @ + 1]
            /\ InterruptUp({FallbackCpu}, board.intno[k])
            /\ UNCHANGED overrun
    /\ UNCHANGED delivered

ReadChar_KeepsLine(k) ==
    /\ incomming' = [incomming EXCEPT ![k] = NoKey]
    /\ ig' = [ig EXCEPT ![k] = FALSE]
    /\ delivered' = [delivered EXCEPT ![k] = IF ig[k] THEN @ + 1 ELSE @]
    /\ UNCHANGED <<lineVars, intrcount, keycount, overrun>>

(* keyboard_read32: by the guest, or by the console's dumpmem. *)
ReadChar(k) ==
    /\ incomming' = [incomming EXCEPT ![k] = NoKey]
    /\ ig' = [ig EXCEPT ![k] = FALSE]
    /\ delivered' = [delivered EXCEPT ![k] = IF ig[k] THEN @ + 1 ELSE @]
    /\ IF ig[k] THEN InterruptDown({FallbackCpu}, board.intno[k]) ELSE UNCHANGED lineVars
    /\ UNCHANGED <<intrcount, keycount, overrun>>

(***************************************************************************)
(* Interprocessor device                                                   *)
(***************************************************************************)
Targets(mask) == {Target(i) : i \in mask}

SyncUp(mask)   == InterruptUp(Targets(mask), board.order) /\ UNCHANGED kbVars
SyncDown(mask) == InterruptDown(Targets(mask), board.order) /\ UNCHANGED kbVars

(***************************************************************************)
(* Bits of its interrupt register a processor writes itself                *)
(***************************************************************************)
Overwrite(c, bits, value) ==
    /\ lines' = [lines EXCEPT ![c] = (@ \ bits) \cup value]
    /\ driven' = [driven EXCEPT ![c] = @ \ bits]
    /\ UNCHANGED <<host, kbVars>>

(* mip_write assigns the whole register, of which only the supervisor bits of
   the value survive; external_SEIP is not part of it. *)
WriteMip(c) ==
    board.kind[c] = "rv" /\ \E v \in SUBSET {SSI} : Overwrite(c, {SSI, MSI, MEI}, v)

(* sip_write, and the set and clear forms of sip and mip. *)
WriteSip(c) ==
    board.kind[c] = "rv" /\ \E v \in SUBSET {SSI} : Overwrite(c, {SSI}, v)

(* MTC0 and DMTC0 to Cause: the two software interrupts. *)
WriteCause(c) ==
    board.kind[c] = "r4k" /\ \E v \in SUBSET {0, 1} : Overwrite(c, {0, 1}, v)

(* MTC0 and DMTC0 to Compare acknowledge the timer, manage raises it. *)
WriteCompare(c) == board.kind[c] = "r4k" /\ Overwrite(c, {INTR_COUNT - 1}, {})
CountHits(c) ==
    board.kind[c] = "r4k" /\ Overwrite(c, {INTR_COUNT - 1}, {INTR_COUNT - 1})

OwnWrite(c) ==
    WriteMip(c) \/ WriteSip(c) \/ WriteCause(c) \/ WriteCompare(c) \/ CountHits(c)

LinesNext ==
    /\ host = "up"
    /\ \/ \E k \in Keyboards, c \in Keys : GenKey(k, c)
       \/ \E k \in Keyboards : ReadChar(k)
       \/ \E mask \in SUBSET MaskBits : SyncUp(mask) \/ SyncDown(mask)
       \/ \E c \in Cpus : OwnWrite(c)
    /\ UNCHANGED board

LinesSpec == LinesInit /\ [][LinesNext]_linesVars

(***************************************************************************)
(* Properties                                                              *)
(***************************************************************************)
(* Every field has a value of its type. *)
LinesTypeOK ==
    /\ board \in Boards
    /\ host \in {"up", "assert"}
    /\ lines \in [Cpus -> SUBSET (0 .. MAX_INTRS)]
    /\ driven \in [Cpus -> SUBSET (0 .. MAX_INTRS)]
    /\ incomming \in [Keyboards -> Keys \cup {NoKey}]
    /\ ig \in [Keyboards -> BOOLEAN]
    /\ intrcount \in [Keyboards -> Nat] /\ keycount \in [Keyboards -> Nat]
    /\ overrun \in [Keyboards -> Nat] /\ delivered \in [Keyboards -> Nat]

(* The statistics account for every key: each press either raised an
   interrupt or overran, and each interrupt was answered by a read or is the
   one still pending. *)
KeysAccounted ==
    \A k \in Keyboards :
        /\ keycount[k] = intrcount[k] + overrun[k]
        /\ intrcount[k] = delivered[k] + (IF ig[k] THEN 1 ELSE 0)

KeyLine(k) == Line(FallbackCpu, board.intno[k])
Sharing(k) == {j \in Keyboards : KeyLine(j) = KeyLine(k)}

(* The bit of the processor and the pending flags behind it, as long as a
   device was the last to write that bit and the dorder device uses another:
   it is never up without a key waiting at one of the keyboards that share it,
   and a keyboard that has it for itself has its key announced, through
   overruns and spurious reads.  (Where two keyboards share it, reading one takes the other's
   interrupt away: see rv32_interrupt_down's own comment.) *)
KeyboardWired ==
    \A k \in Keyboards :
        host = "up" /\ KeyLine(k) \in driven[FallbackCpu]
                    /\ KeyLine(k) # Line(FallbackCpu, board.order) =>
            /\ KeyLine(k) \in lines[FallbackCpu] => \E j \in Sharing(k) : ig[j]
            /\ ig[k] /\ Sharing(k) = {k} => KeyLine(k) \in lines[FallbackCpu]

(* No key press is forgotten: the statistics account for it and the processor
   is told of it, in whatever order keys, reads, other devices and the guest's
   own writes of the interrupt register come. *)
KeysKept == KeysAccounted /\ KeyboardWired
=============================================================================
