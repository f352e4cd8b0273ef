------------------------------ MODULE Sh2eIntc ------------------------------
(***************************************************************************)
(* The SH-2E interrupt controller: device/intc/superh_sh2e/intc.c and the *)
(* register window of device/dsh2eintc.c.  The controller's state is the  *)
(* record sh2e_intc_t; its functions are operators on that record, so that *)
(* the processor model (Sh2eCpu) can apply several of them in one step, as *)
(* sh2e_cpu_step() does.  IntcNext drives the controller on its own.       *)
(*                                                                         *)
(* Registers are kept as the sets and functions their bits stand for: isr  *)
(* and sense are the sets of IRQ inputs whose flag, or edge-sense bit, is  *)
(* set; ipr gives the half-byte of each priority pool.                     *)
(***************************************************************************)
EXTENDS Integers, FiniteSets, Sequences

CONSTANTS
    Sources,    \* source ids registered with addintsrc
    Pool,       \* their priority_pool_index
    MaxPri,     \* SH2E_INTC_PRIORITY_MAX_VALUE (15)
    BootPri     \* priority of every pool when the configuration is loaded

POWER_ON_RESET_EXTERNAL == 0
POWER_ON_RESET_INTERNAL == 1
MANUAL_RESET == 2

NMI_VECTOR == 11
UBC_VECTOR == 12
HUDI_VECTOR == 14
IRQ_VECTOR == 64
SOURCE_MAX == 255

Resets  == POWER_ON_RESET_EXTERNAL .. MANUAL_RESET
Irqs    == IRQ_VECTOR .. IRQ_VECTOR + 7
Others  == IRQ_VECTOR + 8 .. SOURCE_MAX
ValidId == Resets \cup {HUDI_VECTOR, UBC_VECTOR} \cup Irqs \cup Others

MyIrqs  == Sources \cap Irqs
MyPools == {Pool[s] : s \in Sources \ Resets}
Pri     == 0 .. MaxPri

ASSUME IntcConstants ==
    /\ Sources \subseteq ValidId /\ Sources # {}
    /\ Pool \in [Sources -> 0 .. 47]
    /\ MaxPri \in Nat \ {0}
    /\ BootPri \in [MyPools -> Pri]

Intc == [ipr : [MyPools -> Pri], nmie : BOOLEAN, nmil : BOOLEAN,
         sense : SUBSET MyIrqs, isr : SUBSET MyIrqs, nmiPrev : BOOLEAN,
         pending : SUBSET (Sources \ Irqs),
         interruptOut : {0, NMI_VECTOR} \cup Sources, priorityOut : Pri]

(* sh2e_intc_init followed by the addintsrc commands of the configuration. *)
BootIntc ==
    [ipr |-> BootPri, nmie |-> FALSE, nmil |-> FALSE, sense |-> {}, isr |-> {},
     nmiPrev |-> FALSE, pending |-> {}, interruptOut |-> 0, priorityOut |-> 0]

(* sh2e_intc_init_regs: every register reads zero; requests stay pending. *)
InitRegs(ic) ==
    [ic EXCEPT !.ipr = [p \in MyPools |-> 0], !.nmie = FALSE, !.nmil = FALSE,
               !.sense = {}, !.isr = {}]

(***************************************************************************)
(* Requests                                                                *)
(***************************************************************************)

AssertInt(ic, num) ==
    IF num \in Irqs THEN [ic EXCEPT !.isr = @ \cup {num}]
    ELSE [ic EXCEPT !.pending = @ \cup {num}]

(* sh2e_clear_irq_interrupt clears the flag of an edge-sensed input only. *)
ClearIrq(ic, num) ==
    IF num \in ic.sense THEN [ic EXCEPT !.isr = @ \ {num}] ELSE ic

DeassertInt(ic, num) ==
    IF num \in Irqs THEN ClearIrq(ic, num) ELSE [ic EXCEPT !.pending = @ \ {num}]

GetPriority(ic, s) == ic.ipr[Pool[s]]

IsPending(ic, s) == IF s \in Irqs THEN s \in ic.isr ELSE s \in ic.pending

(* sh2e_check_nmi_interrupt: an edge of the NMI level bit since the last
   check, rising or falling as NMIE selects. *)
NmiDetected(ic) ==
    IF ic.nmie THEN ~ic.nmiPrev /\ ic.nmil ELSE ic.nmiPrev /\ ~ic.nmil

(***************************************************************************)
(* Arbitration.  The loop of sh2e_check_pending_interrupts runs over the   *)
(* ids IRQ_VECTOR + 1 .. SOURCE_MAX - 1 in ascending order and keeps the   *)
(* best source so far; 0 stands for none.  Arbitrate goes from each id that *)
(* is registered to the one before it: best[s] is the best after s.        *)
(***************************************************************************)
Scanned_StopsEarly == {s \in Sources : IRQ_VECTOR < s /\ s < SOURCE_MAX - 1}
Scanned == {s \in Sources : IRQ_VECTOR < s /\ s < SOURCE_MAX}
Before == [s \in Scanned \cup {SOURCE_MAX} |->
              CHOOSE r \in Scanned \cup {IRQ_VECTOR} : r < s /\ \A q \in Scanned : q < s => q <= r]

Better(ic, mask, best, s) ==
    IF /\ IsPending(ic, s)
       /\ GetPriority(ic, s) > best.pri \/ best.src = 0
       /\ GetPriority(ic, s) > mask
    THEN [src |-> s, pri |-> GetPriority(ic, s)]
    ELSE best

None == [src |-> 0, pri |-> 0]
Arbitrate(ic, mask) ==
    LET best[s \in Scanned \cup {IRQ_VECTOR}] ==
            IF s = IRQ_VECTOR THEN None ELSE Better(ic, mask, best[Before[s]], s)
    IN best[Before[SOURCE_MAX]]

(* sh2e_check_pending_interrupts: the controller after the check, whether it
   reports an interrupt, and the value it leaves in *interrupt_out (which the
   caller initialised to 0 and the NMI branch does not assign). *)
CheckInterrupts(ic, mask) ==
    LET sampled == [ic EXCEPT !.nmiPrev = ic.nmil]
        best == Arbitrate(ic, mask)
    IN  IF NmiDetected(ic)
        THEN [intc |-> [sampled EXCEPT !.interruptOut = NMI_VECTOR, !.priorityOut = MaxPri],
              hit |-> TRUE, out |-> 0]
        ELSE [intc |-> [sampled EXCEPT !.interruptOut = best.src, !.priorityOut = best.pri],
              hit |-> best.src # 0, out |-> best.src]

(* sh2e_check_pending_resets: external power-on, internal power-on, manual. *)
PendingResets(ic) == ic.pending \cap Resets
NextReset(ic) == CHOOSE r \in PendingResets(ic) : \A q \in PendingResets(ic) : r <= q

(***************************************************************************)
(* Acceptance                                                              *)
(***************************************************************************)

AcceptInterrupt(ic) ==
    LET done == [ic EXCEPT !.priorityOut = 0]
        num == ic.interruptOut
    IN  [intc |-> IF num \in Irqs THEN ClearIrq(done, num)
                  ELSE [done EXCEPT !.pending = @ \ {num}, !.interruptOut = 0],
         mask |-> ic.priorityOut]

AcceptReset(ic) == [ic EXCEPT !.pending = @ \ Resets]

(***************************************************************************)
(* Register writes by the guest (dsh2eintc_write16)                        *)
(***************************************************************************)
WriteIpr(ic, p, v) == [ic EXCEPT !.ipr[p] = v]
WriteIcr(ic, nmil, nmie, sense) ==
    [ic EXCEPT !.nmil = nmil, !.nmie = nmie, !.sense = sense]
WriteIsr(ic, isr) == [ic EXCEPT !.isr = isr]

PriorityWrites(ic) == {WriteIpr(ic, p, v) : p \in MyPools, v \in Pri}
ControlWrites(ic) ==
    {WriteIcr(ic, l, e, s) : l, e \in BOOLEAN, s \in SUBSET MyIrqs}
        \cup {WriteIsr(ic, f) : f \in SUBSET MyIrqs}

(***************************************************************************)
(* The controller on its own                                               *)
(***************************************************************************)
VARIABLE intc

IntcInit == intc = BootIntc

DevAssert(s)   == intc' = AssertInt(intc, s)
DevDeassert(s) == intc' = DeassertInt(intc, s)

GuestWrite == intc' \in PriorityWrites(intc) \cup ControlWrites(intc)

CpuCheck(mask) == intc' = CheckInterrupts(intc, mask).intc
CpuAccept == intc.interruptOut # 0 /\ intc' = AcceptInterrupt(intc).intc
CpuAcceptReset == PendingResets(intc) # {} /\ intc' = AcceptReset(intc)
CpuInitRegs == intc' = InitRegs(intc)

IntcNext ==
    \/ \E s \in Sources : DevAssert(s) \/ DevDeassert(s)
    \/ GuestWrite
    \/ \E m \in Pri : CpuCheck(m)
    \/ CpuAccept
    \/ CpuAcceptReset
    \/ CpuInitRegs

(***************************************************************************)
(* Properties                                                              *)
(***************************************************************************)
(* Every field of sh2e_intc_t holds a value of its type. *)
IntcTypeOK == intc \in Intc

(* The requests documented as interrupts (devices.rst): every source that is
   registered and is not a reset, pending with a priority above the mask. *)
Eligible(ic, mask) ==
    {s \in Sources \ Resets : IsPending(ic, s) /\ GetPriority(ic, s) > mask}

(* The ids whose requests the code never serves, documented or not: the scan
   starts behind IRQ0 and ends before the last id, and nothing looks at the
   user break controller and the debugging interface. *)
Unserved == {UBC_VECTOR, HUDI_VECTOR, IRQ_VECTOR, SOURCE_MAX}

(* The loop of sh2e_check_pending_interrupts, bounds included, against what it
   is for: it finds a request that is eligible, and no other one, those of the
   Unserved ids apart, has a higher priority or the same and a lower id; it
   finds none only if nothing but Unserved requests is eligible.  Checked for
   every mask in every reachable state. *)
ArbitrationCorrect ==
    \A mask \in Pri :
        LET best == Arbitrate(intc, mask)
            cand == Eligible(intc, mask)
        IN  \/ best = None /\ cand \subseteq Unserved
            \/ /\ best.src \in cand /\ best.pri = GetPriority(intc, best.src)
               /\ \A s \in cand \ Unserved : \/ GetPriority(intc, s) < best.pri
                                             \/ GetPriority(intc, s) = best.pri /\ best.src <= s

(* What is accepted is withdrawn: after sh2e_accept_interrupt the accepted
   peripheral request is no longer pending, and no other request is lost. *)
AcceptWithdrawsOnlyItself ==
    CpuAccept =>
        /\ intc'.pending = intc.pending \ {intc.interruptOut}
        /\ intc'.isr = IF intc.interruptOut \in intc.sense
                       THEN intc.isr \ {intc.interruptOut} ELSE intc.isr
=============================================================================
