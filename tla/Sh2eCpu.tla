------------------------------- MODULE Sh2eCpu -------------------------------
(***************************************************************************)
(* The SH-2E processor's control: device/cpu/superh_sh2e/cpu.c, with what  *)
(* the instructions of exec.c and decode.c do to it.  One CpuStep is one   *)
(* call of sh2e_cpu_step(); between two calls devices, the DMA controller  *)
(* and the console act on the processor and on its interrupt controller.   *)
(*                                                                         *)
(* Data is abstracted to what exception entry depends on.  An instruction  *)
(* is one of the kinds in Kinds.  Of the program counter only its relation *)
(* to the last executed instruction is kept: pcNext says whether PC already *)
(* holds the address of the next instruction (it was updated at the end of *)
(* the step) or still that of the last executed one.                       *)
(***************************************************************************)
EXTENDS Sh2eIntc

CONSTANT
    Guests  \* the programs, each with its surroundings:
            \*   kinds   the instructions it contains, a subset of AllKinds
            \*   env     what else may happen: "reset", "dmac", "goto"
            \*   lines   the interrupt sources connected
            \*   levels  the priorities and interrupt masks it uses

Masked  == {"ldc", "ldcFault"}              \* LDC, LDS, STC, STS
Delayed == {"jmp", "bfsNotTaken", "rte", "rteFault"}
Faulty  == {"loadFault", "ldcFault", "fetchFault", "rteFault"}
AllKinds == Masked \cup Delayed \cup Faulty
    \cup {"plain", "storeIpr", "storeIcr", "bt", "trapa", "sleep", "illegal", "fpu"}

ASSUME CpuConstants ==
    /\ \A g \in Guests : /\ g.kinds \subseteq AllKinds /\ g.kinds # {}
                         /\ g.env \subseteq {"reset", "dmac", "goto"}
                         /\ g.lines \subseteq Sources \ Resets
                         /\ g.levels \subseteq Pri

VARIABLES
    prState,    \* pr_state
    brState,    \* br_state
    disInt,     \* disable_interrupts
    disAddr,    \* disable_address_errors
    insnEx,     \* insn_exception
    pendInt,    \* pending_interrupt
    pendAddr,   \* pending_address_error
    resetReq,   \* reset_req
    im,         \* sr.im
    pcNext,     \* PC addresses the next instruction
    guest,      \* the program that runs, one of Guests
    slotNext    \* history: the last instruction was a delayed branch, taken,
                \* and control has not been transferred elsewhere since

cpuVars == <<prState, brState, disInt, disAddr, insnEx, pendInt, pendAddr,
             resetReq, im, pcNext, slotNext, guest>>
vars == <<cpuVars, intc>>

AddressErrors == {"CPU_ADDRESS_ERROR", "DMAC_ADDRESS_ERROR"}
Exceptions == AddressErrors \cup {"FPU_OPERATION", "ILLEGAL_INSTRUCTION", "ILLEGAL_SLOT"}

(* sh2e_cpu_init: everything zero, which for insn_exception is
   SH2E_EXCEPTION_CPU_ADDRESS_ERROR, the first of the enumeration. *)
Init ==
    /\ IntcInit
    /\ prState = "RESET" /\ resetReq = "INITIAL"
    /\ brState = "NONE" /\ disInt = FALSE /\ disAddr = FALSE
    /\ insnEx = "CPU_ADDRESS_ERROR" /\ pendAddr = "NONE" /\ pendInt = 0
    /\ im = 0 /\ pcNext = TRUE /\ slotNext = FALSE
    /\ guest \in Guests

(***************************************************************************)
(* Reset                                                                   *)
(***************************************************************************)
ResetReqOf(r) == CASE r = POWER_ON_RESET_EXTERNAL -> "EXTERNAL"
                   [] r = POWER_ON_RESET_INTERNAL -> "INTERNAL"
                   [] r = MANUAL_RESET -> "MANUAL"

(* sh2e_cpu_check_reset_req found a request: the step ends here. *)
BeginReset ==
    /\ PendingResets(intc) # {}
    /\ resetReq' = ResetReqOf(NextReset(intc))
    /\ prState' = "RESET"
    /\ UNCHANGED <<brState, disInt, disAddr, insnEx, pendInt, pendAddr, im,
                   pcNext, slotNext, intc>>

(* sh2e_reset_state_step with sh2e_cpu_reset. *)
ResetStep ==
    /\ prState = "RESET"
    /\ intc' = IF resetReq = "INITIAL" THEN AcceptReset(intc)
               ELSE InitRegs(AcceptReset(intc))
    /\ im' = MaxPri
    /\ pcNext' = TRUE /\ slotNext' = FALSE
    /\ resetReq' = "NONE"
    /\ prState' = "PROGRAM"
    /\ UNCHANGED <<brState, disInt, disAddr, insnEx, pendInt, pendAddr>>

(***************************************************************************)
(* Program execution                                                       *)
(***************************************************************************)
(* The flags cpu_insn_desc_t gives an instruction.  A misaligned PC raises
   its error before the instruction is decoded: the old flags stay. *)
DisableInterrupts(k) == IF k = "fetchFault" THEN disInt ELSE k \in Masked \cup Delayed
DisableAddressErrors(k) == IF k = "fetchFault" THEN disAddr ELSE k \in Delayed

Unaffected == [br |-> brState, ex |-> "NONE", im |-> im, ps |-> "PROGRAM", ic |-> intc]

(* What executing an instruction may do: the branch state, the exception it
   returns, the interrupt mask, the processing state and the interrupt
   controller's registers afterwards. *)
Raise(e) == {[Unaffected EXCEPT !.ex = e]}
InSlot == brState = "DELAY"
NotInSlot(outcomes) == IF InSlot THEN Raise("ILLEGAL_SLOT") ELSE outcomes

ExecBranchTEq(taken, delayed) ==
    NotInSlot({[Unaffected EXCEPT !.br = CASE ~taken -> brState
                                           [] taken /\ delayed -> "DELAY_NEXT"
                                           [] taken /\ ~delayed -> "EXECUTE"]})
ExecJump == NotInSlot({[Unaffected EXCEPT !.br = "DELAY_NEXT"]})
ExecRte(fault) ==
    NotInSlot(IF fault THEN Raise("CPU_ADDRESS_ERROR")
              ELSE {[Unaffected EXCEPT !.br = "DELAY_NEXT", !.im = m] : m \in guest.levels})
ExecLdc(fault) ==
    IF fault THEN Raise("CPU_ADDRESS_ERROR")
    ELSE {[Unaffected EXCEPT !.im = m] : m \in guest.levels}
ExecStore(effects) == {[Unaffected EXCEPT !.ic = i] : i \in effects}
ExecTrapa == {[Unaffected EXCEPT !.br = "EXECUTE"]}
ExecSleep == {[Unaffected EXCEPT !.ps = "POWER_DOWN"]}
ExecFpu == Raise("FPU_OPERATION")
ExecIllegal == Raise(IF InSlot THEN "ILLEGAL_SLOT" ELSE "ILLEGAL_INSTRUCTION")

Outcomes(k) ==
    CASE k = "plain" -> {Unaffected}
      [] k = "storeIpr" -> ExecStore({WriteIpr(intc, Pool[s], v) : s \in guest.lines, v \in guest.levels})
      [] k = "storeIcr" -> ExecStore(ControlWrites(intc))
      [] k \in Masked -> ExecLdc(k \in Faulty)
      [] k \in {"loadFault", "fetchFault"} -> Raise("CPU_ADDRESS_ERROR")
      [] k = "sleep" -> ExecSleep
      [] k = "trapa" -> ExecTrapa
      [] k = "fpu" -> ExecFpu
      [] k = "illegal" -> ExecIllegal
      [] k = "bt" -> ExecBranchTEq(TRUE, FALSE)
      [] k = "bfsNotTaken" -> ExecBranchTEq(FALSE, TRUE)
      [] k = "jmp" -> ExecJump
      [] k \in {"rte", "rteFault"} -> ExecRte(k \in Faulty)

(* The end of sh2e_program_execution_state_step: the interrupt check, the
   move to exception processing, and otherwise the program counter update. *)
Checked_Always(k, o) == CheckInterrupts(o.ic, o.im)

Checked(k, o) ==
    IF DisableInterrupts(k) THEN [intc |-> o.ic, hit |-> FALSE, out |-> 0]
    ELSE CheckInterrupts(o.ic, o.im)

AfterUpdate_KeepsDelay(br) == IF br = "DELAY_NEXT" THEN "DELAY" ELSE br

AfterUpdate(br) == IF br = "DELAY_NEXT" THEN "DELAY" ELSE "NONE"

FinishInstruction(k, o) ==
    LET check == Checked(k, o)
        pend == IF check.hit THEN check.out ELSE pendInt
        ps == IF o.ex # "NONE" \/ pendAddr # "NONE" \/ pend # 0 THEN "EXCEPTION" ELSE o.ps
    IN  /\ insnEx' = o.ex /\ im' = o.im
        /\ disInt' = DisableInterrupts(k) /\ disAddr' = DisableAddressErrors(k)
        /\ intc' = check.intc /\ pendInt' = pend
        /\ prState' = ps
        /\ pcNext' = (ps = "PROGRAM")
        /\ brState' = IF ps = "PROGRAM" THEN AfterUpdate(o.br) ELSE o.br
        /\ slotNext' = (o.br = "DELAY_NEXT")
        /\ UNCHANGED <<pendAddr, resetReq>>

ProgramStep ==
    /\ prState = "PROGRAM"
    /\ IF PendingResets(intc) # {} THEN BeginReset
       ELSE \E k \in guest.kinds : \E o \in Outcomes(k) : FinishInstruction(k, o)

StandbyStep_NoResetCheck ==
    /\ prState = "POWER_DOWN"
    /\ LET check == CheckInterrupts(intc, im)
       IN  /\ intc' = check.intc
           /\ pendInt' = IF check.hit THEN check.out ELSE pendInt
           /\ prState' = IF check.hit THEN "EXCEPTION" ELSE prState
           /\ UNCHANGED <<brState, disInt, disAddr, insnEx, pendAddr, resetReq,
                          im, pcNext, slotNext>>

(* sh2e_standby_state_step *)
StandbyStep ==
    /\ prState = "POWER_DOWN"
    /\ IF PendingResets(intc) # {} THEN BeginReset
       ELSE LET check == CheckInterrupts(intc, im)
            IN  /\ intc' = check.intc
                /\ pendInt' = IF check.hit THEN check.out ELSE pendInt
                /\ prState' = IF check.hit THEN "EXCEPTION" ELSE prState
                /\ UNCHANGED <<brState, disInt, disAddr, insnEx, pendAddr, resetReq,
                               im, pcNext, slotNext>>

(***************************************************************************)
(* Exception processing                                                    *)
(***************************************************************************)
InterruptStackPc_IgnoresBranch == "pc+2"

InterruptStackPc == IF brState \in {"EXECUTE", "DELAY"} THEN "target" ELSE "pc+2"

(* sh2e_cpu_handle_exception.  A fault while stacking nests one more entry
   for CPU_ADDRESS_ERROR, which leaves the same control state. *)
HandleException(ex) ==
    /\ brState' = IF ex = "ILLEGAL_SLOT" THEN "NONE" ELSE brState
    /\ insnEx' = "NONE"
    /\ prState' = "PROGRAM"
    /\ pcNext' = TRUE /\ slotNext' = FALSE
    /\ UNCHANGED <<disInt, disAddr, pendInt, resetReq, im, intc>>

(* sh2e_exception_state_step first parks an address error raised under
   disable_address_errors; Ex and Addr are the two fields after that. *)
Parks == disAddr /\ insnEx \in AddressErrors
Ex    == IF Parks THEN "NONE" ELSE insnEx
Addr  == IF Parks THEN insnEx ELSE pendAddr

(* Its branches, in their order. *)
AddressErrorWaiting(e) == e \in {Ex, Addr} /\ ~disAddr
NoAddressError == \A e \in AddressErrors : ~AddressErrorWaiting(e)

AcceptedAddressError_PendingOnly == Addr

AcceptedAddressError == IF Addr # "NONE" THEN Addr ELSE Ex

TakeAddressError(e) ==
    /\ AddressErrorWaiting(e)
    /\ e = "DMAC_ADDRESS_ERROR" => ~AddressErrorWaiting("CPU_ADDRESS_ERROR")
    /\ pendAddr' = IF Addr = e THEN Ex ELSE "NONE"
    /\ HandleException(AcceptedAddressError)

TakeFpu ==
    /\ NoAddressError /\ Ex = "FPU_OPERATION"
    /\ pendAddr' = Addr
    /\ HandleException(Ex)

(* sh2e_cpu_handle_interrupt; a stacking fault clears insn_exception too. *)
HandleInterrupt(stackFault) ==
    LET accepted == AcceptInterrupt(intc)
    IN  /\ intc' = accepted.intc /\ im' = accepted.mask
        /\ brState' = "NONE" /\ pendInt' = 0
        /\ prState' = "PROGRAM"
        /\ pcNext' = TRUE /\ slotNext' = FALSE
        /\ insnEx' = IF stackFault THEN "NONE" ELSE Ex
        /\ pendAddr' = Addr
        /\ UNCHANGED <<disInt, disAddr, resetReq>>

TakeInterrupt ==
    /\ NoAddressError /\ Ex # "FPU_OPERATION" /\ pendInt # 0
    /\ \E f \in BOOLEAN : HandleInterrupt(f)

TakeIllegal ==
    /\ NoAddressError /\ Ex \notin {"NONE", "FPU_OPERATION"} /\ pendInt = 0
    /\ pendAddr' = Addr
    /\ HandleException(Ex)

(* No branch applies: the processor stays in exception processing. *)
TakeNothing ==
    /\ NoAddressError /\ Ex = "NONE" /\ pendInt = 0
    /\ insnEx' = Ex /\ pendAddr' = Addr
    /\ UNCHANGED <<prState, brState, disInt, disAddr, pendInt, resetReq, im, pcNext,
                   slotNext, intc>>

ExceptionStep ==
    /\ prState = "EXCEPTION"
    /\ \/ \E e \in AddressErrors : TakeAddressError(e)
       \/ TakeFpu
       \/ TakeInterrupt
       \/ TakeIllegal
       \/ TakeNothing

CpuStep == (ResetStep \/ ProgramStep \/ StandbyStep \/ ExceptionStep) /\ UNCHANGED guest

(***************************************************************************)
(* The rest of the machine                                                 *)
(***************************************************************************)
DeviceInterrupt ==
    /\ \E s \in guest.lines : DevAssert(s) \/ DevDeassert(s)
    /\ UNCHANGED cpuVars

ResetRequest ==
    /\ "reset" \in guest.env
    /\ \E r \in Sources \cap Resets : DevAssert(r)
    /\ UNCHANGED cpuVars

(* The DMA controller, which runs only once the guest has set it up, reports
   an address error: sh2e_cpu_assert_interrupt(DMAC vector). *)
DmacError ==
    /\ "dmac" \in guest.env /\ resetReq # "INITIAL"
    /\ pendAddr' = "DMAC_ADDRESS_ERROR"
    /\ prState' = "EXCEPTION"
    /\ UNCHANGED <<brState, disInt, disAddr, insnEx, pendInt, resetReq, im, pcNext,
                   slotNext, guest, intc>>

(* The goto command of the console: sh2e_cpu_goto. *)
Goto ==
    /\ "goto" \in guest.env
    /\ pcNext' = TRUE /\ slotNext' = FALSE
    /\ UNCHANGED <<prState, brState, disInt, disAddr, insnEx, pendInt, pendAddr,
                   resetReq, im, guest, intc>>

Next == CpuStep \/ DeviceInterrupt \/ ResetRequest \/ DmacError \/ Goto

(* machine_step() calls the processor's step in every machine cycle. *)
Spec == Init /\ [][Next]_vars /\ WF_vars(CpuStep)

(***************************************************************************)
(* Properties                                                              *)
(***************************************************************************)
(* Every field of sh2e_cpu_t and of its controller has a value of its type. *)
TypeOK ==
    /\ IntcTypeOK
    /\ prState \in {"RESET", "PROGRAM", "EXCEPTION", "POWER_DOWN"}
    /\ brState \in {"NONE", "DELAY_NEXT", "DELAY", "EXECUTE"}
    /\ disInt \in BOOLEAN /\ disAddr \in BOOLEAN
    /\ insnEx \in Exceptions \cup {"NONE"} /\ pendAddr \in Exceptions \cup {"NONE"}
    /\ pendInt \in {0, NMI_VECTOR} \cup Sources
    /\ resetReq \in {"NONE", "INITIAL", "EXTERNAL", "INTERNAL", "MANUAL"}
    /\ im \in Pri /\ pcNext \in BOOLEAN /\ slotNext \in BOOLEAN

(* The assertions of sh2e_cpu_step hold, whatever interrupts, errors and
   requests come in between.  sh2e_reset_state_step never meets
   SH2E_RESET_REQ_NONE ("Should not happen").  sh2e_cpu_handle_exception is only
   ever called with an exception it knows, also with address errors parked,
   nested with FPU exceptions or reported asynchronously.  And no switch of the
   code meets a state it does not know. *)
AssertionsHold ==
    /\ TypeOK
    /\ prState = "RESET" => resetReq # "NONE"
    /\ prState = "EXCEPTION" /\ ~NoAddressError => AcceptedAddressError \in Exceptions

(* Where a program that is interrupted now has to be resumed: the address of
   the instruction that would be executed next. *)
ResumePc == CASE pcNext -> "pc"
              [] ~pcNext /\ brState = "NONE" -> "pc+2"
              [] ~pcNext /\ brState \in {"DELAY", "EXECUTE"} -> "target"
              [] OTHER -> "unresumable"

(* A program that raises no address error and is left alone by the reset lines,
   the DMA controller and the console.  What follows about delay slots and
   interrupts is said of such programs: sh2e_reset_state_step leaves the branch
   state and a pending interrupt behind, and so does a fault in a slot. *)
Undisturbed == guest.env = {} /\ guest.kinds \cap (Faulty \cup {"fpu", "storeIcr"}) = {}

(* The PC pushed by sh2e_cpu_handle_interrupt is the address of the next
   instruction, also when the interrupt follows a branch, a TRAPA, a delay
   slot or a SLEEP inside one. *)
InterruptResumesExactly ==
    [][Undisturbed /\ prState = "EXCEPTION" /\ TakeInterrupt => InterruptStackPc = ResumePc]_vars

(* The interrupt whose vector is fetched is the one the controller withdraws
   and whose priority becomes the mask: pending_interrupt, read at the check,
   still names the controller's interrupt_out when it is taken one step later,
   and that interrupt was above the mask.  It is not taken in a window that
   decode.h (disable_interrupts) closes: "Ignore interrupts between this and
   the following instruction." *)
TakenIsAccepted ==
    [][Undisturbed /\ prState = "EXCEPTION" /\ TakeInterrupt =>
          pendInt = intc.interruptOut /\ im' > im /\ ~disInt]_vars

(* cpu.h, SH2E_BRANCH_STATE_DELAY: "This instruction is in a delay slot of a
   branch instruction"; and no delay slot is executed without it. *)
SlotTruthful ==
    Undisturbed /\ prState = "PROGRAM" => (brState = "DELAY") = slotNext

(* Exception processing ends: sh2e_exception_state_step finds something to do
   and returns to program execution.  And a reset request is never lost: it
   brings the processor to the reset state whatever it is doing, unless address
   errors keep it in exception processing. *)
ProcessingGoesOn ==
    /\ (Undisturbed /\ prState = "EXCEPTION") ~> prState # "EXCEPTION"
    /\ (guest.kinds \cap Faulty = {} /\ "dmac" \notin guest.env /\ PendingResets(intc) # {})
           ~> prState = "RESET"
=============================================================================
