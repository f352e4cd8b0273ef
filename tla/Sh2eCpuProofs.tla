---------------------------- MODULE Sh2eCpuProofs ----------------------------
(***************************************************************************)
(* The SH-2E processor and its interrupt controller, for every set of      *)
(* sources, every assignment of priorities and every guest.                *)
(*                                                                         *)
(* The controller's part is in Sh2eIntcProofs.  The processor's assertions  *)
(* follow from the types and one fact about resets.  What is said of       *)
(* undisturbed programs needs the invariant Control, which ties the branch *)
(* state, the pending interrupt and the controller's answer to the         *)
(* processing state.                                                       *)
(***************************************************************************)
EXTENDS Sh2eCpu, Sh2eIntcProofs

---------------------------------------------------------------------------
\* The instructions.
Branches == {"NONE", "DELAY_NEXT", "DELAY", "EXECUTE"}
OutcomeType == [br : Branches, ex : Exceptions \cup {"NONE"}, im : Pri,
                ps : {"PROGRAM", "POWER_DOWN"}, ic : Intc]

\* The guest that runs is one of Guests.
LEMMA GuestIs ==
    ASSUME guest \in Guests
    PROVE  /\ guest.kinds \subseteq AllKinds /\ guest.env \subseteq {"reset", "dmac", "goto"}
           /\ guest.lines \subseteq Sources \ Resets /\ guest.levels \subseteq Pri
    BY CpuConstants

\* What is true of every outcome of an instruction: an address error comes from a
\* faulty instruction, an FPU exception from an FPU instruction, an illegal one is
\* not in a slot and does not branch, a slot follows a delayed branch only, and only
\* SLEEP leaves program execution (exec.c, decode.c).
Sound(k, o) ==
    /\ o \in OutcomeType
    /\ o.ex \in AddressErrors => k \in Faulty
    /\ o.ex = "FPU_OPERATION" => k = "fpu"
    /\ o.ex = "ILLEGAL_INSTRUCTION" => brState # "DELAY" /\ o.br = brState
    /\ o.br # "DELAY_NEXT" \/ o.br = brState \/ (k \in Delayed /\ o.ex = "NONE" /\ o.ps = "PROGRAM")
    /\ o.ps = "POWER_DOWN" => k = "sleep" /\ o.ex = "NONE"
    /\ \/ k = "storeIcr"
       \/ Registers(o.ic) = Registers(intc) /\ o.ic.pending = intc.pending

\* Every outcome of every instruction is sound (exec.c, decode.c).
LEMMA OutcomesSound ==
    ASSUME TypeOK, guest \in Guests, NEW k \in AllKinds, NEW o \in Outcomes(k)
    PROVE  Sound(k, o)
<1> USE DEF Branches, Exceptions, AddressErrors
<1>1. brState \in Branches /\ im \in Pri /\ intc \in Intc
    BY DEF TypeOK, IntcTypeOK
<1>2. Unaffected = [br |-> brState, ex |-> "NONE", im |-> im, ps |-> "PROGRAM", ic |-> intc]
    BY DEF Unaffected
<1>3. \A m \in guest.levels : m \in Pri
    BY GuestIs
<1>4. ASSUME NEW e \in Exceptions, o \in Raise(e),
             e \in AddressErrors => k \in Faulty, e = "FPU_OPERATION" => k = "fpu",
             e = "ILLEGAL_INSTRUCTION" => brState # "DELAY"
      PROVE  Sound(k, o)
    BY <1>1, <1>2, <1>4 DEF Raise, Sound, OutcomeType
<1>5. CASE k = "plain"
    <2>1. o = Unaffected
        BY <1>5 DEF Outcomes, Masked
    <2> QED BY <1>1, <1>2, <2>1 DEF Sound, OutcomeType
<1>6. CASE k = "storeIpr"
    <2>1. PICK s \in guest.lines, v \in guest.levels : o = [Unaffected EXCEPT !.ic = WriteIpr(intc, Pool[s], v)]
        <3>1. o \in ExecStore({WriteIpr(intc, Pool[s], v) : s \in guest.lines, v \in guest.levels})
            BY <1>6 DEF Outcomes, Masked
        <3> QED BY <3>1 DEF ExecStore
    <2>2. Pool[s] \in MyPools /\ v \in Pri
        BY <1>3, <2>1, GuestIs DEF MyPools
    <2>3. /\ WriteIpr(intc, Pool[s], v) \in Intc
          /\ Registers(WriteIpr(intc, Pool[s], v)) = Registers(intc)
          /\ WriteIpr(intc, Pool[s], v).pending = intc.pending
        BY <1>1, <2>2, WriteIprTyped
    <2> QED BY <1>1, <1>2, <2>1, <2>3 DEF Sound, OutcomeType
<1>7. CASE k = "storeIcr"
    <2>1. PICK i \in ControlWrites(intc) : o = [Unaffected EXCEPT !.ic = i]
        <3>1. o \in ExecStore(ControlWrites(intc))
            BY <1>7 DEF Outcomes, Masked
        <3> QED BY <3>1 DEF ExecStore
    <2>2. i \in Intc
        BY <1>1, <2>1, ControlWritesTyped
    <2> QED BY <1>1, <1>2, <1>7, <2>1, <2>2 DEF Sound, OutcomeType
<1>8. CASE k \in Masked
    <2>1. \/ o \in Raise("CPU_ADDRESS_ERROR") /\ k \in Faulty
          \/ \E m \in guest.levels : o = [Unaffected EXCEPT !.im = m]
        <3>1. CASE k = "ldc"
            <4>1. k \notin Faulty
                BY <3>1 DEF Faulty
            <4>2. Outcomes(k) = ExecLdc(k \in Faulty)
                BY <3>1 DEF Outcomes, Masked
            <4> QED BY <4>1, <4>2 DEF ExecLdc
        <3>2. CASE k = "ldcFault"
            <4>1. k \in Faulty
                BY <3>2 DEF Faulty
            <4>2. Outcomes(k) = ExecLdc(k \in Faulty)
                BY <3>2 DEF Outcomes, Masked
            <4> QED BY <4>1, <4>2 DEF ExecLdc
        <3> QED BY <1>8, <3>1, <3>2 DEF Masked
    <2>2. CASE o \in Raise("CPU_ADDRESS_ERROR") /\ k \in Faulty
        BY <1>4, <2>2
    <2>3. CASE \E m \in guest.levels : o = [Unaffected EXCEPT !.im = m]
        BY <1>1, <1>2, <1>3, <2>3 DEF Sound, OutcomeType
    <2> QED BY <2>1, <2>2, <2>3
<1>9. CASE k \in {"loadFault", "fetchFault"}
    <2>1. k \in Faulty
        BY <1>9 DEF Faulty
    <2>2. o \in Raise("CPU_ADDRESS_ERROR")
        <3>1. CASE k = "loadFault"
            BY <3>1 DEF Outcomes, Masked
        <3>2. CASE k = "fetchFault"
            BY <3>2 DEF Outcomes, Masked
        <3> QED BY <1>9, <3>1, <3>2
    <2> QED BY <1>4, <2>1, <2>2
<1>10. CASE k = "sleep"
    <2>1. o = [Unaffected EXCEPT !.ps = "POWER_DOWN"]
        BY <1>10 DEF Outcomes, Masked, ExecSleep
    <2> QED BY <1>1, <1>2, <1>10, <2>1 DEF Sound, OutcomeType
<1>11. CASE k = "trapa"
    <2>1. o = [Unaffected EXCEPT !.br = "EXECUTE"]
        BY <1>11 DEF Outcomes, Masked, ExecTrapa
    <2> QED BY <1>1, <1>2, <2>1 DEF Sound, OutcomeType
<1>12. CASE k = "fpu"
    <2>1. o \in Raise("FPU_OPERATION")
        BY <1>12 DEF Outcomes, Masked, ExecFpu
    <2> QED BY <1>4, <1>12, <2>1
<1>13. CASE k = "illegal"
    <2>1. o \in Raise(IF InSlot THEN "ILLEGAL_SLOT" ELSE "ILLEGAL_INSTRUCTION")
        BY <1>13 DEF Outcomes, Masked, ExecIllegal
    <2> QED BY <1>4, <2>1 DEF InSlot
<1>14. CASE k \in {"bt", "bfsNotTaken"}
    <2>1. o \in Raise("ILLEGAL_SLOT") \/ o = [Unaffected EXCEPT !.br = brState] \/ o = [Unaffected EXCEPT !.br = "EXECUTE"]
        BY <1>14, SMTT(30) DEF Outcomes, Masked, ExecBranchTEq, NotInSlot
    <2> QED BY <1>1, <1>2, <1>4, <2>1 DEF Sound, OutcomeType
<1>15. CASE k \in {"jmp", "rte", "rteFault"}
    <2>1. k \in Delayed /\ (k = "rteFault" => k \in Faulty)
        BY <1>15, SMTT(30) DEF Delayed, Faulty
    <2>2. \/ o \in Raise("ILLEGAL_SLOT")
          \/ o \in Raise("CPU_ADDRESS_ERROR") /\ k \in Faulty
          \/ o = [Unaffected EXCEPT !.br = "DELAY_NEXT"]
          \/ \E m \in guest.levels : o = [Unaffected EXCEPT !.br = "DELAY_NEXT", !.im = m]
        <3>1. CASE k = "jmp"
            <4>1. Outcomes(k) = ExecJump
                BY <3>1 DEF Outcomes, Masked
            <4>2. o \in Raise("ILLEGAL_SLOT") \/ o = [Unaffected EXCEPT !.br = "DELAY_NEXT"]
                BY <4>1, SMTT(30) DEF ExecJump, NotInSlot
            <4> QED BY <4>2
        <3>2. CASE k \in {"rte", "rteFault"}
            <4>1. Outcomes(k) = ExecRte(k \in Faulty)
                BY <3>2 DEF Outcomes, Masked
            <4> QED BY <4>1, ZenonT(30) DEF ExecRte, NotInSlot
        <3> QED BY <1>15, <3>1, <3>2, ZenonT(30)
    <2>3. CASE o \in Raise("ILLEGAL_SLOT") \/ (o \in Raise("CPU_ADDRESS_ERROR") /\ k \in Faulty)
        BY <1>4, <2>3
    <2>4. CASE o = [Unaffected EXCEPT !.br = "DELAY_NEXT"]
        BY <1>1, <1>2, <2>1, <2>4 DEF Sound, OutcomeType
    <2>5. CASE \E m \in guest.levels : o = [Unaffected EXCEPT !.br = "DELAY_NEXT", !.im = m]
        BY <1>1, <1>2, <1>3, <2>1, <2>5 DEF Sound, OutcomeType
    <2> QED BY <2>2, <2>3, <2>4, <2>5
<1> QED BY <1>5, <1>6, <1>7, <1>8, <1>9, <1>10, <1>11, <1>12, <1>13, <1>14, <1>15
    DEF AllKinds, Masked, Delayed, Faulty

---------------------------------------------------------------------------
\* Types, and no reset without a reason: what the assertions rest on.
TInv == TypeOK /\ guest \in Guests /\ (prState = "RESET" => resetReq # "NONE")

\* A reset request is one of the three the controller knows.
LEMMA NextResetIs ==
    ASSUME NEW ic, PendingResets(ic) # {}
    PROVE  ResetReqOf(NextReset(ic)) \in {"EXTERNAL", "INTERNAL", "MANUAL"}
<1>1. NextReset(ic) \in {0, 1, 2}
    BY NextResetLeast DEF PendingResets, Resets, POWER_ON_RESET_EXTERNAL, MANUAL_RESET
<1> QED BY <1>1 DEF ResetReqOf, POWER_ON_RESET_EXTERNAL, POWER_ON_RESET_INTERNAL, MANUAL_RESET

\* sh2e_cpu_check_reset_req.
LEMMA BeginResetTyped ==
    ASSUME TInv, BeginReset, guest' = guest
    PROVE  TInv'
    BY NextResetIs DEF TInv, TypeOK, IntcTypeOK, BeginReset

\* The end of sh2e_program_execution_state_step.
LEMMA FinishTyped ==
    ASSUME TInv, NEW k \in AllKinds, NEW o \in Outcomes(k), FinishInstruction(k, o), guest' = guest
    PROVE  TInv'
<1> DEFINE check == Checked(k, o)
<1>1. o \in OutcomeType
    BY OutcomesSound DEF TInv, Sound
<1>2. o.br \in Branches /\ o.ex \in Exceptions \cup {"NONE"} /\ o.im \in Pri /\ o.ps \in {"PROGRAM", "POWER_DOWN"}
      /\ o.ic \in Intc
    BY <1>1 DEF OutcomeType
<1>3. check.intc \in Intc /\ check.out \in {0} \cup Sources
    BY <1>2, CheckTyped DEF Checked
<1> HIDE DEF check
<1>4. intc' \in Intc /\ pendInt' \in {0, NMI_VECTOR} \cup Sources
    BY <1>3 DEF FinishInstruction, check, TInv, TypeOK
<1>5. /\ insnEx' \in Exceptions \cup {"NONE"} /\ im' \in Pri
      /\ prState' \in {"PROGRAM", "EXCEPTION", "POWER_DOWN"}
      /\ pendAddr' = pendAddr /\ resetReq' = resetReq
    BY <1>2 DEF FinishInstruction
<1>6. brState' \in Branches
    BY <1>2 DEF FinishInstruction, AfterUpdate, Branches
<1>7. disInt' \in BOOLEAN /\ disAddr' \in BOOLEAN
    <2>1. CASE k = "fetchFault"
        BY <2>1 DEF FinishInstruction, DisableInterrupts, DisableAddressErrors, TInv, TypeOK
    <2>2. CASE k # "fetchFault"
        <3>1. disInt' = (k \in Masked \cup Delayed) /\ disAddr' = (k \in Delayed)
            BY <2>2, Zenon DEF FinishInstruction, DisableInterrupts, DisableAddressErrors
        <3> QED BY <3>1
    <2> QED BY <2>1, <2>2
<1>8. pcNext' \in BOOLEAN /\ slotNext' \in BOOLEAN
    BY DEF FinishInstruction
<1> QED BY <1>4, <1>5, <1>6, <1>7, <1>8 DEF TInv, TypeOK, IntcTypeOK, Branches

\* sh2e_standby_state_step.
LEMMA StandbyTyped ==
    ASSUME TInv, StandbyStep, guest' = guest
    PROVE  TInv'
<1>1. CASE BeginReset
    BY <1>1, BeginResetTyped
<1>2. CASE PendingResets(intc) = {}
    <2> DEFINE check == CheckInterrupts(intc, im)
    <2>1. check.intc \in Intc /\ check.out \in {0} \cup Sources
        BY CheckTyped DEF TInv, TypeOK, IntcTypeOK
    <2>2. /\ intc' = check.intc /\ pendInt' \in {check.out, pendInt} /\ prState' \in {"EXCEPTION", "POWER_DOWN"}
          /\ UNCHANGED <<brState, disInt, disAddr, insnEx, pendAddr, resetReq, im, pcNext, slotNext>>
        BY <1>2 DEF StandbyStep
    <2> HIDE DEF check
    <2> QED BY <2>1, <2>2 DEF TInv, TypeOK, IntcTypeOK
<1> QED BY <1>1, <1>2 DEF StandbyStep

\* sh2e_exception_state_step.
LEMMA ExceptionTyped ==
    ASSUME TInv, ExceptionStep, guest' = guest
    PROVE  TInv'
<1>1. Ex \in Exceptions \cup {"NONE"} /\ Addr \in Exceptions \cup {"NONE"}
    BY DEF Ex, Addr, TInv, TypeOK
<1>2. ASSUME NEW ex, HandleException(ex), pendAddr' \in Exceptions \cup {"NONE"}
      PROVE  TInv'
    BY <1>2 DEF HandleException, TInv, TypeOK, IntcTypeOK
<1>3. CASE \E e \in AddressErrors : TakeAddressError(e)
    BY <1>1, <1>2, <1>3 DEF TakeAddressError
<1>4. CASE TakeFpu
    BY <1>1, <1>2, <1>4 DEF TakeFpu
<1>5. CASE TakeInterrupt
    <2>1. PICK f \in BOOLEAN : HandleInterrupt(f)
        BY <1>5 DEF TakeInterrupt
    <2>2. intc' \in Intc /\ im' \in Pri
        BY <2>1, AcceptTyped DEF HandleInterrupt, TInv, TypeOK, IntcTypeOK
    <2>3. /\ brState' = "NONE" /\ pendInt' = 0 /\ prState' = "PROGRAM" /\ pcNext' = TRUE /\ slotNext' = FALSE
          /\ insnEx' \in {"NONE", Ex} /\ pendAddr' = Addr /\ UNCHANGED <<disInt, disAddr, resetReq>>
        BY <2>1 DEF HandleInterrupt
    <2> QED BY <1>1, <2>2, <2>3 DEF TInv, TypeOK, IntcTypeOK
<1>6. CASE TakeIllegal
    BY <1>1, <1>2, <1>6 DEF TakeIllegal
<1>7. CASE TakeNothing
    BY <1>1, <1>7 DEF TakeNothing, TInv, TypeOK, IntcTypeOK
<1> QED BY <1>3, <1>4, <1>5, <1>6, <1>7 DEF ExceptionStep

\* Every step keeps the types.
LEMMA StepTyped == TInv /\ [Next]_vars => TInv'
<1> SUFFICES ASSUME TInv, [Next]_vars PROVE TInv'
    OBVIOUS
<1>1. CASE ResetStep /\ UNCHANGED guest
    <2>1. intc' \in Intc
        BY <1>1, ResetTyped DEF ResetStep, TInv, TypeOK, IntcTypeOK
    <2>2. im' \in Pri
        BY <1>1, IntcConstants DEF ResetStep, Pri
    <2> QED BY <1>1, <2>1, <2>2 DEF ResetStep, TInv, TypeOK, IntcTypeOK
<1>2. CASE ProgramStep /\ UNCHANGED guest
    <2>1. guest.kinds \subseteq AllKinds
        BY GuestIs DEF TInv
    <2> QED BY <1>2, <2>1, BeginResetTyped, FinishTyped DEF ProgramStep
<1>3. CASE StandbyStep /\ UNCHANGED guest
    BY <1>3, StandbyTyped
<1>4. CASE ExceptionStep /\ UNCHANGED guest
    BY <1>4, ExceptionTyped
<1>5. CASE DeviceInterrupt \/ ResetRequest
    <2>1. PICK s \in Sources : intc' \in {AssertInt(intc, s), DeassertInt(intc, s)}
        BY <1>5, GuestIs DEF DeviceInterrupt, ResetRequest, DevAssert, DevDeassert, TInv
    <2>2. intc' \in Intc
        BY <2>1, RequestsTyped DEF TInv, TypeOK, IntcTypeOK
    <2>3. UNCHANGED cpuVars
        BY <1>5 DEF DeviceInterrupt, ResetRequest
    <2> QED BY <2>2, <2>3 DEF TInv, TypeOK, IntcTypeOK, cpuVars
<1>6. CASE DmacError
    BY <1>6 DEF DmacError, TInv, TypeOK, IntcTypeOK, Exceptions, AddressErrors
<1>7. CASE Goto
    <2>1. /\ UNCHANGED <<prState, brState, disInt, disAddr, insnEx, pendInt, pendAddr, resetReq, im, guest, intc>>
          /\ pcNext' = TRUE /\ slotNext' = FALSE
        BY <1>7 DEF Goto
    <2>2. TypeOK'
        BY <2>1, ZenonT(30) DEF TInv, TypeOK, IntcTypeOK
    <2> QED BY <2>1, <2>2 DEF TInv
<1>8. CASE UNCHANGED vars
    BY <1>8 DEF vars, cpuVars, TInv, TypeOK, IntcTypeOK
<1> QED BY <1>1, <1>2, <1>3, <1>4, <1>5, <1>6, <1>7, <1>8 DEF Next, CpuStep

\* The processor starts in a state of its type.
LEMMA InitTyped == Init => TInv
<1> SUFFICES ASSUME Init PROVE TInv
    OBVIOUS
<1>1. 0 \in Pri
    BY IntcConstants DEF Pri
<1>2. intc \in Intc
    BY <1>1, IntcConstants DEF Init, IntcInit, BootIntc, Intc
<1> QED BY <1>1, <1>2 DEF Init, TInv, TypeOK, IntcTypeOK, Exceptions, AddressErrors

---------------------------------------------------------------------------
\* Undisturbed programs.  Quiet is what they are spared: no reset and no NMI is
\* pending, no address error is parked.  Announced is what the processor and the
\* controller agree on between the check and the acceptance of an interrupt.
Quiet ==
    /\ PendingResets(intc) = {} /\ ~intc.nmil /\ ~intc.nmiPrev
    /\ pendAddr = "NONE" /\ brState # "DELAY_NEXT"
Announced == pendInt = intc.interruptOut /\ intc.priorityOut > im /\ ~disInt

\* In each processing state, what the branch state, the pending interrupt and PC are.
Control ==
    /\ prState = "RESET" => brState = "NONE" /\ pendInt = 0
    /\ prState = "PROGRAM" => brState \in {"NONE", "DELAY"} /\ pendInt = 0 /\ (brState = "DELAY" <=> slotNext)
    /\ prState = "POWER_DOWN" => pendInt = 0 /\ ~disInt /\ ~pcNext /\ insnEx = "NONE"
    /\ prState = "EXCEPTION" =>
           /\ ~pcNext
           /\ insnEx \in {"NONE", "ILLEGAL_INSTRUCTION", "ILLEGAL_SLOT"}
           /\ insnEx = "ILLEGAL_INSTRUCTION" => brState = "NONE"
           /\ pendInt # 0 => Announced
UInv == Quiet /\ Control

\* Without an edge of the NMI input none is detected.
LEMMA NoNmi ==
    ASSUME NEW ic, ~ic.nmil, ~ic.nmiPrev
    PROVE  ~NmiDetected(ic)
    BY DEF NmiDetected

\* The kinds of instruction in an undisturbed program.
LEMMA CalmKinds ==
    ASSUME Undisturbed, NEW k \in guest.kinds
    PROVE  k \notin Faulty /\ k # "fpu" /\ k # "storeIcr" /\ k # "fetchFault"
    BY DEF Undisturbed, Faulty

\* An instruction of an undisturbed program (sh2e_program_execution_state_step).
LEMMA FinishControls ==
    ASSUME TInv, Undisturbed, UInv, prState = "PROGRAM",
           NEW k \in guest.kinds, NEW o \in Outcomes(k), FinishInstruction(k, o)
    PROVE  UInv'
<1> DEFINE check == Checked(k, o)
<1>1. k \in AllKinds /\ k \notin Faulty /\ k # "fpu" /\ k # "storeIcr" /\ k # "fetchFault"
    BY GuestIs, CalmKinds DEF TInv
<1>2. Sound(k, o)
    BY <1>1, OutcomesSound DEF TInv
<1>3. /\ brState \in {"NONE", "DELAY"} /\ pendInt = 0 /\ pendAddr = "NONE"
      /\ intc.pending \cap Resets = {} /\ ~intc.nmil /\ ~intc.nmiPrev
    BY DEF UInv, Quiet, Control, PendingResets
<1>4. /\ o.br \in Branches /\ o.ex \in {"NONE", "ILLEGAL_INSTRUCTION", "ILLEGAL_SLOT"} /\ o.im \in Pri
      /\ o.ps \in {"PROGRAM", "POWER_DOWN"} /\ o.ic \in Intc
      /\ o.ex = "ILLEGAL_INSTRUCTION" => o.br = "NONE"
      /\ o.br = "DELAY_NEXT" => k \in Delayed /\ o.ex = "NONE" /\ o.ps = "PROGRAM"
      /\ o.ps = "POWER_DOWN" => k = "sleep" /\ o.ex = "NONE"
    BY <1>1, <1>2, <1>3 DEF Sound, OutcomeType, Exceptions, AddressErrors
<1>5. ~o.ic.nmil /\ ~o.ic.nmiPrev /\ o.ic.pending = intc.pending
    BY <1>1, <1>2, <1>3 DEF Sound, Registers
<1>6. /\ check.intc.pending = intc.pending /\ ~check.intc.nmil /\ ~check.intc.nmiPrev
      /\ check.hit =>
             /\ check.out # 0 /\ check.out = check.intc.interruptOut /\ check.intc.priorityOut > o.im
             /\ ~DisableInterrupts(k)
    <2>1. CASE DisableInterrupts(k)
        BY <1>5, <2>1 DEF Checked
    <2>2. CASE ~DisableInterrupts(k)
        BY <1>4, <1>5, <2>2, NoNmi, CheckTyped DEF Checked
    <2> QED BY <2>1, <2>2
<1>7. /\ k \in Delayed => DisableInterrupts(k)
      /\ k = "sleep" => ~DisableInterrupts(k)
    BY <1>1 DEF DisableInterrupts, Masked, Delayed
<1> HIDE DEF check
<1> DEFINE pend == IF check.hit THEN check.out ELSE pendInt
           ps == IF o.ex # "NONE" \/ pendAddr # "NONE" \/ pend # 0 THEN "EXCEPTION" ELSE o.ps
<1>8. /\ insnEx' = o.ex /\ im' = o.im /\ disInt' = DisableInterrupts(k)
      /\ intc' = check.intc /\ pendInt' = pend /\ prState' = ps
      /\ pcNext' = (ps = "PROGRAM")
      /\ brState' = (IF ps = "PROGRAM" THEN AfterUpdate(o.br) ELSE o.br)
      /\ slotNext' = (o.br = "DELAY_NEXT") /\ pendAddr' = pendAddr
    BY DEF FinishInstruction, check
<1>9. pend # 0 <=> check.hit
    BY <1>3, <1>6
<1>10. ps # "PROGRAM" => o.br # "DELAY_NEXT"
    BY <1>3, <1>4, <1>6, <1>7, <1>9
<1>11. Quiet'
    <2>1. brState' # "DELAY_NEXT"
        BY <1>8, <1>10 DEF AfterUpdate
    <2> QED BY <1>3, <1>6, <1>8, <2>1 DEF Quiet, PendingResets
<1>12. ASSUME ps = "PROGRAM" PROVE Control'
    <2>1. /\ prState' = "PROGRAM" /\ pendInt' = 0
          /\ brState' = IF o.br = "DELAY_NEXT" THEN "DELAY" ELSE "NONE"
          /\ slotNext' <=> o.br = "DELAY_NEXT"
        BY <1>3, <1>8, <1>12 DEF AfterUpdate
    <2> QED BY <2>1 DEF Control
<1>13. ASSUME ps = "POWER_DOWN" PROVE Control'
    <2>1. prState' = "POWER_DOWN" /\ pendInt' = 0 /\ ~disInt' /\ ~pcNext' /\ insnEx' = "NONE"
        BY <1>3, <1>4, <1>7, <1>8, <1>13
    <2> QED BY <2>1 DEF Control
<1>14. ASSUME ps = "EXCEPTION" PROVE Control'
    <2>1. /\ prState' = "EXCEPTION" /\ ~pcNext' /\ brState' = o.br /\ insnEx' = o.ex
        BY <1>8, <1>14
    <2>2. pendInt' # 0 => Announced'
        BY <1>6, <1>8, <1>9 DEF Announced
    <2> QED BY <1>4, <2>1, <2>2 DEF Control
<1>15. ps \in {"PROGRAM", "POWER_DOWN", "EXCEPTION"}
    BY <1>4
<1> QED BY <1>11, <1>12, <1>13, <1>14, <1>15 DEF UInv

\* Standby: sh2e_standby_state_step.
LEMMA StandbyControls ==
    ASSUME TInv, Undisturbed, UInv, StandbyStep
    PROVE  UInv'
<1> DEFINE check == CheckInterrupts(intc, im)
<1>1. /\ prState = "POWER_DOWN" /\ PendingResets(intc) = {}
      /\ pendInt = 0 /\ ~disInt /\ ~pcNext /\ insnEx = "NONE" /\ pendAddr = "NONE" /\ brState # "DELAY_NEXT"
      /\ ~intc.nmil /\ ~intc.nmiPrev /\ intc \in Intc /\ im \in Pri
    BY DEF StandbyStep, UInv, Quiet, Control, TInv, TypeOK, IntcTypeOK
<1>2. /\ check.intc.pending = intc.pending /\ ~check.intc.nmil /\ ~check.intc.nmiPrev
      /\ check.hit => check.out = check.intc.interruptOut /\ check.intc.priorityOut > im
    BY <1>1, NoNmi, CheckTyped
<1>3. /\ intc' = check.intc
      /\ pendInt' = IF check.hit THEN check.out ELSE pendInt
      /\ prState' = IF check.hit THEN "EXCEPTION" ELSE prState
      /\ UNCHANGED <<brState, disInt, insnEx, pendAddr, im, pcNext>>
    BY <1>1 DEF StandbyStep
<1> HIDE DEF check
<1>4. Quiet'
    BY <1>1, <1>2, <1>3 DEF Quiet, PendingResets
<1>5. CASE check.hit
    <2>1. Announced' /\ prState' = "EXCEPTION"
        BY <1>1, <1>2, <1>3, <1>5 DEF Announced
    <2> QED BY <1>1, <1>3, <1>4, <2>1 DEF UInv, Control
<1>6. CASE ~check.hit
    BY <1>1, <1>3, <1>4, <1>6 DEF UInv, Control
<1> QED BY <1>5, <1>6

\* Exception processing: an undisturbed program meets interrupts and illegal
\* instructions only (sh2e_exception_state_step).
LEMMA ExceptionControls ==
    ASSUME TInv, Undisturbed, UInv, ExceptionStep
    PROVE  UInv'
<1>1. /\ prState = "EXCEPTION" /\ ~pcNext /\ insnEx \in {"NONE", "ILLEGAL_INSTRUCTION", "ILLEGAL_SLOT"}
      /\ insnEx = "ILLEGAL_INSTRUCTION" => brState = "NONE"
      /\ PendingResets(intc) = {} /\ ~intc.nmil /\ ~intc.nmiPrev
      /\ pendAddr = "NONE" /\ brState # "DELAY_NEXT"
    BY DEF ExceptionStep, UInv, Quiet, Control
<1>2. Ex = insnEx /\ Addr = "NONE"
    BY <1>1 DEF Ex, Addr, Parks, AddressErrors
<1>3. \A e \in AddressErrors : ~TakeAddressError(e)
    BY <1>1, <1>2 DEF TakeAddressError, AddressErrorWaiting, AddressErrors
<1>4. ~TakeFpu
    BY <1>1, <1>2 DEF TakeFpu
<1>5. CASE TakeInterrupt
    <2>1. PICK f \in BOOLEAN : HandleInterrupt(f)
        BY <1>5 DEF TakeInterrupt
    <2>2. /\ brState' = "NONE" /\ pendInt' = 0 /\ prState' = "PROGRAM" /\ slotNext' = FALSE
          /\ pendAddr' = "NONE" /\ intc' = AcceptInterrupt(intc).intc
        BY <1>2, <2>1 DEF HandleInterrupt
    <2>3. intc'.pending \subseteq intc.pending /\ ~intc'.nmil /\ ~intc'.nmiPrev
        BY <1>1, <2>2, AcceptTyped DEF TInv, TypeOK, IntcTypeOK
    <2> QED BY <1>1, <2>2, <2>3 DEF UInv, Quiet, Control, PendingResets
<1>6. CASE TakeIllegal
    <2>1. /\ insnEx # "NONE" /\ pendInt = 0 /\ pendAddr' = "NONE"
          /\ brState' = IF insnEx = "ILLEGAL_SLOT" THEN "NONE" ELSE brState
          /\ prState' = "PROGRAM" /\ slotNext' = FALSE /\ pendInt' = pendInt /\ intc' = intc
        BY <1>2, <1>6 DEF TakeIllegal, HandleException
    <2> QED BY <1>1, <2>1 DEF UInv, Quiet, Control, PendingResets
<1>7. CASE TakeNothing
    BY <1>1, <1>2, <1>7 DEF TakeNothing, UInv, Quiet, Control, PendingResets
<1> QED BY <1>3, <1>4, <1>5, <1>6, <1>7 DEF ExceptionStep

IInv == TInv /\ (Undisturbed => UInv)

\* Every step keeps the invariant, of an undisturbed program and of any other.
LEMMA StepControls == IInv /\ [Next]_vars => IInv'
<1> SUFFICES ASSUME IInv, [Next]_vars, Undisturbed' PROVE UInv'
    BY StepTyped DEF IInv
<1>1. guest' = guest
    BY DEF Next, CpuStep, DeviceInterrupt, ResetRequest, DmacError, Goto, vars, cpuVars
<1>2. TInv /\ Undisturbed /\ UInv
    BY <1>1 DEF IInv, Undisturbed
<1>3. guest.env = {} /\ guest.lines \subseteq Sources \ Resets /\ intc \in Intc
    BY <1>2, GuestIs DEF Undisturbed, TInv, TypeOK, IntcTypeOK
<1>4. ~BeginReset
    BY <1>2 DEF BeginReset, UInv, Quiet
<1>5. CASE ResetStep
    <2>1. brState = "NONE" /\ pendInt = 0 /\ pendAddr = "NONE"
        BY <1>2, <1>5 DEF ResetStep, UInv, Quiet, Control
    <2>2. PendingResets(intc)' = {} /\ ~intc'.nmil /\ ~intc'.nmiPrev
        <3>1. AcceptReset(intc).pending = intc.pending \ Resets /\ AcceptReset(intc) \in Intc
              /\ ~AcceptReset(intc).nmil /\ ~AcceptReset(intc).nmiPrev
            BY <1>2, <1>3, ResetTyped DEF UInv, Quiet, Registers
        <3>2. intc' \in {AcceptReset(intc), InitRegs(AcceptReset(intc))}
            BY <1>5 DEF ResetStep
        <3>3. CASE intc' = AcceptReset(intc)
            BY <3>1, <3>3 DEF PendingResets
        <3>4. CASE intc' = InitRegs(AcceptReset(intc))
            BY <3>1, <3>4 DEF PendingResets, InitRegs, Intc
        <3> QED BY <3>2, <3>3, <3>4
    <2> QED BY <1>5, <2>1, <2>2 DEF ResetStep, UInv, Quiet, Control
<1>6. CASE ProgramStep
    BY <1>2, <1>4, <1>6, FinishControls DEF ProgramStep
<1>7. CASE StandbyStep
    BY <1>2, <1>7, StandbyControls
<1>8. CASE ExceptionStep
    BY <1>2, <1>8, ExceptionControls
<1>9. CASE DeviceInterrupt
    <2>1. PICK s \in guest.lines : intc' \in {AssertInt(intc, s), DeassertInt(intc, s)}
        BY <1>9 DEF DeviceInterrupt, DevAssert, DevDeassert
    <2>2. /\ Registers(intc') = Registers(intc) /\ intc'.pending \subseteq intc.pending \cup {s}
        BY <1>3, <2>1, RequestsTyped
    <2>3. s \notin Resets
        BY <1>3, <2>1
    <2>4. UNCHANGED cpuVars
        BY <1>9 DEF DeviceInterrupt
    <2> QED BY <1>2, <2>2, <2>3, <2>4 DEF UInv, Quiet, Control, Announced, PendingResets, Registers, cpuVars
<1>10. ~ResetRequest /\ ~DmacError /\ ~Goto
    BY <1>3 DEF ResetRequest, DmacError, Goto
<1>11. CASE UNCHANGED vars
    BY <1>2, <1>11 DEF vars, cpuVars, UInv, Quiet, Control, Announced, PendingResets
<1> QED BY <1>5, <1>6, <1>7, <1>8, <1>9, <1>10, <1>11 DEF Next, CpuStep

\* It holds when the processor is switched on.
LEMMA InitControls == Init => IInv
<1> SUFFICES ASSUME Init PROVE UInv
    BY InitTyped DEF IInv
<1> QED BY DEF Init, IntcInit, BootIntc, UInv, Quiet, Control, PendingResets

---------------------------------------------------------------------------
\* The invariant of the processor and its interrupt controller always holds.
LEMMA Always == Spec => []IInv
    BY InitControls, StepControls, PTL DEF Spec

\* The assertions of sh2e_cpu_step hold for every guest, with interrupts, resets,
\* address errors of the DMA controller and the console's goto at any time.
THEOREM AssertionsAlwaysHold == Spec => []AssertionsHold
<1>1. IInv => AssertionsHold
    <2> SUFFICES ASSUME TInv, prState = "EXCEPTION", ~NoAddressError
                 PROVE  AcceptedAddressError \in Exceptions
        BY DEF IInv, TInv, AssertionsHold
    <2>1. PICK e \in AddressErrors : e \in {Ex, Addr}
        BY DEF NoAddressError, AddressErrorWaiting
    <2>2. Addr \in Exceptions \cup {"NONE"}
        BY DEF Addr, TInv, TypeOK
    <2> QED BY <2>1, <2>2 DEF AcceptedAddressError, Exceptions, AddressErrors
<1> QED BY <1>1, Always, PTL

\* In every state of the machine sh2e_check_pending_interrupts finds, for every
\* mask, the request with the highest priority and among those the one with the
\* lowest id, however many sources are registered and whatever their priorities are;
\* only ids outside its bounds (Unserved) are passed over.
THEOREM ArbitrationStaysCorrect == Spec => []ArbitrationCorrect
<1>1. IInv => ArbitrationCorrect
    BY TypedArbitratesCorrectly DEF IInv, TInv, TypeOK
<1> QED BY <1>1, Always, PTL

\* In an undisturbed program an instruction is executed as the slot of a delayed
\* branch exactly if it follows one that was taken (SH2E_BRANCH_STATE_DELAY).
THEOREM SlotStaysTruthful == Spec => []SlotTruthful
<1>1. IInv => SlotTruthful
    BY DEF IInv, TInv, TypeOK, UInv, Control, SlotTruthful
<1> QED BY <1>1, Always, PTL

\* The PC that sh2e_cpu_handle_interrupt pushes is the address of the instruction
\* that would be executed next, wherever the interrupt meets the program.
THEOREM InterruptsResumeExactly == Spec => InterruptResumesExactly
<1>1. IInv /\ [Next]_vars =>
          [Undisturbed /\ prState = "EXCEPTION" /\ TakeInterrupt => InterruptStackPc = ResumePc]_vars
    <2> SUFFICES ASSUME IInv, Undisturbed, prState = "EXCEPTION" PROVE InterruptStackPc = ResumePc
        OBVIOUS
    <2>1. ~pcNext /\ brState \in {"NONE", "DELAY", "EXECUTE"}
        BY DEF IInv, TInv, TypeOK, UInv, Quiet, Control
    <2> QED BY <2>1 DEF InterruptStackPc, ResumePc
<1> QED BY <1>1, Always, PTL DEF Spec, InterruptResumesExactly

\* The interrupt that is taken is the one the controller withdraws, it was above
\* the mask and its priority becomes the mask, and it is not taken between an
\* instruction that disables interrupts and the one that follows.
THEOREM TakenStaysAccepted == Spec => TakenIsAccepted
<1>1. IInv /\ [Next]_vars =>
          [Undisturbed /\ prState = "EXCEPTION" /\ TakeInterrupt =>
              pendInt = intc.interruptOut /\ im' > im /\ ~disInt]_vars
    <2> SUFFICES ASSUME IInv, Undisturbed, prState = "EXCEPTION", TakeInterrupt
                 PROVE  pendInt = intc.interruptOut /\ im' > im /\ ~disInt
        OBVIOUS
    <2>1. Announced
        BY DEF IInv, UInv, Control, TakeInterrupt
    <2>2. im' = AcceptInterrupt(intc).mask
        BY DEF TakeInterrupt, HandleInterrupt
    <2>3. im' = intc.priorityOut
        BY <2>2, AcceptTyped DEF IInv, TInv, TypeOK, IntcTypeOK
    <2> QED BY <2>1, <2>3 DEF Announced
<1> QED BY <1>1, Always, PTL DEF Spec, TakenIsAccepted
=============================================================================
