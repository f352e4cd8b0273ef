----------------------------- MODULE Sh2eTimers -----------------------------
(***************************************************************************)
(* The watchdog timer (device/dsh2ewdt.c) and the compare match timer      *)
(* (device/dsh2ecmt.c) of the SH-2E, with the processor that clocks and    *)
(* resets them (device/cpu/superh_sh2e/cpu.c) and the interrupt controller *)
(* their requests go to (Sh2eIntc).                                        *)
(*                                                                         *)
(* One cycle of the machine is a step of the processor followed by a step  *)
(* of each device.  The processor hands the clock cycles of the instruction*)
(* it executed to its peripherals, writes their registers, and tells them  *)
(* of resets and of sleep; the timers turn cycles into counts, flags and   *)
(* requests.  Registers are records of their fields; the periods and the   *)
(* width of the counters are constants.                                    *)
(***************************************************************************)
EXTENDS Sh2eIntc

CONSTANTS
    TcntSize,       \* 256: TCNT is 8 bits wide
    WdtPeriod,      \* clock cycles per count, by CKS (2, 64, ... 8192)
    Digit,          \* 256: CMCNT and CMCOR are two bytes wide
    CmtPeriod,      \* clock cycles per count, by CKS
    WdtInt,         \* int_no of the watchdog's interval interrupt
    CmtInt,         \* int_no of each CMT channel
    Cycles,         \* cycles an instruction may take
    Garbage,        \* what sh2e_wdt_t.counter may hold when it is allocated
    WdtValues,      \* what the guest writes into TCNT
    CmtValues,      \* what the guest writes into CMCNT and CMCOR
    Scenes          \* what the guest drives: "intc", "wdt", or channels of the CMT

CntSize == Digit * Digit
CmtChannels == {0, 1}
SLEEP_MODE == 5

ASSUME TimerConstants ==
    /\ TcntSize \in Nat \ {0} /\ Digit \in Nat \ {0, 1}
    /\ 0 \in DOMAIN WdtPeriod /\ \A k \in DOMAIN WdtPeriod : WdtPeriod[k] \in Nat \ {0}
    /\ 0 \in DOMAIN CmtPeriod /\ \A k \in DOMAIN CmtPeriod : CmtPeriod[k] \in Nat \ {0}
    /\ WdtValues \subseteq 0 .. TcntSize - 1 /\ CmtValues \subseteq 0 .. CntSize - 1
    /\ WdtInt \in Sources \ Resets /\ CmtInt \in [CmtChannels -> Sources \ Resets]
    /\ Cycles \subseteq Nat \ {0} /\ Garbage \subseteq Nat
    /\ Resets \subseteq Sources

VARIABLES
    wdt,        \* sh2e_wdt_t
    cmt,        \* sh2e_cmt_t
    pr,         \* sh2e_cpu_t.pr_state
    req,        \* the reset being served, or the interrupt being taken
    turn,       \* whose step of the machine cycle is next
    scene,      \* which registers this guest writes
    due,        \* history: cycles until each timer must overflow or match
    cause,      \* history: the reset served last, until the guest clears WOVF
    touched     \* history: the last processor step wrote a timer register

rest == <<wdt, cmt, pr, req, turn, due, cause, touched>>
vars == <<intc, scene, rest>>

WDT == 2     \* the watchdog, next to the channels 0 and 1 of the CMT
Timers == {WDT} \cup CmtChannels

(***************************************************************************)
(* The watchdog timer                                                      *)
(***************************************************************************)
(* sh2e_wdt_tcsr_reset, sh2e_wdt_tcnt_reset *)
TcsrTcntReset(w) ==
    [w EXCEPT !.ovf = FALSE, !.tms = FALSE, !.tme = FALSE, !.cks = 0, !.tcnt = 0]

RstcsrReset(w) == [w EXCEPT !.wovf = FALSE, !.rste = FALSE, !.rsts = FALSE]

(* dsh2ewdt_init leaves the internal counter as malloc returned it. *)
WdtInit ==
    \E g \in Garbage :
        wdt = [ovf |-> FALSE, tms |-> FALSE, tme |-> FALSE, cks |-> 0, tcnt |-> 0,
               wovf |-> FALSE, rste |-> FALSE, rsts |-> FALSE, counter |-> g, cycles |-> 0]

(* sh2e_wdt_interrupt_up *)
WdtNotified_ClearsAll(w, num) ==
    IF num \in {POWER_ON_RESET_EXTERNAL, SLEEP_MODE, POWER_ON_RESET_INTERNAL}
    THEN RstcsrReset(TcsrTcntReset(w)) ELSE w

WdtNotified(w, num) ==
    IF num \in {POWER_ON_RESET_EXTERNAL, SLEEP_MODE} THEN RstcsrReset(TcsrTcntReset(w))
    ELSE IF num = POWER_ON_RESET_INTERNAL THEN TcsrTcntReset(w)
    ELSE w

(* sh2e_wdt_tcsr_reg_write: OVF is cleared by writing 0, never set. *)
TcsrWrite(w, v) ==
    [w EXCEPT !.cks = v.cks, !.tme = v.tme, !.tms = v.tms, !.ovf = @ /\ v.ovf]

RstcsrWrite(w, e, s) == [w EXCEPT !.rste = e, !.rsts = s]

(* dsh2ewdt_write16: what the watchdog may be after one write.  A wrong key
   changes nothing. *)
WdtWrites(w) ==
    {TcsrWrite(w, v) : v \in [cks : DOMAIN WdtPeriod, tme : BOOLEAN, tms : BOOLEAN, ovf : BOOLEAN]}
        \cup {[w EXCEPT !.tcnt = v] : v \in WdtValues}
        \cup {[w EXCEPT !.wovf = FALSE]}
        \cup {RstcsrWrite(w, e, s) : e, s \in BOOLEAN}
        \cup {w}

(* One turn of the loop of dsh2ewdt_step: a count, and on overflow a reset
   request, a disarmed watchdog, or the interval interrupt. *)
WdtTick_NoReset(s) ==
    LET w == [s.wdt EXCEPT !.tcnt = (@ + 1) % TcntSize]
    IN  IF w.tcnt # 0 THEN [s EXCEPT !.wdt = w]
        ELSE IF ~w.tms
        THEN [wdt |-> [w EXCEPT !.ovf = TRUE], intc |-> AssertInt(s.intc, WdtInt)]
        ELSE [s EXCEPT !.wdt = [w EXCEPT !.wovf = TRUE]]

WdtTick(s) ==
    LET w == [s.wdt EXCEPT !.tcnt = (@ + 1) % TcntSize]
        bitten == [w EXCEPT !.wovf = TRUE]
    IN  IF w.tcnt # 0 THEN [s EXCEPT !.wdt = w]
        ELSE IF ~w.tms
        THEN [wdt |-> [w EXCEPT !.ovf = TRUE], intc |-> AssertInt(s.intc, WdtInt)]
        ELSE IF ~w.rste THEN [s EXCEPT !.wdt = TcsrTcntReset(bitten)]
        ELSE [wdt |-> bitten,
              intc |-> AssertInt(s.intc, IF w.rsts THEN MANUAL_RESET
                                         ELSE POWER_ON_RESET_INTERNAL)]

(* n turns of that loop *)
WdtTicks(start, n) ==
    LET after[i \in 0 .. n] == IF i = 0 THEN start ELSE WdtTick(after[i - 1])
    IN  after[n]

(* dsh2ewdt_step: the period is read once, before the loop. *)
WdtStep_DropsRemainder(w, ic) ==
    LET period == WdtPeriod[w.cks]
        total == w.counter + w.cycles
        start == [wdt |-> [w EXCEPT !.counter = IF total >= period THEN 0 ELSE total],
                  intc |-> ic]
        done == WdtTicks(start, total \div period)
    IN  [(IF w.tme THEN done ELSE [wdt |-> w, intc |-> ic]) EXCEPT !.wdt.cycles = 0]

WdtStep(w, ic) ==
    LET period == WdtPeriod[w.cks]
        total == w.counter + w.cycles
        start == [wdt |-> [w EXCEPT !.counter = total % period], intc |-> ic]
        done == WdtTicks(start, total \div period)
    IN  [(IF w.tme THEN done ELSE [wdt |-> w, intc |-> ic]) EXCEPT !.wdt.cycles = 0]

(***************************************************************************)
(* The compare match timer                                                 *)
(***************************************************************************)
(* sh2e_cmt_reset *)
CmtReset(c) ==
    [c EXCEPT !.str = {},
              !.ch = [i \in CmtChannels |-> [cks |-> 0, cmie |-> FALSE, cmf |-> FALSE, cmcnt |-> 0,
                                          cmcor |-> CntSize - 1, counter |-> 0]]]

CmtInit == cmt = CmtReset([str |-> {}, ch |-> <<>>, cycles |-> 0])

(* sh2e_cmt_interrupt_up *)
CmtNotified(c, num) ==
    IF num \in {POWER_ON_RESET_EXTERNAL, POWER_ON_RESET_INTERNAL, SLEEP_MODE}
    THEN CmtReset(c) ELSE c

(* sh2e_cmt_cmcsr_reg_write: CMF is cleared by writing 0, never set. *)
CmcsrWrite(c, i, v) ==
    [c EXCEPT !.ch[i].cks = v.cks, !.ch[i].cmie = v.cmie, !.ch[i].cmf = @ /\ v.cmf]

CmstrWrite(c, s) == [c EXCEPT !.str = s]
CmcntWrite(c, i, v) == [c EXCEPT !.ch[i].cmcnt = v]
CmcorWrite(c, i, v) == [c EXCEPT !.ch[i].cmcor = v]

Cmcsrs == [cks : DOMAIN CmtPeriod, cmie : BOOLEAN, cmf : BOOLEAN]

(* write_byte_to_register *)
WithByte(v, upper, b) == IF upper THEN b * Digit + (v % Digit) ELSE (v \div Digit) * Digit + b

(* dsh2ecmt_write16 *)
CmtWrites16(c) ==
    {CmstrWrite(c, s) : s \in SUBSET CmtChannels}
        \cup {CmcsrWrite(c, i, v) : i \in CmtChannels, v \in Cmcsrs}
        \cup {CmcntWrite(c, i, v) : i \in CmtChannels, v \in CmtValues}
        \cup {CmcorWrite(c, i, v) : i \in CmtChannels, v \in CmtValues}

(* dsh2ecmt_write8: every field of CMSTR and CMCSR is in the lower byte, so a
   write of the upper one puts back what is there. *)
CmtWrites8(c) ==
    {CmstrWrite(c, s) : s \in SUBSET CmtChannels}
        \cup {CmcsrWrite(c, i, v) : i \in CmtChannels, v \in Cmcsrs}
        \cup {CmcntWrite(c, i, WithByte(c.ch[i].cmcnt, u, b)) :
                i \in CmtChannels, u \in BOOLEAN, b \in 0 .. Digit - 1}
        \cup {CmcorWrite(c, i, WithByte(c.ch[i].cmcor, u, b)) :
                i \in CmtChannels, u \in BOOLEAN, b \in 0 .. Digit - 1}
        \cup {c}

(* dsh2ecmt_write32: two neighbouring registers, or CMCOR1 alone. *)
CmtWrites32(c) ==
    {CmcsrWrite(CmstrWrite(c, s), 0, v) : s \in SUBSET CmtChannels, v \in Cmcsrs}
        \cup {CmcorWrite(CmcntWrite(c, 0, n), 0, m) : n, m \in CmtValues}
        \cup {CmcntWrite(CmcsrWrite(c, 1, v), 1, n) : v \in Cmcsrs, n \in CmtValues}
        \cup {CmcorWrite(c, 1, m) : m \in CmtValues}

CmtWrites(c) == CmtWrites16(c) \cup CmtWrites8(c) \cup CmtWrites32(c)

(* One turn of the loop of update_channel_counter. *)
CmtTick_OncePerFlag(s, i) ==
    LET n == (s.cmt.ch[i].cmcnt + 1) % CntSize
    IN  IF n # s.cmt.ch[i].cmcor THEN [s EXCEPT !.cmt.ch[i].cmcnt = n]
        ELSE [cmt |-> [s.cmt EXCEPT !.ch[i].cmcnt = 0, !.ch[i].cmf = TRUE],
              intc |-> IF s.cmt.ch[i].cmie /\ ~s.cmt.ch[i].cmf THEN AssertInt(s.intc, CmtInt[i]) ELSE s.intc]

CmtTick(s, i) ==
    LET n == (s.cmt.ch[i].cmcnt + 1) % CntSize
    IN  IF n # s.cmt.ch[i].cmcor THEN [s EXCEPT !.cmt.ch[i].cmcnt = n]
        ELSE [cmt |-> [s.cmt EXCEPT !.ch[i].cmcnt = 0, !.ch[i].cmf = TRUE],
              intc |-> IF s.cmt.ch[i].cmie THEN AssertInt(s.intc, CmtInt[i]) ELSE s.intc]

(* n turns of that loop *)
CmtTicks(start, i, n) ==
    LET after[k \in 0 .. n] == IF k = 0 THEN start ELSE CmtTick(after[k - 1], i)
    IN  after[n]

(* update_channel_counter *)
ChannelStep(s, i) ==
    LET period == CmtPeriod[s.cmt.ch[i].cks]
        total == s.cmt.ch[i].counter + s.cmt.cycles
        start == [s EXCEPT !.cmt.ch[i].counter = total % period]
    IN  IF i \notin s.cmt.str THEN s
        ELSE CmtTicks(start, i, total \div period)

(* dsh2ecmt_step *)
CmtStep(c, ic) ==
    [ChannelStep(ChannelStep([cmt |-> c, intc |-> ic], 0), 1) EXCEPT !.cmt.cycles = 0]

(***************************************************************************)
(* What the timers are expected to do, in closed form: the cycles left     *)
(* until the next overflow or match, and from one to the next.             *)
(***************************************************************************)
Running(w, c) == {t \in Timers : IF t = WDT THEN w.tme ELSE t \in c.str}

ToMatch(cnt, cor) == ((cor - cnt - 1) % CntSize) + 1

CyclesLeft(w, c, t) ==
    IF t = WDT THEN (TcntSize - w.tcnt) * WdtPeriod[w.cks] - w.counter
    ELSE ToMatch(c.ch[t].cmcnt, c.ch[t].cmcor) * CmtPeriod[c.ch[t].cks] - c.ch[t].counter

Lap(w, c, t) ==
    IF t = WDT THEN TcntSize * WdtPeriod[w.cks]
    ELSE ToMatch(0, c.ch[t].cmcor) * CmtPeriod[c.ch[t].cks]

(* The expectation starts anew where a register was written. *)
Expect(w, c) == [t \in Timers |-> IF t \in Running(w, c) THEN CyclesLeft(w, c, t) ELSE 0]

(* n cycles pass for the timers that run. *)
Elapse(d, w, c, n) == [t \in Timers |-> IF t \in Running(w, c) THEN d[t] - n ELSE d[t]]

(***************************************************************************)
(* The processor                                                           *)
(***************************************************************************)
Clocked(w, n) == [w EXCEPT !.cycles = n]

(* sh2e_cpu_check_reset_req, in the program execution and standby states *)
BeginReset ==
    /\ pr \in {"RUN", "SLEEP"} /\ PendingResets(intc) # {}
    /\ pr' = "RESET" /\ req' = NextReset(intc)
    /\ touched' = FALSE
    /\ UNCHANGED <<intc, wdt, cmt, due, cause>>

(* sh2e_reset_state_step *)
ResetStep ==
    /\ pr = "RESET"
    /\ intc' = InitRegs(AcceptReset(intc))
    /\ wdt' = WdtNotified(wdt, req) /\ cmt' = CmtNotified(cmt, req)
    /\ pr' = "RUN" /\ req' = 0
    /\ due' = [t \in Timers |-> IF t \in Running(wdt', cmt') THEN due[t] ELSE 0]
    /\ cause' = req /\ touched' = FALSE

(* The check for interrupts with SR.IM = mask, and the state that follows. *)
Polled(mask, otherwise) ==
    LET check == CheckInterrupts(intc, mask)
    IN  /\ intc' = check.intc
        /\ pr' = IF check.out # 0 THEN "EXCEPTION" ELSE otherwise
        /\ req' = check.out

(* An instruction of n cycles that leaves the timers as w and c. *)
Instruction(n, w, c) ==
    /\ wdt' = Clocked(w, n) /\ cmt' = Clocked(c, n)
    /\ touched' = (<<w, c>> # <<wdt, cmt>>)
    /\ due' = Elapse(IF touched' THEN Expect(w, c) ELSE due, w, c, n)
    /\ cause' = IF wdt.wovf /\ ~w.wovf THEN 0 ELSE cause

(* The guest leaves the channels that are not of its scene alone. *)
Drives(c) ==
    LET i == IF scene = "cmt0" THEN 0 ELSE 1
    IN  c.str \subseteq {i} /\ c.ch[1 - i] = cmt.ch[1 - i]

WriteTimer(n) ==
    \/ scene = "wdt" /\ \E w \in WdtWrites(wdt) : Instruction(n, w, cmt)
    \/ /\ scene \in {"cmt0", "cmt1"}
       /\ \E c \in {d \in CmtWrites(cmt) : Drives(d)} : Instruction(n, wdt, c)

(* sh2e_program_execution_state_step: a write of a timer register, SLEEP, or any
   other instruction. *)
ProgramStep(mask) ==
    /\ pr = "RUN" /\ PendingResets(intc) = {}
    /\ \/ /\ Polled(mask, "RUN")
          /\ \E n \in Cycles : WriteTimer(n) \/ Instruction(n, wdt, cmt)
       \/ /\ Polled(mask, "SLEEP")
          /\ \E n \in Cycles : Instruction(n, WdtNotified(wdt, SLEEP_MODE),
                                              CmtNotified(cmt, SLEEP_MODE))

(* sh2e_standby_state_step *)
Standby(mask) ==
    /\ pr = "SLEEP" /\ PendingResets(intc) = {}
    /\ Polled(mask, "SLEEP")
    /\ touched' = FALSE
    /\ UNCHANGED <<wdt, cmt, due, cause>>

(* sh2e_cpu_handle_interrupt *)
TakeInterrupt ==
    /\ pr = "EXCEPTION"
    /\ wdt' = WdtNotified(wdt, req) /\ cmt' = CmtNotified(cmt, req)
    /\ intc' = AcceptInterrupt(intc).intc
    /\ pr' = "RUN" /\ req' = 0
    /\ touched' = FALSE
    /\ UNCHANGED <<due, cause>>

Masks == {0, MaxPri}

CpuStep ==
    /\ scene # "intc" /\ turn = "cpu" /\ turn' = "devices"
    /\ UNCHANGED scene
    /\ \/ BeginReset
       \/ ResetStep
       \/ \E m \in Masks : ProgramStep(m) \/ Standby(m)
       \/ TakeInterrupt

(***************************************************************************)
(* The devices                                                             *)
(***************************************************************************)
DeviceStep ==
    /\ turn = "devices" /\ turn' = "cpu"
    /\ LET w == WdtStep(wdt, intc)
           c == CmtStep(cmt, w.intc)
       IN  /\ wdt' = w.wdt /\ cmt' = c.cmt /\ intc' = c.intc
           /\ due' = [t \in Timers |->
                        IF t \notin Running(wdt', cmt') THEN 0
                        ELSE IF due[t] > 0 THEN due[t]
                        ELSE ((due[t] - 1) % Lap(wdt, cmt, t)) + 1]
    /\ touched' = FALSE
    /\ UNCHANGED <<pr, req, scene, cause>>

(* A reset line raised from outside: a device, or the console.  A manual reset
   means nothing to the CMT, and is left to the scene of the watchdog. *)
ExternalReset ==
    /\ scene # "intc"
    /\ \E r \in {POWER_ON_RESET_EXTERNAL} \cup (IF scene = "wdt" THEN {MANUAL_RESET} ELSE {}) :
          intc' = AssertInt(intc, r)
    /\ UNCHANGED <<rest, scene>>

(* The controller on its own, under any sequence of requests and writes, with
   one reset requested at a time: the other scenes have several. *)
Controller ==
    /\ scene = "intc" /\ IntcNext /\ UNCHANGED <<rest, scene>>
    /\ Cardinality(PendingResets(intc')) <= 1

Init ==
    /\ IntcInit /\ WdtInit /\ CmtInit
    /\ scene \in Scenes
    /\ pr = "RUN" /\ req = 0 /\ turn = "cpu"
    /\ due = [t \in Timers |-> 0] /\ cause = 0 /\ touched = FALSE

Next == CpuStep \/ DeviceStep \/ ExternalReset \/ Controller

(* The simulation loop steps every processor and device again and again.  A step
   is possible whenever it is a party's turn, so this is weak fairness of CpuStep
   and of DeviceStep. *)
CyclesGoOn == scene = "intc" \/ ([]<>(turn = "cpu") /\ []<>(turn = "devices"))

Spec == Init /\ [][Next]_vars /\ CyclesGoOn

(***************************************************************************)
(* Properties                                                              *)
(***************************************************************************)
(* The registers hold values of their width, and the internal counters of the
   CMT stay below a period. *)
Wdt == [ovf : BOOLEAN, tms : BOOLEAN, tme : BOOLEAN, cks : DOMAIN WdtPeriod,
        tcnt : 0 .. TcntSize - 1, wovf : BOOLEAN, rste : BOOLEAN, rsts : BOOLEAN,
        counter : Nat, cycles : {0} \cup Cycles]
CmtChannel == [cks : DOMAIN CmtPeriod, cmie : BOOLEAN, cmf : BOOLEAN,
               cmcnt : 0 .. CntSize - 1, cmcor : 0 .. CntSize - 1, counter : Nat]
Cmt == [str : SUBSET CmtChannels, ch : [CmtChannels -> CmtChannel], cycles : {0} \cup Cycles]
TypeOK ==
    /\ IntcTypeOK /\ wdt \in Wdt /\ cmt \in Cmt
    /\ \A i \in CmtChannels : \E k \in DOMAIN CmtPeriod : cmt.ch[i].counter < CmtPeriod[k]
    /\ pr \in {"RUN", "SLEEP", "RESET", "EXCEPTION"}
    /\ pr = "RESET" => req \in Resets
    /\ pr = "EXCEPTION" => req = intc.interruptOut

(* The timers keep time.  Counted from the last write of a timer register,
   every cycle the processor hands out through update_cycles reaches the
   internal counter of a running timer exactly once, and the remainder of a
   division by the period is carried over: after each device step the next
   overflow (WDT) or match (CMT) is as far away as the cycles executed say.
   This holds across interrupts, wake-ups, manual resets, laps, a compare value
   below the current count, and the uninitialised counter of the watchdog; and
   the counters stay within their width. *)
OnTime ==
    TypeOK /\ (turn = "cpu" => \A t \in Running(wdt, cmt) : CyclesLeft(wdt, cmt, t) = due[t])

(* An enabled timer interrupt is requested in the very device step in which it
   is due, whether or not the flag of an earlier one was cleared, and in no
   other: a device step raises nothing else but the watchdog's resets.  The one
   exception is a watchdog without RSTE that overflows with counts left over:
   the loop of dsh2ewdt_step goes on after sh2e_wdt_tcsr_reset cleared TMS, and
   the rest of the counts may overflow as those of an interval timer.  A
   request then stays until the controller accepts it, which withdraws nothing
   else (sh2e_accept_interrupt). *)
Raised(ic) == (ic.pending \cup ic.isr) \ Resets
Requested(t) == IF t = WDT THEN WdtInt ELSE CmtInt[t]
Enabled(t) == IF t = WDT THEN ~wdt.tms ELSE cmt.ch[t].cmie
RequestsExact ==
    [][/\ AcceptWithdrawsOnlyItself
       /\ turn = "devices" /\ turn' = "cpu" =>
          LET over == {t \in Running(wdt, cmt) : due[t] <= 0}
              owed == {Requested(t) : t \in {u \in over : Enabled(u)}}
              may == IF WDT \in over /\ wdt.tms /\ ~wdt.rste THEN {WdtInt} ELSE {}
              new == Raised(intc) \cup owed
          IN  new \subseteq Raised(intc') /\ Raised(intc') \subseteq new \cup may]_vars

(* The program can tell why it was restarted: after an internal power-on reset,
   which only the watchdog requests, WOVF reads 1 until the program clears it,
   sleeps, or is reset from outside.  The reset that WOVF explains resets the
   watchdog as well (sh2e_wdt_interrupt_up). *)
ResetCauseKept == cause = POWER_ON_RESET_INTERNAL => wdt.wovf

(* An armed watchdog bites: when the program writes no timer register any more
   and the processor is not reset any more, no watchdog with RSTE stays armed.
   The processor may spend the time with interrupts or asleep. *)
Armed == wdt.tme /\ wdt.tms /\ wdt.rste
WatchdogBites == <>[](~touched /\ pr # "RESET" /\ scene = "wdt") => <>[]~Armed
=============================================================================
