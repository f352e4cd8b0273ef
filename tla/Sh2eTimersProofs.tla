-------------------------- MODULE Sh2eTimersProofs --------------------------
(***************************************************************************)
(* Proofs about Sh2eTimers for any periods, widths of the counters, cycles  *)
(* per instruction and content of an uninitialised counter.  The two loops  *)
(* that turn cycles into counts are followed turn by turn and compared with *)
(* a countdown in closed form; the actions of the machine come after them.  *)
(***************************************************************************)
EXTENDS Sh2eTimers, Sh2eIntcProofs

\* Zenon suffices for most steps; those that need arithmetic cite SMT.
USE Zenon

---------------------------------------------------------------------------
\* Countdowns

\* What is left of a countdown from m after n counts, when it starts again from lap
\* whenever it reaches zero.
Down(m, lap, n) == IF n < m THEN m - n ELSE ((m - n - 1) % lap) + 1

\* The remainder is the only number below the divisor that is left over.
LEMMA ModIs ==
    ASSUME NEW a \in Int, NEW m \in Nat \ {0}, NEW q \in Int, NEW r \in 0 .. m - 1, a = q * m + r
    PROVE  a % m = r
<1>1. a = (a \div m) * m + (a % m) /\ a \div m \in Int /\ a % m \in 0 .. m - 1
    BY SMT
<1> DEFINE k == (a \div m) - q
<1>2. k \in Int /\ k * m = r - (a % m)
    BY <1>1, SMT
<1> HIDE DEF k
<1>3. k = 0
    <2>1. CASE k > 0
        <3>1. k * m >= m
            BY <1>2, <2>1, SMT
        <3> QED BY <1>1, <1>2, <3>1, SMT
    <2>2. CASE k < 0
        <3>1. k * m <= -m
            BY <1>2, <2>2, SMT
        <3> QED BY <1>1, <1>2, <3>1, SMT
    <2> QED BY <1>2, <2>1, <2>2, SMT
<1> QED BY <1>1, <1>2, <1>3, SMT

\* One count of the countdown.
LEMMA DownStep ==
    ASSUME NEW m \in Nat \ {0}, NEW lap \in Nat \ {0}, NEW n \in Nat
    PROVE  /\ Down(m, lap, n) \in Nat \ {0}
           /\ Down(m, lap, n + 1) = IF Down(m, lap, n) = 1 THEN lap ELSE Down(m, lap, n) - 1
<1>1. CASE n + 1 < m
    BY <1>1, SMT DEF Down
<1>2. CASE n + 1 = m
    <2>1. (-1) % lap = lap - 1
        <3>1. -1 = (-1) * lap + (lap - 1)
            BY SMT
        <3> QED BY <3>1, ModIs, SMT
    <2> QED BY <1>2, <2>1, SMT DEF Down
<1>3. CASE n >= m
    <2> DEFINE x == m - n - 1
               q == x \div lap
    <2>1. x \in Int /\ q \in Int /\ x % lap \in 0 .. lap - 1 /\ x = q * lap + (x % lap)
        BY SMT
    <2>2. Down(m, lap, n) = (x % lap) + 1 /\ Down(m, lap, n + 1) = ((x - 1) % lap) + 1
        BY <1>3, SMT DEF Down
    <2> HIDE DEF x, q
    <2>3. CASE x % lap = 0
        <3> DEFINE y == x - 1
                   s == lap - 1
        <3>1. y \in Int /\ q - 1 \in Int /\ s \in 0 .. lap - 1 /\ y = (q - 1) * lap + s
            BY <2>1, <2>3, SMT
        <3> HIDE DEF y, s
        <3>2. y % lap = s
            BY <3>1, ModIs, Zenon
        <3>3. (x - 1) % lap = lap - 1
            BY <3>2 DEF y, s
        <3> QED BY <2>2, <2>3, <3>3, SMT
    <2>4. CASE x % lap # 0
        <3> DEFINE y == x - 1
                   s == (x % lap) - 1
        <3>1. y \in Int /\ s \in 0 .. lap - 1 /\ y = q * lap + s
            BY <2>1, <2>4, SMT
        <3> HIDE DEF y, s
        <3>2. y % lap = s
            BY <2>1, <3>1, ModIs, Zenon
        <3>3. (x - 1) % lap = (x % lap) - 1
            BY <3>2 DEF y, s
        <3> QED BY <2>1, <2>2, <2>4, <3>3, SMT
    <2> QED BY <2>3, <2>4
<1> QED BY <1>1, <1>2, <1>3, SMT

\* The cycles until the next overflow or match when the last expectation said d and a
\* lap takes that many.
Ahead(d, lap) == IF d > 0 THEN d ELSE ((d - 1) % lap) + 1

\* After total cycles at p cycles per count, a timer with m counts to go at first is
\* as far from the next overflow or match as the expectation d says.
KeepsTime(m, lap, p, total, d) ==
    /\ Down(m, lap, total \div p) * p - (total % p) = Ahead(d, lap * p)
    /\ d <= 0 <=> total \div p >= m

\* A timer that counts once per p cycles and has m counts to go: after total cycles
\* it has as many left as the cycles say, laps included.
LEMMA TimeLeft ==
    ASSUME NEW m \in Nat \ {0}, NEW lap \in Nat \ {0}, NEW p \in Nat \ {0}, NEW total \in Nat,
           NEW d \in Int, d = m * p - total
    PROVE  KeepsTime(m, lap, p, total, d)
<1> DEFINE k == total \div p
           r == total % p
<1>1. k \in Nat /\ r \in 0 .. p - 1 /\ total = k * p + r
    BY SMT
<1> HIDE DEF k, r
<1>2. CASE k < m
    <2>1. (m - k) * p >= p
        BY <1>1, <1>2, SMT
    <2>2. d = (m - k) * p - r /\ d > 0
        BY <1>1, <2>1, SMT
    <2>3. Down(m, lap, k) = m - k
        BY <1>2 DEF Down
    <2> QED BY <1>1, <1>2, <2>2, <2>3, SMT DEF k, r, Ahead, KeepsTime
<1>3. CASE k >= m
    <2> DEFINE x == m - k - 1
               q == x \div lap
               e == x % lap
    <2>1. x \in Int /\ q \in Int /\ e \in 0 .. lap - 1 /\ x = q * lap + e
        BY <1>1, SMT
    <2>2. Down(m, lap, k) = e + 1
        BY <1>3, <1>1, SMT DEF Down
    <2>3. m - k = x + 1
        BY <1>1, SMT
    <2> HIDE DEF x, q, e
    <2>4. (k - m) * p >= 0
        BY <1>1, <1>3, SMT
    <2>5. d <= 0
        BY <1>1, <2>4, SMT
    <2> DEFINE y == (e + 1) * p - r - 1
               lp == lap * p
    <2>6. lp \in Nat \ {0} /\ y \in 0 .. lp - 1
        <3>1. e * p >= 0 /\ (lap - 1 - e) * p >= 0
            BY <2>1, SMT
        <3>2. lap * p > 0
            BY SMT
        <3> QED BY <1>1, <2>1, <3>1, <3>2, SMT
    <2>7. d - 1 = q * lp + y
        <3>1. d = (x + 1) * p - r
            BY <1>1, <2>1, <2>3, SMT
        <3>2. (x + 1) * p = q * (lap * p) + (e + 1) * p
            BY <2>1, SMT
        <3> QED BY <1>1, <2>1, <3>1, <3>2, SMT
    <2> HIDE DEF lp, y
    <2>8. (d - 1) % lp = y
        <3>1. d - 1 \in Int
            BY SMT
        <3> QED BY <2>1, <2>6, <2>7, <3>1, ModIs, Zenon
    <2>9. Down(m, lap, k) * p - r = y + 1
        BY <1>1, <2>1, <2>2, SMT DEF y
    <2> QED BY <1>3, <2>5, <2>8, <2>9, SMT DEF k, r, lp, Ahead, KeepsTime
<1> QED BY <1>1, <1>2, <1>3, SMT

---------------------------------------------------------------------------
\* The watchdog

\* f holds what n turns of a loop make of start.
IsRun(f, S, step, start, n) ==
    f \in [0 .. n -> S] /\ f[0] = start /\ \A i \in 1 .. n : f[i] = step[f[i - 1]]

\* A loop that stays in a set has values after each of its turns.
LEMMA Iterates ==
    ASSUME NEW S, NEW step \in [S -> S], NEW start \in S, NEW n \in Nat
    PROVE  \E f : IsRun(f, S, step, start, n)
<1> DEFINE Run(f, m) == f[0] = start /\ \A i \in 1 .. m : f[i] = step[f[i - 1]]
           runs == {m \in Nat : \E f \in [0 .. m -> S] : Run(f, m)}
<1>1. 0 \in runs
    <2> DEFINE f == [i \in 0 .. 0 |-> start]
    <2>1. f \in [0 .. 0 -> S] /\ Run(f, 0)
        BY SMT
    <2> HIDE DEF f, Run
    <2> QED BY <2>1
<1>2. ASSUME NEW m \in Nat, m \in runs PROVE m + 1 \in runs
    <2>1. PICK g \in [0 .. m -> S] : Run(g, m)
        BY <1>2
    <2> DEFINE f == [i \in 0 .. m + 1 |-> IF i = m + 1 THEN step[g[m]] ELSE g[i]]
    <2>2. f \in [0 .. m + 1 -> S]
        BY SMT
    <2>3. Run(f, m + 1)
        <3>1. f[0] = start
            BY <2>1, SMT
        <3>2. ASSUME NEW i \in 1 .. m + 1 PROVE f[i] = step[f[i - 1]]
            <4>1. CASE i = m + 1
                BY <4>1, SMT
            <4>2. CASE i # m + 1
                BY <2>1, <4>2, SMT
            <4> QED BY <4>1, <4>2
        <3> QED BY <3>1, <3>2, Zenon
    <2> HIDE DEF f, Run
    <2> QED BY <2>2, <2>3, SMT
<1> HIDE DEF runs
<1>3. Nat \subseteq runs
    BY <1>1, <1>2, InductionOnSet
<1> QED BY <1>3 DEF runs, IsRun

\* The watchdog with its controller, as the loop of dsh2ewdt_step sees them.
WdtState == [wdt : Wdt, intc : Intc]

\* Requests of the timers and of the watchdog reach the controller.
LEMMA AssertIs ==
    ASSUME NEW ic \in Intc, NEW s \in Sources
    PROVE  /\ AssertInt(ic, s) \in Intc
           /\ AssertInt(ic, s).interruptOut = ic.interruptOut
           /\ AssertInt(ic, s).pending \subseteq ic.pending \cup {s}
           /\ Raised(AssertInt(ic, s)) = Raised(ic) \cup ({s} \ Resets)
<1>1. AssertInt(ic, s) \in Intc /\ Registers(AssertInt(ic, s)) = Registers(ic)
      /\ AssertInt(ic, s).pending \subseteq ic.pending \cup {s}
    BY RequestsTyped
<1>2. Raised(AssertInt(ic, s)) = Raised(ic) \cup ({s} \ Resets)
    BY DEF AssertInt, Raised, Intc
<1> QED BY <1>1, <1>2 DEF Registers

\* A counter of a given width wraps around.
LEMMA Wraps ==
    ASSUME NEW size \in Nat \ {0}, NEW a \in 0 .. size - 1
    PROVE  (a + 1) % size = IF a + 1 = size THEN 0 ELSE a + 1
<1> DEFINE b == a + 1
<1>1. b \in Int /\ 0 \in 0 .. size - 1
    BY SMT
<1> HIDE DEF b
<1>2. CASE b = size
    <2>1. b = 1 * size + 0
        BY <1>2, SMT
    <2>2. b % size = 0
        BY <1>1, <2>1, ModIs, SMT
    <2> QED BY <1>2, <2>2 DEF b
<1>3. CASE b # size
    <2>1. b = 0 * size + b /\ b \in 0 .. size - 1
        BY <1>3, SMT DEF b
    <2>2. b % size = b
        BY <1>1, <2>1, ModIs, SMT
    <2> QED BY <1>3, <2>2 DEF b
<1> QED BY <1>2, <1>3

\* sh2e_wdt_tcsr_reset and sh2e_wdt_tcnt_reset leave WOVF and the internal counter.
LEMMA TcsrTcntResetIs ==
    ASSUME NEW w \in Wdt
    PROVE  LET v == TcsrTcntReset(w)
           IN /\ v \in Wdt /\ v.tme = FALSE /\ v.tms = FALSE /\ v.tcnt = 0
              /\ v.counter = w.counter /\ v.cycles = w.cycles /\ v.wovf = w.wovf
<1> DEFINE v == TcsrTcntReset(w)
<1>1. 0 \in 0 .. TcntSize - 1 /\ 0 \in DOMAIN WdtPeriod
    BY TimerConstants, SMT
<1>2. v = [w EXCEPT !.ovf = FALSE, !.tms = FALSE, !.tme = FALSE, !.cks = 0, !.tcnt = 0]
    BY DEF TcsrTcntReset
<1> HIDE DEF v
<1>3. v \in Wdt /\ v.tme = FALSE /\ v.tms = FALSE /\ v.tcnt = 0
      /\ v.counter = w.counter /\ v.cycles = w.cycles /\ v.wovf = w.wovf
    BY <1>1, <1>2, Zenon DEF Wdt
<1> QED BY <1>3 DEF v

\* One count of the watchdog: it counts, it loses TME and TMS only when it overflows
\* without RSTE, it never loses WOVF, and it raises nothing unless it overflows, its
\* own interrupt in interval mode and a reset it can explain in watchdog mode.
LEMMA WdtTickIs ==
    ASSUME NEW s \in WdtState
    PROVE  LET w == s.wdt
               v == WdtTick(s).wdt
               ic == WdtTick(s).intc
               over == w.tcnt + 1 = TcntSize
           IN /\ WdtTick(s) \in WdtState
              /\ v.counter = w.counter /\ v.cycles = w.cycles
              /\ v.tcnt = IF over THEN 0 ELSE w.tcnt + 1
              /\ IF over /\ w.tms /\ ~w.rste THEN ~v.tme /\ ~v.tms
                 ELSE v.tme = w.tme /\ v.tms = w.tms /\ v.rste = w.rste /\ v.cks = w.cks
              /\ w.wovf => v.wovf
              /\ POWER_ON_RESET_INTERNAL \in ic.pending => POWER_ON_RESET_INTERNAL \in s.intc.pending \/ v.wovf
              /\ ic.interruptOut = s.intc.interruptOut
              /\ Raised(ic) = IF over /\ ~w.tms THEN Raised(s.intc) \cup {WdtInt} ELSE Raised(s.intc)
<1> DEFINE over == s.wdt.tcnt + 1 = TcntSize
           w == [s.wdt EXCEPT !.tcnt = (@ + 1) % TcntSize]
           bitten == [w EXCEPT !.wovf = TRUE]
           reset == IF w.rsts THEN MANUAL_RESET ELSE POWER_ON_RESET_INTERNAL
<1>1. s.wdt \in Wdt /\ s.intc \in Intc /\ s = [wdt |-> s.wdt, intc |-> s.intc]
    BY DEF WdtState
<1>2. (s.wdt.tcnt + 1) % TcntSize = IF over THEN 0 ELSE s.wdt.tcnt + 1
    BY <1>1, Wraps, TimerConstants DEF Wdt
<1>3. /\ w \in Wdt /\ w.tcnt = IF over THEN 0 ELSE s.wdt.tcnt + 1
      /\ w.counter = s.wdt.counter /\ w.cycles = s.wdt.cycles /\ w.wovf = s.wdt.wovf
      /\ w.tme = s.wdt.tme /\ w.tms = s.wdt.tms /\ w.rste = s.wdt.rste /\ w.cks = s.wdt.cks
    BY <1>1, <1>2, TimerConstants, SMT DEF Wdt
<1>4. w.tcnt # 0 <=> ~over
    BY <1>1, <1>3, SMT DEF Wdt
<1>5. WdtTick(s) = IF w.tcnt # 0 THEN [s EXCEPT !.wdt = w]
                   ELSE IF ~w.tms THEN [wdt |-> [w EXCEPT !.ovf = TRUE], intc |-> AssertInt(s.intc, WdtInt)]
                   ELSE IF ~w.rste THEN [s EXCEPT !.wdt = TcsrTcntReset(bitten)]
                   ELSE [wdt |-> bitten, intc |-> AssertInt(s.intc, reset)]
    BY DEF WdtTick
<1>6. reset \in Resets /\ reset \in Sources /\ WdtInt \in Sources /\ WdtInt \notin Resets
      /\ POWER_ON_RESET_INTERNAL \in Resets
    BY TimerConstants, SMT DEF Resets, POWER_ON_RESET_EXTERNAL, POWER_ON_RESET_INTERNAL, MANUAL_RESET
<1> HIDE DEF w, reset, over
<1>7. CASE w.tcnt # 0
    <2>1. WdtTick(s) = [wdt |-> w, intc |-> s.intc]
        BY <1>1, <1>5, <1>7
    <2> QED BY <1>1, <1>3, <1>4, <1>7, <2>1, SMT DEF WdtState, over
<1>8. CASE w.tcnt = 0 /\ ~w.tms
    <2> DEFINE v == [w EXCEPT !.ovf = TRUE]
               ic == AssertInt(s.intc, WdtInt)
    <2>1. WdtTick(s) = [wdt |-> v, intc |-> ic]
        BY <1>5, <1>8
    <2>2. v \in Wdt /\ v.tcnt = w.tcnt /\ v.counter = w.counter /\ v.cycles = w.cycles /\ v.wovf = w.wovf
          /\ v.tme = w.tme /\ v.tms = w.tms /\ v.rste = w.rste /\ v.cks = w.cks
        BY <1>3, Zenon DEF Wdt
    <2>3. /\ ic \in Intc /\ ic.interruptOut = s.intc.interruptOut
          /\ ic.pending \subseteq s.intc.pending \cup {WdtInt} /\ Raised(ic) = Raised(s.intc) \cup {WdtInt}
        BY <1>1, <1>6, AssertIs, SMT
    <2> HIDE DEF v, ic
    <2> QED BY <1>3, <1>4, <1>6, <1>8, <2>1, <2>2, <2>3, SMT DEF WdtState, over
<1>9. CASE w.tcnt = 0 /\ w.tms /\ ~w.rste
    <2> DEFINE v == TcsrTcntReset(bitten)
    <2>1. WdtTick(s) = [wdt |-> v, intc |-> s.intc]
        BY <1>1, <1>5, <1>9
    <2>2. bitten \in Wdt /\ bitten.counter = w.counter /\ bitten.cycles = w.cycles /\ bitten.wovf = TRUE
        BY <1>3, Zenon DEF Wdt
    <2> HIDE DEF bitten
    <2>3. v \in Wdt /\ v.tcnt = 0 /\ v.counter = w.counter /\ v.cycles = w.cycles /\ v.wovf = TRUE
          /\ v.tme = FALSE /\ v.tms = FALSE
        BY <2>2, TcsrTcntResetIs, Zenon
    <2>4. s.wdt.tms /\ ~s.wdt.rste /\ over
        BY <1>3, <1>4, <1>9
    <2> HIDE DEF v
    <2> QED BY <1>1, <1>3, <1>9, <2>1, <2>3, <2>4, SMT DEF WdtState, over
<1>10. CASE w.tcnt = 0 /\ w.tms /\ w.rste
    <2> DEFINE ic == AssertInt(s.intc, reset)
    <2>1. WdtTick(s) = [wdt |-> bitten, intc |-> ic]
        BY <1>5, <1>10
    <2>2. bitten \in Wdt /\ bitten.tcnt = w.tcnt /\ bitten.counter = w.counter /\ bitten.cycles = w.cycles
          /\ bitten.wovf = TRUE /\ bitten.tme = w.tme /\ bitten.tms = w.tms /\ bitten.rste = w.rste /\ bitten.cks = w.cks
        BY <1>3, Zenon DEF Wdt
    <2>3. /\ ic \in Intc /\ ic.interruptOut = s.intc.interruptOut
          /\ Raised(ic) = Raised(s.intc) \cup ({reset} \ Resets)
        BY <1>1, <1>6, AssertIs
    <2> HIDE DEF bitten, ic
    <2>4. Raised(ic) = Raised(s.intc)
        BY <1>6, <2>3
    <2>5. s.wdt.tms /\ s.wdt.rste /\ over
        BY <1>3, <1>4, <1>10
    <2>6. WdtTick(s).wdt = bitten /\ WdtTick(s).intc = ic /\ WdtTick(s) \in WdtState
        BY <2>1, <2>2, <2>3, SMT DEF WdtState
    <2> QED BY <1>3, <1>10, <2>2, <2>3, <2>4, <2>5, <2>6, Zenon DEF over
<1> QED BY <1>3, <1>7, <1>8, <1>9, <1>10 DEF Wdt

\* The loop of dsh2ewdt_step, turn by turn.
LEMMA WdtTicksRun ==
    ASSUME NEW s \in WdtState, NEW n \in Nat
    PROVE  \E f \in [0 .. n -> WdtState] :
               f[0] = s /\ (\A i \in 1 .. n : f[i] = WdtTick(f[i - 1])) /\ WdtTicks(s, n) = f[n]
<1> DEFINE step == [x \in WdtState |-> WdtTick(x)]
           Loop(f) == f = [i \in 0 .. n |-> IF i = 0 THEN s ELSE WdtTick(f[i - 1])]
           after == CHOOSE f : Loop(f)
<1>1. step \in [WdtState -> WdtState]
    <2>1. \A x \in WdtState : WdtTick(x) \in WdtState
        BY WdtTickIs, Zenon
    <2> QED BY <2>1
<1>2. PICK f \in [0 .. n -> WdtState] : f[0] = s /\ \A i \in 1 .. n : f[i] = step[f[i - 1]]
    <2> HIDE DEF step
    <2>1. \E f : IsRun(f, WdtState, step, s, n)
        BY <1>1, Iterates
    <2> QED BY <2>1 DEF IsRun
<1>3. f[0] = s /\ \A i \in 1 .. n : f[i - 1] \in WdtState /\ f[i] = WdtTick(f[i - 1])
    <2>1. \A i \in 1 .. n : i - 1 \in 0 .. n
        BY SMT
    <2>2. \A i \in 1 .. n : f[i - 1] \in WdtState
        BY <2>1
    <2> QED BY <1>2, <2>2, Zenon
<1>4. Loop(after)
    <2>1. f = [i \in 0 .. n |-> f[i]]
        BY <1>2
    <2>2. \A i \in 0 .. n : f[i] = IF i = 0 THEN s ELSE WdtTick(f[i - 1])
        BY <1>3, SMT
    <2>3. Loop(f)
        BY <2>1, <2>2
    <2> HIDE DEF Loop
    <2> QED BY <2>3, Zenon
<1>5. \A i \in 0 .. n : after[i] = f[i]
    <2> DEFINE same == {i \in Nat : i \in 0 .. n => after[i] = f[i]}
    <2> HIDE DEF after
    <2>1. \A i \in 0 .. n : after[i] = IF i = 0 THEN s ELSE WdtTick(after[i - 1])
        BY <1>4
    <2>2. 0 \in same
        BY <1>3, <2>1
    <2>3. ASSUME NEW i \in Nat, i \in same PROVE i + 1 \in same
        <3> SUFFICES ASSUME i + 1 \in 0 .. n PROVE after[i + 1] = f[i + 1]
            BY SMT
        <3>1. i \in 0 .. n /\ i + 1 \in 1 .. n /\ (i + 1) - 1 = i /\ i + 1 # 0
            BY SMT
        <3>2. after[i + 1] = WdtTick(after[(i + 1) - 1])
            BY <2>1, <3>1
        <3>3. f[i + 1] = WdtTick(f[(i + 1) - 1])
            BY <1>3, <3>1
        <3> QED BY <2>3, <3>1, <3>2, <3>3
    <2> HIDE DEF same
    <2>4. Nat \subseteq same
        BY <2>2, <2>3, InductionOnSet
    <2> QED BY <2>4, SMT DEF same
<1>6. WdtTicks(s, n) = after[n]
    BY DEF WdtTicks
<1>7. WdtTicks(s, n) = f[n]
    <2> HIDE DEF after
    <2> QED BY <1>5, <1>6, SMT
<1> QED BY <1>2, <1>3, <1>7

\* What i counts of the watchdog s make of it, t: see WdtTickIs.  The first overflow
\* comes after m counts; from then on a watchdog without RSTE is switched off.
WdtCounted(s, i, t) ==
    LET w == s.wdt
        v == t.wdt
        m == TcntSize - w.tcnt
        over == i >= m
    IN /\ t \in WdtState
       /\ v.counter = w.counter /\ v.cycles = w.cycles
       /\ w.wovf => v.wovf
       /\ POWER_ON_RESET_INTERNAL \in t.intc.pending => POWER_ON_RESET_INTERNAL \in s.intc.pending \/ v.wovf
       /\ t.intc.interruptOut = s.intc.interruptOut
       /\ IF over /\ w.tms /\ ~w.rste THEN ~v.tme /\ ~v.tms
          ELSE /\ v.tme = w.tme /\ v.tms = w.tms /\ v.rste = w.rste /\ v.cks = w.cks
               /\ TcntSize - v.tcnt = Down(m, TcntSize, i)
       /\ Raised(s.intc) \subseteq Raised(t.intc)
       /\ over /\ ~w.tms => WdtInt \in Raised(t.intc)
       /\ Raised(t.intc) \subseteq Raised(s.intc) \cup (IF over /\ (~w.tms \/ ~w.rste) THEN {WdtInt} ELSE {})

\* One more count.
LEMMA WdtCountedStep ==
    ASSUME NEW s \in WdtState, NEW i \in Nat, NEW t, WdtCounted(s, i, t)
    PROVE  WdtCounted(s, i + 1, WdtTick(t))
<1> DEFINE w == s.wdt
           v == t.wdt
           x == WdtTick(t).wdt
           ic == WdtTick(t).intc
           m == TcntSize - w.tcnt
           d == Down(m, TcntSize, i)
           full == v.tcnt + 1 = TcntSize
           off == w.tms /\ ~w.rste
<1>1. w \in Wdt /\ v \in Wdt /\ t \in WdtState /\ s.intc \in Intc /\ t.intc \in Intc
    BY DEF WdtCounted, WdtState
<1>2. TcntSize \in Nat \ {0} /\ m \in Nat \ {0} /\ v.tcnt \in 0 .. TcntSize - 1
    BY <1>1, TimerConstants, SMT DEF Wdt
<1>3. /\ WdtTick(t) \in WdtState
      /\ x.counter = v.counter /\ x.cycles = v.cycles
      /\ x.tcnt = IF full THEN 0 ELSE v.tcnt + 1
      /\ IF full /\ v.tms /\ ~v.rste THEN ~x.tme /\ ~x.tms
         ELSE x.tme = v.tme /\ x.tms = v.tms /\ x.rste = v.rste /\ x.cks = v.cks
      /\ v.wovf => x.wovf
      /\ POWER_ON_RESET_INTERNAL \in ic.pending => POWER_ON_RESET_INTERNAL \in t.intc.pending \/ x.wovf
      /\ ic.interruptOut = t.intc.interruptOut
      /\ Raised(ic) = IF full /\ ~v.tms THEN Raised(t.intc) \cup {WdtInt} ELSE Raised(t.intc)
    BY <1>1, WdtTickIs
<1>4. d \in Nat \ {0} /\ Down(m, TcntSize, i + 1) = IF d = 1 THEN TcntSize ELSE d - 1
    BY <1>2, DownStep, Zenon
<1>5. i < m => d = m - i
    BY DEF Down
<1> HIDE DEF d, m, x, ic
<1>6. /\ v.counter = w.counter /\ v.cycles = w.cycles
      /\ w.wovf => v.wovf
      /\ POWER_ON_RESET_INTERNAL \in t.intc.pending => POWER_ON_RESET_INTERNAL \in s.intc.pending \/ v.wovf
      /\ t.intc.interruptOut = s.intc.interruptOut
      /\ IF i >= m /\ off THEN ~v.tme /\ ~v.tms
         ELSE /\ v.tme = w.tme /\ v.tms = w.tms /\ v.rste = w.rste /\ v.cks = w.cks
              /\ TcntSize - v.tcnt = d
      /\ Raised(s.intc) \subseteq Raised(t.intc)
      /\ i >= m /\ ~w.tms => WdtInt \in Raised(t.intc)
      /\ Raised(t.intc) \subseteq Raised(s.intc) \cup (IF i >= m /\ (~w.tms \/ ~w.rste) THEN {WdtInt} ELSE {})
    BY DEF WdtCounted, m, d
<1>7. /\ x.counter = w.counter /\ x.cycles = w.cycles
      /\ w.wovf => x.wovf
      /\ POWER_ON_RESET_INTERNAL \in ic.pending => POWER_ON_RESET_INTERNAL \in s.intc.pending \/ x.wovf
      /\ ic.interruptOut = s.intc.interruptOut
      /\ Raised(s.intc) \subseteq Raised(ic)
    BY <1>3, <1>6
<1>8. CASE i >= m /\ off
    <2>1. ~x.tme /\ ~x.tms
        BY <1>3, <1>6, <1>8
    <2>2. Raised(ic) \subseteq Raised(s.intc) \cup {WdtInt}
        BY <1>3, <1>6, <1>8
    <2>3. i + 1 >= m
        BY <1>2, <1>8, SMT
    <2> QED BY <1>3, <1>7, <1>8, <2>1, <2>2, <2>3 DEF WdtCounted, m, x, ic
<1>9. CASE ~(i >= m /\ off)
    <2>1. /\ v.tme = w.tme /\ v.tms = w.tms /\ v.rste = w.rste /\ v.cks = w.cks
          /\ TcntSize - v.tcnt = d /\ (full <=> d = 1)
        BY <1>2, <1>4, <1>6, <1>9, SMT
    <2>2. TcntSize - x.tcnt = Down(m, TcntSize, i + 1)
        BY <1>2, <1>3, <1>4, <2>1, SMT
    <2>3. (full => i + 1 >= m) /\ (i + 1 >= m => i >= m \/ full)
        BY <1>2, <1>4, <1>5, <2>1, SMT
    <2>4. i >= m => i + 1 >= m
        BY <1>2, SMT
    <2>5. IF i + 1 >= m /\ off THEN ~x.tme /\ ~x.tms
          ELSE x.tme = w.tme /\ x.tms = w.tms /\ x.rste = w.rste /\ x.cks = w.cks
        BY <1>3, <1>9, <2>1, <2>3
    <2>6. i + 1 >= m /\ ~w.tms => WdtInt \in Raised(ic)
        BY <1>3, <1>6, <2>1, <2>3
    <2>7. Raised(ic) \subseteq Raised(s.intc) \cup (IF i + 1 >= m /\ (~w.tms \/ ~w.rste) THEN {WdtInt} ELSE {})
        BY <1>3, <1>6, <2>1, <2>3, <2>4
    <2> QED BY <1>3, <1>7, <2>2, <2>5, <2>6, <2>7 DEF WdtCounted, m, x, ic
<1> QED BY <1>8, <1>9

\* All the counts of one step.
LEMMA WdtTicksCounted ==
    ASSUME NEW s \in WdtState, NEW n \in Nat
    PROVE  WdtCounted(s, n, WdtTicks(s, n))
<1>1. PICK f \in [0 .. n -> WdtState] :
          f[0] = s /\ (\A i \in 1 .. n : f[i] = WdtTick(f[i - 1])) /\ WdtTicks(s, n) = f[n]
    BY WdtTicksRun, Zenon
<1> DEFINE good == {i \in Nat : i \in 0 .. n => WdtCounted(s, i, f[i])}
<1>2. 0 \in good
    <2>1. s.wdt \in Wdt /\ TcntSize \in Nat \ {0} /\ s.wdt.tcnt \in 0 .. TcntSize - 1
        BY TimerConstants DEF WdtState, Wdt
    <2>2. TcntSize - s.wdt.tcnt \in Nat \ {0} /\ Down(TcntSize - s.wdt.tcnt, TcntSize, 0) = TcntSize - s.wdt.tcnt
        BY <2>1, SMT DEF Down
    <2>3. WdtCounted(s, 0, s)
        BY <2>1, <2>2, SMT DEF WdtCounted
    <2> QED BY <1>1, <2>3
<1>3. ASSUME NEW i \in Nat, i \in good PROVE i + 1 \in good
    <2> SUFFICES ASSUME i + 1 \in 0 .. n PROVE WdtCounted(s, i + 1, f[i + 1])
        BY SMT
    <2>1. i \in 0 .. n /\ i + 1 \in 1 .. n /\ (i + 1) - 1 = i
        BY SMT
    <2>2. f[i + 1] = WdtTick(f[i])
        BY <1>1, <2>1
    <2>3. WdtCounted(s, i, f[i])
        BY <1>3, <2>1
    <2> QED BY <2>2, <2>3, WdtCountedStep
<1> HIDE DEF good
<1>4. Nat \subseteq good
    BY <1>2, <1>3, InductionOnSet
<1> QED BY <1>1, <1>4, SMT DEF good

\* The cycles of an instruction are a number.
LEMMA CyclesTyped == ASSUME NEW n \in {0} \cup Cycles PROVE n \in Nat
BY TimerConstants, SMT

\* CyclesLeft of the watchdog
WdtLeft(w) == (TcntSize - w.tcnt) * WdtPeriod[w.cks] - w.counter

\* What dsh2ewdt_step makes of a watchdog that overflows in d cycles: afterwards the
\* next overflow is d cycles away, or, when d has been used up, as much less than a
\* lap; the interval interrupt is requested if and only if it is due.
LEMMA WdtStepIs ==
    ASSUME NEW w \in Wdt, NEW ic \in Intc, NEW d, d = WdtLeft(w) - w.cycles
    PROVE  LET r == WdtStep(w, ic)
               v == r.wdt
           IN /\ v \in Wdt /\ r.intc \in Intc /\ v.cycles = 0
              /\ w.wovf => v.wovf
              /\ POWER_ON_RESET_INTERNAL \in r.intc.pending => POWER_ON_RESET_INTERNAL \in ic.pending \/ v.wovf
              /\ r.intc.interruptOut = ic.interruptOut
              /\ v.tme => /\ w.tme
                          /\ WdtLeft(v) = Ahead(d, TcntSize * WdtPeriod[w.cks])
              /\ Raised(ic) \subseteq Raised(r.intc)
              /\ w.tme /\ d <= 0 /\ ~w.tms => WdtInt \in Raised(r.intc)
              /\ Raised(r.intc) \subseteq Raised(ic) \cup
                     (IF w.tme /\ d <= 0 /\ (~w.tms \/ ~w.rste) THEN {WdtInt} ELSE {})
<1> DEFINE period == WdtPeriod[w.cks]
           total == w.counter + w.cycles
           n == total \div period
           left == total % period
           start == [wdt |-> [w EXCEPT !.counter = left], intc |-> ic]
           done == WdtTicks(start, n)
           m == TcntSize - w.tcnt
           r == WdtStep(w, ic)
           v == r.wdt
<1>1. /\ period \in Nat \ {0} /\ total \in Nat /\ m \in Nat \ {0} /\ TcntSize \in Nat \ {0}
      /\ 0 \in {0} \cup Cycles /\ w.counter \in Nat /\ w.cycles \in Nat
    <2>1. w.counter \in Nat /\ w.cycles \in {0} \cup Cycles /\ w.cks \in DOMAIN WdtPeriod
          /\ w.tcnt \in 0 .. TcntSize - 1
        BY DEF Wdt
    <2>2. w.cycles \in Nat /\ TcntSize \in Nat \ {0}
        <3>1. TcntSize \in Nat \ {0}
            BY TimerConstants
        <3> QED BY <2>1, <3>1, CyclesTyped, Zenon
    <2>3. period \in Nat \ {0}
        BY <2>1, TimerConstants
    <2> HIDE DEF period
    <2> QED BY <2>1, <2>2, <2>3, SMT
<1>2. n \in Nat /\ left \in Nat
    <2> HIDE DEF period, total
    <2> QED BY <1>1, SMT
<1>3. CASE ~w.tme
    <2>1. r = [wdt |-> [w EXCEPT !.cycles = 0], intc |-> ic]
        BY <1>3, SMT DEF WdtStep
    <2>2. v = [w EXCEPT !.cycles = 0] /\ r.intc = ic
        BY <2>1, SMT
    <2>3. v \in Wdt /\ v.cycles = 0 /\ v.wovf = w.wovf /\ v.tme = w.tme
        BY <1>1, <2>2 DEF Wdt
    <2> QED BY <1>3, <2>2, <2>3
<1>4. CASE w.tme
    <2> HIDE DEF left, n
    <2>1. start \in WdtState /\ start.wdt = [w EXCEPT !.counter = left] /\ start.intc = ic
        BY <1>2 DEF WdtState, Wdt
    <2>2. /\ start.wdt.counter = left /\ start.wdt.tcnt = w.tcnt /\ start.wdt.cks = w.cks
          /\ start.wdt.tme = w.tme /\ start.wdt.tms = w.tms /\ start.wdt.rste = w.rste
          /\ start.wdt.wovf = w.wovf
        BY <2>1 DEF Wdt
    <2> HIDE DEF start
    <2>3. WdtCounted(start, n, done)
        BY <1>2, <2>1, WdtTicksCounted
    <2> DEFINE u == done.wdt
    <2> HIDE DEF done
    <2>4. /\ done \in WdtState
          /\ u.counter = left
          /\ w.wovf => u.wovf
          /\ POWER_ON_RESET_INTERNAL \in done.intc.pending => POWER_ON_RESET_INTERNAL \in ic.pending \/ u.wovf
          /\ done.intc.interruptOut = ic.interruptOut
          /\ IF n >= m /\ w.tms /\ ~w.rste THEN ~u.tme /\ ~u.tms
             ELSE u.cks = w.cks /\ TcntSize - u.tcnt = Down(m, TcntSize, n)
          /\ Raised(ic) \subseteq Raised(done.intc)
          /\ n >= m /\ ~w.tms => WdtInt \in Raised(done.intc)
          /\ Raised(done.intc) \subseteq Raised(ic) \cup (IF n >= m /\ (~w.tms \/ ~w.rste) THEN {WdtInt} ELSE {})
        BY <2>1, <2>2, <2>3 DEF WdtCounted
    <2>5. u \in Wdt /\ done.intc \in Intc
        BY <2>4 DEF WdtState
    <2>6. r = [done EXCEPT !.wdt.cycles = 0]
        BY <1>4 DEF WdtStep, done, start, n, left
    <2>7. v = [u EXCEPT !.cycles = 0] /\ r.intc = done.intc
        BY <2>4, <2>6 DEF WdtState
    <2> HIDE DEF u
    <2>8. /\ v \in Wdt /\ v.cycles = 0 /\ v.wovf = u.wovf /\ v.tme = u.tme /\ v.counter = u.counter
          /\ v.tcnt = u.tcnt /\ v.cks = u.cks
        BY <1>1, <2>5, <2>7 DEF Wdt
    <2>9. /\ (d <= 0 <=> n >= m)
          /\ Down(m, TcntSize, n) * period - left = Ahead(d, TcntSize * period)
        <3> HIDE DEF m, total, period
        <3>1. d = m * period - total
            <4>1. m * period \in Int /\ WdtLeft(w) = m * period - w.counter /\ w.counter \in Nat /\ w.cycles \in Int
                BY <1>1, <1>2, SMT DEF m, period, WdtLeft
            <4> QED BY <4>1, SMT DEF total
        <3>2. d \in Int
            BY <1>1, <3>1, SMT
        <3>3. KeepsTime(m, TcntSize, period, total, d)
            BY <1>1, <3>1, <3>2, TimeLeft, Zenon
        <3> QED BY <3>3 DEF left, n, KeepsTime
    <2>10. v.tme => WdtLeft(v) = Ahead(d, TcntSize * WdtPeriod[w.cks])
        BY <2>4, <2>8, <2>9 DEF u, WdtLeft
    <2> HIDE DEF m, r, period, total
    <2> QED BY <1>4, <2>4, <2>5, <2>7, <2>8, <2>9, <2>10 DEF u, r
<1> QED BY <1>3, <1>4

---------------------------------------------------------------------------
\* The compare match timer

\* The compare match timer with its controller, as the loop of update_channel_counter
\* sees them.
CmtState == [cmt : Cmt, intc : Intc]

\* The counter is at least two bits wide.
LEMMA CntSizeIs == CntSize \in Nat /\ CntSize > 1
<1>1. Digit \in Nat /\ Digit >= 2
    BY TimerConstants, SMT
<1>2. Digit * Digit \in Nat /\ Digit * Digit >= 2 * Digit
    BY <1>1, SMT
<1> QED BY <1>1, <1>2, SMT DEF CntSize

\* A difference of two counts, wrapped around.
LEMMA WrapsBack ==
    ASSUME NEW k \in Nat \ {0}, NEW x \in Int, -k <= x, x < k
    PROVE  x % k = IF x >= 0 THEN x ELSE x + k
<1>1. CASE x >= 0
    BY <1>1, SMT
<1>2. CASE x < 0
    <2> DEFINE y == x + k
    <2>1. y \in 0 .. k - 1 /\ x = (-1) * k + y /\ -1 \in Int
        BY <1>2, SMT
    <2> HIDE DEF y
    <2>2. x % k = y
        BY <2>1, ModIs
    <2> QED BY <1>2, <2>2, SMT DEF y
<1> QED BY <1>1, <1>2, SMT

\* A count brings the match one count closer; the match is found at the last one.
LEMMA ToMatchCounts ==
    ASSUME NEW cnt \in 0 .. CntSize - 1, NEW cor \in 0 .. CntSize - 1, NEW n, n = (cnt + 1) % CntSize
    PROVE  /\ n \in 0 .. CntSize - 1
           /\ ToMatch(cnt, cor) \in 1 .. CntSize
           /\ n = cor <=> ToMatch(cnt, cor) = 1
           /\ n # cor => ToMatch(n, cor) = ToMatch(cnt, cor) - 1
<1> DEFINE x == cor - cnt - 1
           y == cor - n - 1
<1>1. CntSize \in Nat \ {0}
    BY CntSizeIs, SMT
<1>2. n = IF cnt + 1 = CntSize THEN 0 ELSE cnt + 1
    BY <1>1, Wraps
<1>3. n \in 0 .. CntSize - 1 /\ cnt \in Nat /\ cor \in Nat
    BY <1>1, <1>2, SMT
<1>4. x \in Int /\ -CntSize <= x /\ x < CntSize /\ y \in Int /\ -CntSize <= y /\ y < CntSize
    BY <1>1, <1>3, SMT
<1> HIDE DEF x, y
<1>5. x % CntSize = (IF x >= 0 THEN x ELSE x + CntSize) /\ y % CntSize = (IF y >= 0 THEN y ELSE y + CntSize)
    BY <1>1, <1>4, WrapsBack, Zenon
<1>6. ToMatch(cnt, cor) = (x % CntSize) + 1 /\ ToMatch(n, cor) = (y % CntSize) + 1
    BY DEF ToMatch, x, y
<1> QED BY <1>1, <1>2, <1>3, <1>4, <1>5, <1>6, SMT DEF x, y

\* c with channel i as x.
WithChannel(c, i, x) == [c EXCEPT !.ch = [c.ch EXCEPT ![i] = x]]

\* What a count leaves alone: the other channel and what the program wrote.
SameChannel(x, y) == x.cks = y.cks /\ x.cmie = y.cmie /\ x.cmcor = y.cmcor /\ x.counter = y.counter
SameElsewhere(c, d, i) ==
    d.str = c.str /\ d.cycles = c.cycles /\ \A j \in CmtChannels \ {i} : d.ch[j] = c.ch[j]

\* It differs in that channel only.
LEMMA WithChannelIs ==
    ASSUME NEW c \in Cmt, NEW i \in CmtChannels, NEW x \in CmtChannel
    PROVE  /\ WithChannel(c, i, x) \in Cmt
           /\ WithChannel(c, i, x).ch[i] = x
           /\ SameElsewhere(c, WithChannel(c, i, x), i)
BY DEF WithChannel, Cmt, SameElsewhere

\* One count of a channel: it brings the match closer, it starts over from zero at the
\* match, and it requests the interrupt of the channel at an enabled match only.
LEMMA CmtTickIs ==
    ASSUME NEW s \in CmtState, NEW i \in CmtChannels
    PROVE  LET x == s.cmt.ch[i]
               t == CmtTick(s, i)
               y == t.cmt.ch[i]
               left == ToMatch(x.cmcnt, x.cmcor)
           IN /\ t \in CmtState
              /\ SameChannel(y, x) /\ SameElsewhere(s.cmt, t.cmt, i)
              /\ ToMatch(y.cmcnt, y.cmcor) = IF left = 1 THEN ToMatch(0, x.cmcor) ELSE left - 1
              /\ POWER_ON_RESET_INTERNAL \in t.intc.pending => POWER_ON_RESET_INTERNAL \in s.intc.pending
              /\ t.intc.interruptOut = s.intc.interruptOut
              /\ Raised(t.intc) = IF left = 1 /\ x.cmie THEN Raised(s.intc) \cup {CmtInt[i]} ELSE Raised(s.intc)
<1> DEFINE x == s.cmt.ch[i]
           t == CmtTick(s, i)
           n == (x.cmcnt + 1) % CntSize
           left == ToMatch(x.cmcnt, x.cmcor)
           counted == [x EXCEPT !.cmcnt = n]
           matched == [x EXCEPT !.cmcnt = 0, !.cmf = TRUE]
           raised == AssertInt(s.intc, CmtInt[i])
<1>1. s.cmt \in Cmt /\ s.intc \in Intc /\ s = [cmt |-> s.cmt, intc |-> s.intc] /\ x \in CmtChannel
    BY DEF CmtState, Cmt
<1>2. x.cmcnt \in 0 .. CntSize - 1 /\ x.cmcor \in 0 .. CntSize - 1 /\ 0 \in 0 .. CntSize - 1
    BY <1>1, CntSizeIs, SMT DEF CmtChannel
<1>3. /\ n \in 0 .. CntSize - 1 /\ left \in 1 .. CntSize /\ (n = x.cmcor <=> left = 1)
      /\ n # x.cmcor => ToMatch(n, x.cmcor) = left - 1
    <2> HIDE DEF x
    <2> QED BY <1>2, ToMatchCounts, SMT
<1>4. /\ CmtInt[i] \in Sources /\ CmtInt[i] \notin Resets /\ POWER_ON_RESET_INTERNAL \in Resets
    <2>1. CmtInt \in [CmtChannels -> Sources \ Resets]
        BY TimerConstants
    <2>2. POWER_ON_RESET_INTERNAL \in Resets
        BY SMT DEF Resets, POWER_ON_RESET_EXTERNAL, POWER_ON_RESET_INTERNAL, MANUAL_RESET
    <2> QED BY <2>1, <2>2
<1>5. t = IF n # x.cmcor THEN [cmt |-> WithChannel(s.cmt, i, counted), intc |-> s.intc]
          ELSE [cmt |-> WithChannel(s.cmt, i, matched), intc |-> IF x.cmie THEN raised ELSE s.intc]
    <2>1. CASE n # x.cmcor
        BY <1>1, <2>1, SMT DEF CmtTick, WithChannel
    <2>2. CASE n = x.cmcor
        BY <1>1, <2>2, Zenon DEF CmtTick, WithChannel
    <2> QED BY <2>1, <2>2
<1>6. /\ counted \in CmtChannel /\ SameChannel(counted, x) /\ counted.cmcnt = n /\ counted.cmcor = x.cmcor
      /\ matched \in CmtChannel /\ SameChannel(matched, x) /\ matched.cmcnt = 0 /\ matched.cmcor = x.cmcor
    <2> HIDE DEF x, n
    <2> QED BY <1>1, <1>2, <1>3, Zenon DEF CmtChannel, SameChannel
<1>7. /\ raised \in Intc /\ raised.interruptOut = s.intc.interruptOut
      /\ raised.pending \subseteq s.intc.pending \cup {CmtInt[i]}
      /\ Raised(raised) = Raised(s.intc) \cup {CmtInt[i]}
    BY <1>1, <1>4, AssertIs, SMT
<1> HIDE DEF x, n, counted, matched, raised, left, t
<1>8. CASE n # x.cmcor
    <2>1. t.cmt = WithChannel(s.cmt, i, counted) /\ t.intc = s.intc /\ t = [cmt |-> t.cmt, intc |-> t.intc]
        BY <1>5, <1>8
    <2>2. t.cmt \in Cmt /\ SameElsewhere(s.cmt, t.cmt, i) /\ t.cmt.ch[i] = counted
        BY <1>1, <1>6, <2>1, WithChannelIs, SMT
    <2>3. t \in CmtState
        BY <1>1, <2>1, <2>2 DEF CmtState
    <2>4. SameChannel(t.cmt.ch[i], x) /\ ToMatch(t.cmt.ch[i].cmcnt, t.cmt.ch[i].cmcor) = left - 1 /\ left # 1
        BY <1>3, <1>6, <1>8, <2>2
    <2> QED BY <2>1, <2>2, <2>3, <2>4 DEF x, left, t
<1>9. CASE n = x.cmcor
    <2>1. t.cmt = WithChannel(s.cmt, i, matched) /\ t.intc = (IF x.cmie THEN raised ELSE s.intc)
          /\ t = [cmt |-> t.cmt, intc |-> t.intc]
        BY <1>5, <1>9
    <2>2. t.cmt \in Cmt /\ SameElsewhere(s.cmt, t.cmt, i) /\ t.cmt.ch[i] = matched
        BY <1>1, <1>6, <2>1, WithChannelIs, SMT
    <2>3. t.intc \in Intc /\ t.intc.interruptOut = s.intc.interruptOut
          /\ (POWER_ON_RESET_INTERNAL \in t.intc.pending => POWER_ON_RESET_INTERNAL \in s.intc.pending)
          /\ Raised(t.intc) = IF x.cmie THEN Raised(s.intc) \cup {CmtInt[i]} ELSE Raised(s.intc)
        BY <1>1, <1>4, <1>7, <2>1
    <2>4. t \in CmtState
        BY <2>1, <2>2, <2>3 DEF CmtState
    <2>5. SameChannel(t.cmt.ch[i], x) /\ ToMatch(t.cmt.ch[i].cmcnt, t.cmt.ch[i].cmcor) = ToMatch(0, x.cmcor) /\ left = 1
        BY <1>3, <1>6, <1>9, <2>2
    <2> QED BY <2>2, <2>3, <2>4, <2>5 DEF x, left, t
<1> QED BY <1>8, <1>9, Zenon

\* The loop of update_channel_counter, turn by turn.
LEMMA CmtTicksRun ==
    ASSUME NEW s \in CmtState, NEW c \in CmtChannels, NEW n \in Nat
    PROVE  \E f \in [0 .. n -> CmtState] :
               f[0] = s /\ (\A i \in 1 .. n : f[i] = CmtTick(f[i - 1], c)) /\ CmtTicks(s, c, n) = f[n]
<1> DEFINE step == [x \in CmtState |-> CmtTick(x, c)]
           Loop(f) == f = [i \in 0 .. n |-> IF i = 0 THEN s ELSE CmtTick(f[i - 1], c)]
           after == CHOOSE f : Loop(f)
<1>1. step \in [CmtState -> CmtState]
    <2>1. \A x \in CmtState : CmtTick(x, c) \in CmtState
        BY CmtTickIs, Zenon
    <2> QED BY <2>1
<1>2. PICK f \in [0 .. n -> CmtState] : f[0] = s /\ \A i \in 1 .. n : f[i] = step[f[i - 1]]
    <2> HIDE DEF step
    <2>1. \E f : IsRun(f, CmtState, step, s, n)
        BY <1>1, Iterates
    <2> QED BY <2>1 DEF IsRun
<1>3. f[0] = s /\ \A i \in 1 .. n : f[i - 1] \in CmtState /\ f[i] = CmtTick(f[i - 1], c)
    <2>1. \A i \in 1 .. n : i - 1 \in 0 .. n
        BY SMT
    <2>2. \A i \in 1 .. n : f[i - 1] \in CmtState
        BY <2>1
    <2> QED BY <1>2, <2>2, Zenon
<1>4. Loop(after)
    <2>1. f = [i \in 0 .. n |-> f[i]]
        BY <1>2
    <2>2. \A i \in 0 .. n : f[i] = IF i = 0 THEN s ELSE CmtTick(f[i - 1], c)
        BY <1>3, SMT
    <2>3. Loop(f)
        BY <2>1, <2>2
    <2> HIDE DEF Loop
    <2> QED BY <2>3, Zenon
<1>5. \A i \in 0 .. n : after[i] = f[i]
    <2> DEFINE same == {i \in Nat : i \in 0 .. n => after[i] = f[i]}
    <2> HIDE DEF after
    <2>1. \A i \in 0 .. n : after[i] = IF i = 0 THEN s ELSE CmtTick(after[i - 1], c)
        BY <1>4
    <2>2. 0 \in same
        BY <1>3, <2>1
    <2>3. ASSUME NEW i \in Nat, i \in same PROVE i + 1 \in same
        <3> SUFFICES ASSUME i + 1 \in 0 .. n PROVE after[i + 1] = f[i + 1]
            BY SMT
        <3>1. i \in 0 .. n /\ i + 1 \in 1 .. n /\ (i + 1) - 1 = i /\ i + 1 # 0
            BY SMT
        <3>2. after[i + 1] = CmtTick(after[(i + 1) - 1], c)
            BY <2>1, <3>1
        <3>3. f[i + 1] = CmtTick(f[(i + 1) - 1], c)
            BY <1>3, <3>1
        <3> QED BY <2>3, <3>1, <3>2, <3>3
    <2> HIDE DEF same
    <2>4. Nat \subseteq same
        BY <2>2, <2>3, InductionOnSet
    <2> QED BY <2>4, SMT DEF same
<1>6. CmtTicks(s, c, n) = after[n]
    BY DEF CmtTicks
<1>7. CmtTicks(s, c, n) = f[n]
    <2> HIDE DEF after
    <2> QED BY <1>5, <1>6, SMT
<1> QED BY <1>2, <1>3, <1>7

\* What n counts of channel i of s make of it, t: see CmtTickIs.  The first match
\* comes after m counts, the next ones after ToMatch(0, CMCOR) counts each.
CmtCounted(s, i, n, t) ==
    LET x == s.cmt.ch[i]
        y == t.cmt.ch[i]
        m == ToMatch(x.cmcnt, x.cmcor)
    IN /\ t \in CmtState
       /\ SameChannel(y, x) /\ SameElsewhere(s.cmt, t.cmt, i)
       /\ ToMatch(y.cmcnt, y.cmcor) = Down(m, ToMatch(0, x.cmcor), n)
       /\ POWER_ON_RESET_INTERNAL \in t.intc.pending => POWER_ON_RESET_INTERNAL \in s.intc.pending
       /\ t.intc.interruptOut = s.intc.interruptOut
       /\ Raised(t.intc) = IF n >= m /\ x.cmie THEN Raised(s.intc) \cup {CmtInt[i]} ELSE Raised(s.intc)

\* The distance to the match is a positive number.
LEMMA ToMatchTyped ==
    ASSUME NEW x \in CmtChannel
    PROVE  ToMatch(x.cmcnt, x.cmcor) \in Nat \ {0} /\ ToMatch(0, x.cmcor) \in Nat \ {0}
<1>1. x.cmcnt \in 0 .. CntSize - 1 /\ x.cmcor \in 0 .. CntSize - 1 /\ 0 \in 0 .. CntSize - 1 /\ CntSize \in Nat
    BY CntSizeIs, SMT DEF CmtChannel
<1>2. ToMatch(x.cmcnt, x.cmcor) \in 1 .. CntSize /\ ToMatch(0, x.cmcor) \in 1 .. CntSize
    BY <1>1, ToMatchCounts, Zenon
<1> QED BY <1>1, <1>2, SMT

\* One more count.
LEMMA CmtCountedStep ==
    ASSUME NEW s \in CmtState, NEW i \in CmtChannels, NEW n \in Nat, NEW t, CmtCounted(s, i, n, t)
    PROVE  CmtCounted(s, i, n + 1, CmtTick(t, i))
<1> DEFINE x == s.cmt.ch[i]
           y == t.cmt.ch[i]
           u == CmtTick(t, i)
           z == u.cmt.ch[i]
           m == ToMatch(x.cmcnt, x.cmcor)
           lap == ToMatch(0, x.cmcor)
           d == Down(m, lap, n)
<1>1. x \in CmtChannel /\ s.cmt \in Cmt /\ t \in CmtState /\ t.cmt \in Cmt
    BY DEF CmtCounted, CmtState, Cmt
<1>2. m \in Nat \ {0} /\ lap \in Nat \ {0}
    BY <1>1, ToMatchTyped
<1>3. /\ SameChannel(y, x) /\ SameElsewhere(s.cmt, t.cmt, i)
      /\ ToMatch(y.cmcnt, y.cmcor) = d
      /\ POWER_ON_RESET_INTERNAL \in t.intc.pending => POWER_ON_RESET_INTERNAL \in s.intc.pending
      /\ t.intc.interruptOut = s.intc.interruptOut
      /\ Raised(t.intc) = IF n >= m /\ x.cmie THEN Raised(s.intc) \cup {CmtInt[i]} ELSE Raised(s.intc)
    BY DEF CmtCounted
<1>4. y.cmcor = x.cmcor /\ y.cmie = x.cmie
    BY <1>3 DEF SameChannel
<1>5. /\ u \in CmtState
      /\ SameChannel(z, y) /\ SameElsewhere(t.cmt, u.cmt, i)
      /\ ToMatch(z.cmcnt, z.cmcor) = IF d = 1 THEN lap ELSE d - 1
      /\ POWER_ON_RESET_INTERNAL \in u.intc.pending => POWER_ON_RESET_INTERNAL \in t.intc.pending
      /\ u.intc.interruptOut = t.intc.interruptOut
      /\ Raised(u.intc) = IF d = 1 /\ x.cmie THEN Raised(t.intc) \cup {CmtInt[i]} ELSE Raised(t.intc)
    <2> HIDE DEF d
    <2> QED BY <1>1, <1>3, <1>4, CmtTickIs, ZenonT(60)
<1> HIDE DEF x, y, z, u, m, lap
<1>6. d \in Nat \ {0} /\ Down(m, lap, n + 1) = (IF d = 1 THEN lap ELSE d - 1)
    BY <1>2, DownStep
<1>7. n < m => d = m - n
    BY DEF Down
<1>8. SameChannel(z, x) /\ SameElsewhere(s.cmt, u.cmt, i)
    BY <1>3, <1>5 DEF SameChannel, SameElsewhere
<1> HIDE DEF d
<1>9. Raised(u.intc) = IF n + 1 >= m /\ x.cmie THEN Raised(s.intc) \cup {CmtInt[i]} ELSE Raised(s.intc)
    <2>1. CASE n >= m
        <3>1. n + 1 >= m
            BY <1>2, <2>1, SMT
        <3> QED BY <1>3, <1>5, <2>1, <3>1, Zenon
    <2>2. CASE n < m
        <3>1. (n + 1 >= m <=> d = 1) /\ ~(n >= m)
            BY <1>2, <1>7, <2>2, SMT
        <3> QED BY <1>3, <1>5, <3>1
    <2> QED BY <1>2, <2>1, <2>2, SMT
<1> QED BY <1>3, <1>5, <1>6, <1>8, <1>9, Zenon DEF CmtCounted, x, y, z, u, m, lap

\* All the counts of one step.
LEMMA CmtTicksCounted ==
    ASSUME NEW s \in CmtState, NEW c \in CmtChannels, NEW n \in Nat
    PROVE  CmtCounted(s, c, n, CmtTicks(s, c, n))
<1>1. PICK f \in [0 .. n -> CmtState] :
          f[0] = s /\ (\A i \in 1 .. n : f[i] = CmtTick(f[i - 1], c)) /\ CmtTicks(s, c, n) = f[n]
    BY CmtTicksRun, Zenon
<1> DEFINE good == {i \in Nat : i \in 0 .. n => CmtCounted(s, c, i, f[i])}
<1>2. 0 \in good
    <2> DEFINE m == ToMatch(s.cmt.ch[c].cmcnt, s.cmt.ch[c].cmcor)
    <2>1. m \in Nat \ {0}
        BY ToMatchTyped DEF CmtState, Cmt
    <2> HIDE DEF m
    <2>2. Down(m, ToMatch(0, s.cmt.ch[c].cmcor), 0) = m /\ ~(0 >= m)
        BY <2>1, SMT DEF Down
    <2>3. CmtCounted(s, c, 0, s)
        BY <2>1, <2>2 DEF CmtCounted, SameChannel, SameElsewhere, m
    <2> QED BY <1>1, <2>3
<1>3. ASSUME NEW i \in Nat, i \in good PROVE i + 1 \in good
    <2> SUFFICES ASSUME i + 1 \in 0 .. n PROVE CmtCounted(s, c, i + 1, f[i + 1])
        BY SMTT(30)
    <2>1. i \in 0 .. n /\ i + 1 \in 1 .. n /\ (i + 1) - 1 = i
        BY SMT
    <2>2. f[i + 1] = CmtTick(f[i], c)
        BY <1>1, <2>1
    <2>3. CmtCounted(s, c, i, f[i])
        BY <1>3, <2>1
    <2> QED BY <2>2, <2>3, CmtCountedStep
<1> HIDE DEF good
<1>4. Nat \subseteq good
    BY <1>2, <1>3, InductionOnSet
<1> QED BY <1>1, <1>4, SMT DEF good

\* CyclesLeft and Lap of a channel x, whether x requests interrupts, and the cycles
\* that its internal counter holds: never a whole period of every clock.
ChannelLeft(x) == ToMatch(x.cmcnt, x.cmcor) * CmtPeriod[x.cks] - x.counter
ChannelLap(x) == ToMatch(0, x.cmcor) * CmtPeriod[x.cks]
Bounded(x) == \E k \in DOMAIN CmtPeriod : x.counter < CmtPeriod[k]

\* What n cycles make of a channel: the match stays on time, the remainder of the
\* division by the period is kept, and the registers are left alone.
Stepped(x, y, n) ==
    /\ y.cks = x.cks /\ y.cmie = x.cmie /\ y.cmcor = x.cmcor
    /\ ChannelLeft(y) = Ahead(ChannelLeft(x) - n, ChannelLap(x))
    /\ Bounded(y)

\* What update_channel_counter makes of a channel that matches in d cycles.
LEMMA ChannelStepIs ==
    ASSUME NEW s \in CmtState, NEW i \in CmtChannels
    PROVE  LET x == s.cmt.ch[i]
               t == ChannelStep(s, i)
               d == ChannelLeft(x) - s.cmt.cycles
           IN /\ t \in CmtState /\ SameElsewhere(s.cmt, t.cmt, i)
              /\ IF i \in s.cmt.str THEN Stepped(x, t.cmt.ch[i], s.cmt.cycles) ELSE t.cmt = s.cmt
              /\ POWER_ON_RESET_INTERNAL \in t.intc.pending => POWER_ON_RESET_INTERNAL \in s.intc.pending
              /\ t.intc.interruptOut = s.intc.interruptOut
              /\ Raised(t.intc) = IF i \in s.cmt.str /\ d <= 0 /\ x.cmie
                                  THEN Raised(s.intc) \cup {CmtInt[i]} ELSE Raised(s.intc)
<1> DEFINE x == s.cmt.ch[i]
           t == ChannelStep(s, i)
           d == ChannelLeft(x) - s.cmt.cycles
           period == CmtPeriod[x.cks]
           total == x.counter + s.cmt.cycles
           n == total \div period
           left == total % period
           x0 == [x EXCEPT !.counter = left]
           start == [cmt |-> WithChannel(s.cmt, i, x0), intc |-> s.intc]
           m == ToMatch(x.cmcnt, x.cmcor)
           lap == ToMatch(0, x.cmcor)
<1>1. s.cmt \in Cmt /\ s.intc \in Intc /\ s = [cmt |-> s.cmt, intc |-> s.intc] /\ x \in CmtChannel
    BY DEF CmtState, Cmt
<1>2. x.counter \in Nat /\ s.cmt.cycles \in Nat /\ period \in Nat \ {0} /\ total \in Nat /\ x.cks \in DOMAIN CmtPeriod
    <2>1. x.counter \in Nat /\ x.cks \in DOMAIN CmtPeriod
        BY <1>1 DEF CmtChannel
    <2>2. s.cmt.cycles \in Nat
        BY <1>1, CyclesTyped DEF Cmt
    <2>3. period \in Nat \ {0}
        BY <2>1, TimerConstants
    <2> HIDE DEF period, x
    <2> QED BY <2>1, <2>2, <2>3, SMT
<1>3. m \in Nat \ {0} /\ lap \in Nat \ {0}
    BY <1>1, ToMatchTyped
<1>4. CASE i \notin s.cmt.str
    <2>1. t = s
        BY <1>4 DEF ChannelStep
    <2> QED BY <1>4, <2>1 DEF SameElsewhere
<1>5. CASE i \in s.cmt.str
    <2>1. t = CmtTicks(start, i, n)
        BY <1>1, <1>5, SMT DEF ChannelStep, WithChannel
    <2> HIDE DEF x, period, total
    <2>2. n \in Nat /\ left \in Nat /\ left < period
        BY <1>2, SMT
    <2> HIDE DEF n, left
    <2>3. /\ x0 \in CmtChannel /\ x0.cks = x.cks /\ x0.cmie = x.cmie /\ x0.cmcor = x.cmcor /\ x0.cmcnt = x.cmcnt
          /\ x0.counter = left
        BY <1>1, <2>2 DEF CmtChannel
    <2> HIDE DEF x0
    <2>4. start.cmt \in Cmt /\ start.cmt.ch[i] = x0 /\ SameElsewhere(s.cmt, start.cmt, i) /\ start.intc = s.intc
        BY <1>1, <2>3, WithChannelIs
    <2>5. start \in CmtState
        BY <1>1, <2>4 DEF CmtState
    <2> HIDE DEF start, t
    <2>6. CmtCounted(start, i, n, t)
        BY <2>1, <2>2, <2>5, CmtTicksCounted
    <2> DEFINE y == t.cmt.ch[i]
    <2>7. /\ t \in CmtState
          /\ SameChannel(y, x0) /\ SameElsewhere(start.cmt, t.cmt, i)
          /\ ToMatch(y.cmcnt, y.cmcor) = Down(m, lap, n)
          /\ POWER_ON_RESET_INTERNAL \in t.intc.pending => POWER_ON_RESET_INTERNAL \in s.intc.pending
          /\ t.intc.interruptOut = s.intc.interruptOut
          /\ Raised(t.intc) = IF n >= m /\ x.cmie THEN Raised(s.intc) \cup {CmtInt[i]} ELSE Raised(s.intc)
        BY <2>3, <2>4, <2>6 DEF CmtCounted
    <2> HIDE DEF y, m, lap
    <2>8. /\ y.cks = x.cks /\ y.cmie = x.cmie /\ y.cmcor = x.cmcor /\ y.counter = left
        BY <2>3, <2>7 DEF SameChannel
    <2>9. SameElsewhere(s.cmt, t.cmt, i)
        BY <2>4, <2>7 DEF SameElsewhere
    <2>10. d \in Int /\ d = m * period - total
        <3>1. m * period \in Int
            BY <1>2, <1>3, SMT
        <3>2. ChannelLeft(x) = m * period - x.counter
            BY DEF ChannelLeft, m, period
        <3> QED BY <1>2, <3>1, <3>2, SMT DEF total
    <2> HIDE DEF d
    <2>11. KeepsTime(m, lap, period, total, d)
        BY <1>2, <1>3, <2>10, TimeLeft, Zenon
    <2>12. Down(m, lap, n) * period - left = Ahead(d, lap * period) /\ (d <= 0 <=> n >= m)
        BY <2>11 DEF KeepsTime, n, left
    <2>13. ChannelLeft(y) = Ahead(d, ChannelLap(x))
        BY <2>7, <2>8, <2>12 DEF ChannelLeft, ChannelLap, lap, period
    <2>14. Bounded(y)
        BY <1>2, <2>2, <2>8 DEF Bounded, period
    <2>15. Stepped(x, y, s.cmt.cycles)
        BY <2>8, <2>13, <2>14 DEF Stepped, d
    <2> QED BY <1>5, <2>7, <2>9, <2>12, <2>15 DEF x, y, t, d
<1> QED BY <1>4, <1>5

\* What dsh2ecmt_step makes of both channels: each is stepped as if it were alone.
LEMMA CmtStepIs ==
    ASSUME NEW c \in Cmt, NEW ic \in Intc
    PROVE  LET r == CmtStep(c, ic)
               toGo(i) == ChannelLeft(c.ch[i]) - c.cycles
           IN /\ r.cmt \in Cmt /\ r.intc \in Intc /\ r.cmt.cycles = 0 /\ r.cmt.str = c.str
              /\ \A i \in CmtChannels : IF i \in c.str THEN Stepped(c.ch[i], r.cmt.ch[i], c.cycles)
                                        ELSE r.cmt.ch[i] = c.ch[i]
              /\ POWER_ON_RESET_INTERNAL \in r.intc.pending => POWER_ON_RESET_INTERNAL \in ic.pending
              /\ r.intc.interruptOut = ic.interruptOut
              /\ Raised(r.intc) =
                     Raised(ic) \cup {CmtInt[i] : i \in {j \in c.str : toGo(j) <= 0 /\ c.ch[j].cmie}}
<1> DEFINE s == [cmt |-> c, intc |-> ic]
           t == ChannelStep(s, 0)
           u == ChannelStep(t, 1)
           r == CmtStep(c, ic)
           toGo(i) == ChannelLeft(c.ch[i]) - c.cycles
           On(i) == i \in c.str /\ toGo(i) <= 0 /\ c.ch[i].cmie
<1>1. s \in CmtState /\ s.cmt = c /\ s.intc = ic /\ 0 \in CmtChannels /\ 1 \in CmtChannels /\ CmtChannels = {0, 1}
    BY DEF CmtState, CmtChannels
<1>2. /\ t \in CmtState /\ SameElsewhere(c, t.cmt, 0)
      /\ IF 0 \in c.str THEN Stepped(c.ch[0], t.cmt.ch[0], c.cycles) ELSE t.cmt = c
      /\ POWER_ON_RESET_INTERNAL \in t.intc.pending => POWER_ON_RESET_INTERNAL \in ic.pending
      /\ t.intc.interruptOut = ic.interruptOut
      /\ Raised(t.intc) = IF On(0) THEN Raised(ic) \cup {CmtInt[0]} ELSE Raised(ic)
    <2> HIDE DEF s
    <2> QED BY <1>1, ChannelStepIs, Zenon
<1> HIDE DEF s, t
<1>3. t.cmt.ch[1] = c.ch[1] /\ t.cmt.str = c.str /\ t.cmt.cycles = c.cycles
    BY <1>1, <1>2, SMT DEF SameElsewhere
<1>4. /\ u \in CmtState /\ SameElsewhere(t.cmt, u.cmt, 1)
      /\ IF 1 \in c.str THEN Stepped(c.ch[1], u.cmt.ch[1], c.cycles) ELSE u.cmt = t.cmt
      /\ POWER_ON_RESET_INTERNAL \in u.intc.pending => POWER_ON_RESET_INTERNAL \in t.intc.pending
      /\ u.intc.interruptOut = t.intc.interruptOut
      /\ Raised(u.intc) = IF On(1) THEN Raised(t.intc) \cup {CmtInt[1]} ELSE Raised(t.intc)
    BY <1>1, <1>2, <1>3, ChannelStepIs
<1> HIDE DEF u
<1>5. u.cmt.ch[0] = t.cmt.ch[0] /\ u.cmt.str = c.str
    BY <1>1, <1>3, <1>4, SMT DEF SameElsewhere
<1>6. r.cmt = [u.cmt EXCEPT !.cycles = 0] /\ r.intc = u.intc
    BY <1>4 DEF CmtStep, s, t, u, CmtState
<1>7. r.cmt \in Cmt /\ r.intc \in Intc /\ r.cmt.cycles = 0 /\ r.cmt.str = u.cmt.str /\ r.cmt.ch = u.cmt.ch
    <2>1. u.cmt \in Cmt /\ u.intc \in Intc
        BY <1>4 DEF CmtState
    <2> QED BY <1>6, <2>1 DEF Cmt
<1> HIDE DEF r
<1>8. \A i \in CmtChannels : IF i \in c.str THEN Stepped(c.ch[i], r.cmt.ch[i], c.cycles)
                             ELSE r.cmt.ch[i] = c.ch[i]
    BY <1>1, <1>2, <1>3, <1>4, <1>5, <1>7, ZenonT(30)
<1>9. Raised(r.intc) = Raised(ic) \cup {CmtInt[i] : i \in {j \in c.str : toGo(j) <= 0 /\ c.ch[j].cmie}}
    <2>1. c.str \subseteq {0, 1}
        BY <1>1 DEF Cmt
    <2> HIDE DEF toGo
    <2> QED BY <1>2, <1>4, <1>6, <2>1, SMT
<1> QED BY <1>2, <1>4, <1>5, <1>6, <1>7, <1>8, <1>9 DEF r

---------------------------------------------------------------------------
\* The processor

\* A poll of the controller reports a source the loop scans, and leaves the requests.
LEMMA PollIs ==
    ASSUME NEW ic \in Intc, NEW mask \in Masks
    PROVE  LET check == CheckInterrupts(ic, mask)
           IN /\ check.intc \in Intc /\ check.intc.pending = ic.pending
              /\ check.out # 0 => check.out \in Scanned /\ check.out = check.intc.interruptOut
<1> DEFINE check == CheckInterrupts(ic, mask)
           best == Arbitrate(ic, mask)
<1>1. mask \in Pri /\ mask \in Nat
    BY IntcConstants, SMT DEF Masks, Pri
<1>2. check.intc \in Intc /\ check.intc.pending = ic.pending
    BY <1>1, CheckTyped
<1>3. BestOf(ic, Visible(ic, mask), best)
    BY <1>1, ArbitrateFinds
<1>4. best.src # 0 => best.src \in Scanned
    BY <1>3, SMT DEF BestOf, Visible, None
<1>5. check.out # 0 => ~NmiDetected(ic) /\ check.out = best.src
    BY DEF CheckInterrupts
<1>6. check.out # 0 => check.out = check.intc.interruptOut
    BY <1>1, <1>5, CheckTyped
<1> QED BY <1>2, <1>4, <1>5, <1>6

\* The compare match timer is in a state it can be in.
Fine(c) == c \in Cmt /\ \A i \in CmtChannels : Bounded(c.ch[i])

\* The reset of the compare match timer stops both channels and clears their counters.
LEMMA CmtResetIs ==
    ASSUME NEW c \in Cmt
    PROVE  LET d == CmtReset(c)
           IN Fine(d) /\ d.str = {} /\ d.cycles = c.cycles
<1> DEFINE x == [cks |-> 0, cmie |-> FALSE, cmf |-> FALSE, cmcnt |-> 0, cmcor |-> CntSize - 1, counter |-> 0]
           d == CmtReset(c)
<1>1. 0 \in 0 .. CntSize - 1 /\ CntSize - 1 \in 0 .. CntSize - 1
    BY CntSizeIs, SMT
<1>2. 0 \in DOMAIN CmtPeriod /\ 0 < CmtPeriod[0]
    BY TimerConstants, SMT
<1>3. x \in CmtChannel /\ x.counter = 0
    BY <1>1, <1>2 DEF CmtChannel
<1> HIDE DEF x
<1>4. Bounded(x)
    BY <1>2, <1>3 DEF Bounded
<1>5. d = [c EXCEPT !.str = {}, !.ch = [i \in CmtChannels |-> x]]
    BY DEF CmtReset, x
<1> HIDE DEF d
<1>6. d \in Cmt /\ d.str = {} /\ d.cycles = c.cycles /\ \A i \in CmtChannels : d.ch[i] = x
    BY <1>3, <1>5, Zenon DEF Cmt
<1> QED BY <1>4, <1>6 DEF d, Fine

\* What an event of the processor makes of the compare match timer.
LEMMA CmtNotifiedIs ==
    ASSUME NEW c, Fine(c), NEW num
    PROVE  LET d == CmtNotified(c, num)
           IN /\ Fine(d) /\ d.cycles = c.cycles
              /\ IF num \in {POWER_ON_RESET_EXTERNAL, POWER_ON_RESET_INTERNAL, SLEEP_MODE}
                 THEN d.str = {} ELSE d = c
<1>1. CASE num \in {POWER_ON_RESET_EXTERNAL, POWER_ON_RESET_INTERNAL, SLEEP_MODE}
    <2>1. CmtNotified(c, num) = CmtReset(c)
        BY <1>1 DEF CmtNotified
    <2> QED BY <1>1, <2>1, CmtResetIs DEF Fine
<1>2. CASE num \notin {POWER_ON_RESET_EXTERNAL, POWER_ON_RESET_INTERNAL, SLEEP_MODE}
    <2>1. CmtNotified(c, num) = c
        BY <1>2 DEF CmtNotified
    <2> QED BY <1>2, <2>1
<1> QED BY <1>1, <1>2

\* What an event of the processor makes of the watchdog: a power-on reset and sleep
\* stop it, and the reset it requested itself leaves WOVF.
LEMMA WdtNotifiedIs ==
    ASSUME NEW w \in Wdt, NEW num
    PROVE  LET v == WdtNotified(w, num)
           IN /\ v \in Wdt /\ v.cycles = w.cycles
              /\ IF num \in {POWER_ON_RESET_EXTERNAL, POWER_ON_RESET_INTERNAL, SLEEP_MODE}
                 THEN v.tme = FALSE ELSE v = w
              /\ num = POWER_ON_RESET_INTERNAL => v.wovf = w.wovf
<1> DEFINE u == TcsrTcntReset(w)
           z == RstcsrReset(u)
<1>1. u \in Wdt /\ u.tme = FALSE /\ u.cycles = w.cycles /\ u.wovf = w.wovf
    BY TcsrTcntResetIs, Zenon
<1> HIDE DEF u
<1>2. z \in Wdt /\ z.tme = FALSE /\ z.cycles = w.cycles
    BY <1>1, Zenon DEF RstcsrReset, Wdt
<1> HIDE DEF z
<1>3. WdtNotified(w, num) = IF num \in {POWER_ON_RESET_EXTERNAL, SLEEP_MODE} THEN z
                            ELSE IF num = POWER_ON_RESET_INTERNAL THEN u ELSE w
    BY DEF WdtNotified, u, z
<1>4. POWER_ON_RESET_INTERNAL \notin {POWER_ON_RESET_EXTERNAL, SLEEP_MODE}
    BY SMT DEF POWER_ON_RESET_INTERNAL, POWER_ON_RESET_EXTERNAL, SLEEP_MODE
<1>5. CASE num \in {POWER_ON_RESET_EXTERNAL, SLEEP_MODE}
    BY <1>2, <1>3, <1>4, <1>5
<1>6. CASE num = POWER_ON_RESET_INTERNAL
    BY <1>1, <1>3, <1>4, <1>6
<1>7. CASE num \notin {POWER_ON_RESET_EXTERNAL, POWER_ON_RESET_INTERNAL, SLEEP_MODE}
    BY <1>3, <1>7
<1> QED BY <1>5, <1>6, <1>7, Zenon

\* A write of the guest to a register of the watchdog.
LEMMA WdtWritesTyped ==
    ASSUME NEW w \in Wdt, NEW v \in WdtWrites(w)
    PROVE  v \in Wdt
<1>1. WdtValues \subseteq 0 .. TcntSize - 1
    BY TimerConstants
<1>2. CASE \E x \in [cks : DOMAIN WdtPeriod, tme : BOOLEAN, tms : BOOLEAN, ovf : BOOLEAN] : v = TcsrWrite(w, x)
    BY <1>2, Zenon DEF TcsrWrite, Wdt
<1>3. CASE \E x \in WdtValues : v = [w EXCEPT !.tcnt = x]
    BY <1>1, <1>3 DEF Wdt
<1>4. CASE v = [w EXCEPT !.wovf = FALSE]
    BY <1>4, Zenon DEF Wdt
<1>5. CASE \E e, s \in BOOLEAN : v = RstcsrWrite(w, e, s)
    BY <1>5, Zenon DEF RstcsrWrite, Wdt
<1>6. CASE v = w
    BY <1>6
<1> QED BY <1>2, <1>3, <1>4, <1>5, <1>6, SMT DEF WdtWrites

\* A write of one register of the compare match timer leaves the internal counters.
LEMMA CmtWriteTyped ==
    ASSUME NEW c, Fine(c), NEW i \in CmtChannels
    PROVE  /\ \A s \in SUBSET CmtChannels : Fine(CmstrWrite(c, s))
           /\ \A v \in Cmcsrs : Fine(CmcsrWrite(c, i, v))
           /\ \A v \in 0 .. CntSize - 1 : Fine(CmcntWrite(c, i, v)) /\ Fine(CmcorWrite(c, i, v))
<1> DEFINE x == c.ch[i]
<1>1. c \in Cmt /\ x \in CmtChannel /\ Bounded(x)
    BY DEF Fine, Cmt
<1>2. ASSUME NEW y \in CmtChannel, y.counter = x.counter PROVE Fine(WithChannel(c, i, y))
    <2>1. WithChannel(c, i, y) \in Cmt /\ WithChannel(c, i, y).ch[i] = y
          /\ SameElsewhere(c, WithChannel(c, i, y), i)
        BY <1>1, WithChannelIs
    <2>2. Bounded(y)
        BY <1>1, <1>2 DEF Bounded
    <2> QED BY <2>1, <2>2 DEF Fine, SameElsewhere
<1>3. ASSUME NEW s \in SUBSET CmtChannels PROVE Fine(CmstrWrite(c, s))
    BY DEF Fine, CmstrWrite, Cmt
<1>4. ASSUME NEW v \in Cmcsrs PROVE Fine(CmcsrWrite(c, i, v))
    <2> DEFINE y == [x EXCEPT !.cks = v.cks, !.cmie = v.cmie, !.cmf = @ /\ v.cmf]
    <2>1. y \in CmtChannel /\ y.counter = x.counter
        BY <1>1, Zenon DEF CmtChannel, Cmcsrs
    <2>2. CmcsrWrite(c, i, v) = WithChannel(c, i, y)
        BY <1>1, Zenon DEF CmcsrWrite, WithChannel, Cmt
    <2> HIDE DEF y
    <2> QED BY <1>2, <2>1, <2>2
<1>5. ASSUME NEW v \in 0 .. CntSize - 1 PROVE Fine(CmcntWrite(c, i, v)) /\ Fine(CmcorWrite(c, i, v))
    <2> DEFINE y == [x EXCEPT !.cmcnt = v]
               z == [x EXCEPT !.cmcor = v]
    <2>1. y \in CmtChannel /\ y.counter = x.counter /\ z \in CmtChannel /\ z.counter = x.counter
        BY <1>1 DEF CmtChannel
    <2>2. CmcntWrite(c, i, v) = WithChannel(c, i, y) /\ CmcorWrite(c, i, v) = WithChannel(c, i, z)
        BY DEF CmcntWrite, CmcorWrite, WithChannel
    <2> HIDE DEF y, z
    <2> QED BY <1>2, <2>1, <2>2
<1> QED BY <1>3, <1>4, <1>5

\* A byte written into a register of two bytes leaves a value of two bytes.
LEMMA WithByteTyped ==
    ASSUME NEW v \in 0 .. CntSize - 1, NEW upper \in BOOLEAN, NEW b \in 0 .. Digit - 1
    PROVE  WithByte(v, upper, b) \in 0 .. CntSize - 1
<1> DEFINE h == v \div Digit
           l == v % Digit
<1>1. Digit \in Nat /\ Digit >= 2
    BY TimerConstants, SMT
<1>2. v \in Nat /\ v < Digit * Digit
    BY <1>1, SMT DEF CntSize
<1>3. h \in Nat /\ l \in 0 .. Digit - 1 /\ v = h * Digit + l
    BY <1>1, <1>2, SMT
<1> HIDE DEF h, l
<1>4. h < Digit
    <2> SUFFICES ASSUME h >= Digit PROVE FALSE
        BY <1>1, <1>3, SMT
    <2>1. h * Digit >= Digit * Digit
        BY <1>1, <1>3, SMT
    <2> QED BY <1>1, <1>2, <1>3, <2>1, SMT
<1>5. ASSUME NEW x \in 0 .. Digit - 1, NEW y \in 0 .. Digit - 1 PROVE x * Digit + y \in 0 .. CntSize - 1
    <2>1. x * Digit \in Nat /\ x * Digit <= (Digit - 1) * Digit
        BY <1>1, SMT
    <2>2. (Digit - 1) * Digit = Digit * Digit - Digit /\ Digit * Digit \in Nat
        BY <1>1, SMT
    <2> QED BY <1>1, <2>1, <2>2, SMT DEF CntSize
<1>6. WithByte(v, upper, b) = IF upper THEN b * Digit + l ELSE h * Digit + b
    BY DEF WithByte, h, l
<1>7. h \in 0 .. Digit - 1
    BY <1>1, <1>3, <1>4, SMT
<1> QED BY <1>3, <1>5, <1>6, <1>7

\* A write of the guest to the compare match timer.
LEMMA CmtWritesTyped ==
    ASSUME NEW c, Fine(c), NEW d \in CmtWrites(c)
    PROVE  Fine(d)
<1> DEFINE Counts == 0 .. CntSize - 1
<1>1. CmtValues \subseteq Counts /\ 0 \in CmtChannels /\ 1 \in CmtChannels
    BY TimerConstants DEF CmtChannels
<1> HIDE DEF Counts
<1>2. \A s \in SUBSET CmtChannels : Fine(CmstrWrite(c, s))
    BY <1>1, CmtWriteTyped
<1>3. \A i \in CmtChannels : \A v \in Cmcsrs : Fine(CmcsrWrite(c, i, v))
    BY CmtWriteTyped
<1>4. \A i \in CmtChannels : \A v \in Counts : Fine(CmcntWrite(c, i, v)) /\ Fine(CmcorWrite(c, i, v))
    BY CmtWriteTyped DEF Counts
<1>5. CASE d \in CmtWrites16(c)
    BY <1>1, <1>2, <1>3, <1>4, <1>5, SMT DEF CmtWrites16
<1>6. CASE d \in CmtWrites8(c)
    <2>1. \A i \in CmtChannels : c.ch[i].cmcnt \in Counts /\ c.ch[i].cmcor \in Counts
        BY DEF Fine, Cmt, CmtChannel, Counts
    <2>2. \A v \in Counts, u \in BOOLEAN, b \in 0 .. Digit - 1 : WithByte(v, u, b) \in Counts
        BY WithByteTyped DEF Counts
    <2> QED BY <1>2, <1>3, <1>4, <1>6, <2>1, <2>2, SMT DEF CmtWrites8
<1>7. CASE d \in CmtWrites32(c)
    <2>1. \A s \in SUBSET CmtChannels, v \in Cmcsrs : Fine(CmcsrWrite(CmstrWrite(c, s), 0, v))
        BY <1>1, <1>2, CmtWriteTyped
    <2>2. \A n, m \in CmtValues : Fine(CmcorWrite(CmcntWrite(c, 0, n), 0, m))
        <3>1. TAKE n, m \in CmtValues
        <3>2. n \in Counts /\ m \in Counts
            BY <1>1
        <3>3. Fine(CmcntWrite(c, 0, n))
            BY <1>1, <1>4, <3>2
        <3> QED BY <1>1, <3>2, <3>3, CmtWriteTyped DEF Counts
    <2>3. \A v \in Cmcsrs, n \in CmtValues : Fine(CmcntWrite(CmcsrWrite(c, 1, v), 1, n))
        <3>1. TAKE v \in Cmcsrs, n \in CmtValues
        <3>2. n \in Counts
            BY <1>1
        <3>3. Fine(CmcsrWrite(c, 1, v))
            BY <1>1, <1>3
        <3> QED BY <1>1, <3>2, <3>3, CmtWriteTyped DEF Counts
    <2>4. \A m \in CmtValues : Fine(CmcorWrite(c, 1, m))
        BY <1>1, <1>4
    <2> QED BY <1>7, <2>1, <2>2, <2>3, <2>4, SMT DEF CmtWrites32
<1> QED BY <1>5, <1>6, <1>7 DEF CmtWrites

\* The watchdog and the compare match timer hold the same cycles, and every running
\* timer is as far from its next overflow or match as the expectation d says once
\* these cycles are counted.
InStep(w, c, d) == w.cycles = c.cycles /\ \A t \in Running(w, c) : CyclesLeft(w, c, t) = d[t] + w.cycles

\* An internal power-on reset that is requested, being served or the last one served
\* is explained by WOVF.
Explained ==
    /\ scene # "intc" /\ POWER_ON_RESET_INTERNAL \in intc.pending => wdt.wovf
    /\ pr = "RESET" /\ req = POWER_ON_RESET_INTERNAL => wdt.wovf
    /\ ResetCauseKept

\* The inductive invariant.  OnTime says nothing of the state between the step of the
\* processor and that of the devices, and ResetCauseKept nothing of a request that
\* has not been served yet: both are needed for the next step.
TimersInv ==
    /\ TypeOK /\ turn \in {"cpu", "devices"} /\ due \in [Timers -> Int]
    /\ pr = "EXCEPTION" => req \in Scanned
    /\ InStep(wdt, cmt, due) /\ (turn = "cpu" => wdt.cycles = 0)
    /\ scene = "intc" => turn = "cpu" /\ cause = 0 /\ pr = "RUN"
    /\ Explained

\* The cycles left and the laps of the timers are numbers.
LEMMA LeftTyped ==
    /\ \A w \in Wdt : WdtLeft(w) \in Int /\ TcntSize * WdtPeriod[w.cks] \in Nat \ {0} /\ w.cycles \in Nat
    /\ \A x \in CmtChannel : ChannelLeft(x) \in Int /\ ChannelLap(x) \in Nat \ {0}
<1>1. ASSUME NEW w \in Wdt
      PROVE  WdtLeft(w) \in Int /\ TcntSize * WdtPeriod[w.cks] \in Nat \ {0} /\ w.cycles \in Nat
    <2>1. w.cks \in DOMAIN WdtPeriod /\ w.tcnt \in 0 .. TcntSize - 1 /\ w.counter \in Nat /\ w.cycles \in {0} \cup Cycles
        BY DEF Wdt
    <2>2. TcntSize \in Nat \ {0}
        BY TimerConstants
    <2>3. WdtPeriod[w.cks] \in Nat \ {0}
        BY <2>1, TimerConstants
    <2> DEFINE p == WdtPeriod[w.cks]
               m == TcntSize - w.tcnt
    <2>4. m \in Nat
        BY <2>1, <2>2, SMT
    <2>5. WdtLeft(w) = m * p - w.counter
        BY DEF WdtLeft
    <2> HIDE DEF p, m
    <2>6. m * p \in Int /\ TcntSize * p \in Nat \ {0}
        BY <2>2, <2>3, <2>4, SMT DEF p
    <2>7. w.cycles \in Nat
        BY <2>1, CyclesTyped, Zenon
    <2>8. WdtLeft(w) \in Int
        BY <2>1, <2>5, <2>6, SMT
    <2> QED BY <2>6, <2>7, <2>8 DEF p
<1>2. ASSUME NEW x \in CmtChannel PROVE ChannelLeft(x) \in Int /\ ChannelLap(x) \in Nat \ {0}
    <2> DEFINE p == CmtPeriod[x.cks]
               m == ToMatch(x.cmcnt, x.cmcor)
               l == ToMatch(0, x.cmcor)
    <2>1. x.cks \in DOMAIN CmtPeriod /\ x.counter \in Nat
        BY DEF CmtChannel
    <2>2. p \in Nat \ {0}
        BY <2>1, TimerConstants
    <2>3. m \in Nat \ {0} /\ l \in Nat \ {0}
        BY ToMatchTyped
    <2>4. ChannelLeft(x) = m * p - x.counter /\ ChannelLap(x) = l * p
        BY DEF ChannelLeft, ChannelLap
    <2> HIDE DEF p, m, l
    <2>5. m * p \in Int /\ l * p \in Nat \ {0}
        BY <2>2, <2>3, SMT
    <2> QED BY <2>1, <2>4, <2>5, SMT
<1> QED BY <1>1, <1>2

\* CyclesLeft, Lap and Running, timer by timer.
LEMMA TimersAre ==
    ASSUME NEW w, NEW c
    PROVE  /\ CyclesLeft(w, c, WDT) = WdtLeft(w) /\ Lap(w, c, WDT) = TcntSize * WdtPeriod[w.cks]
           /\ \A i \in CmtChannels : CyclesLeft(w, c, i) = ChannelLeft(c.ch[i]) /\ Lap(w, c, i) = ChannelLap(c.ch[i])
           /\ \A t \in Timers : t \in Running(w, c) <=> IF t = WDT THEN w.tme ELSE t \in c.str
           /\ Running(w, c) \subseteq Timers /\ Timers = {WDT} \cup CmtChannels /\ WDT \notin CmtChannels
<1>1. WDT \notin CmtChannels
    BY SMT DEF WDT, CmtChannels
<1>2. CyclesLeft(w, c, WDT) = WdtLeft(w) /\ Lap(w, c, WDT) = TcntSize * WdtPeriod[w.cks]
    BY DEF CyclesLeft, Lap, WdtLeft
<1>3. \A i \in CmtChannels : CyclesLeft(w, c, i) = ChannelLeft(c.ch[i]) /\ Lap(w, c, i) = ChannelLap(c.ch[i])
    BY <1>1 DEF CyclesLeft, Lap, ChannelLeft, ChannelLap
<1> QED BY <1>1, <1>2, <1>3 DEF Running, Timers

\* The cycles left are numbers for every timer.
LEMMA CyclesLeftTyped ==
    ASSUME NEW w \in Wdt, NEW c \in Cmt, NEW t \in Timers
    PROVE  CyclesLeft(w, c, t) \in Int /\ Lap(w, c, t) \in Nat \ {0}
<1>1. \A i \in CmtChannels : c.ch[i] \in CmtChannel
    BY DEF Cmt
<1>2. CASE t = WDT
    <2>1. WdtLeft(w) \in Int /\ TcntSize * WdtPeriod[w.cks] \in Nat \ {0}
        BY LeftTyped
    <2> QED BY <1>2, <2>1, TimersAre
<1>3. CASE t \in CmtChannels
    <2>1. ChannelLeft(c.ch[t]) \in Int /\ ChannelLap(c.ch[t]) \in Nat \ {0}
        BY <1>1, <1>3, LeftTyped
    <2> QED BY <1>3, <2>1, TimersAre, Zenon
<1> QED BY <1>2, <1>3 DEF Timers

\* update_cycles changes nothing but the cycles to be counted.
LEMMA ClockedIs ==
    ASSUME NEW w \in Wdt, NEW c, Fine(c), NEW n \in Cycles
    PROVE  /\ Clocked(w, n) \in Wdt /\ Clocked(w, n).cycles = n /\ Clocked(w, n).wovf = w.wovf
           /\ Fine(Clocked(c, n)) /\ Clocked(c, n).cycles = n
           /\ Running(Clocked(w, n), Clocked(c, n)) = Running(w, c)
           /\ \A t \in Timers : CyclesLeft(Clocked(w, n), Clocked(c, n), t) = CyclesLeft(w, c, t)
<1> DEFINE v == Clocked(w, n)
           d == Clocked(c, n)
<1>1. v \in Wdt /\ v.cycles = n /\ v.wovf = w.wovf /\ v.tme = w.tme /\ v.tcnt = w.tcnt /\ v.cks = w.cks
      /\ v.counter = w.counter
    BY DEF Clocked, Wdt
<1>2. d \in Cmt /\ d.cycles = n /\ d.str = c.str /\ d.ch = c.ch
    BY DEF Fine, Clocked, Cmt
<1> HIDE DEF v, d
<1>3. Fine(d)
    BY <1>2 DEF Fine
<1>4. Running(v, d) = Running(w, c)
    BY <1>1, <1>2 DEF Running
<1>5. \A t \in Timers : CyclesLeft(v, d, t) = CyclesLeft(w, c, t)
    BY <1>1, <1>2 DEF CyclesLeft
<1> QED BY <1>1, <1>2, <1>3, <1>4, <1>5 DEF v, d

\* An instruction of n cycles that leaves the timers as w and c hands both of them
\* the same cycles and clears WOVF only together with the cause it explains.
LEMMA InstructionKeeps ==
    ASSUME TimersInv, turn = "cpu", NEW n \in Cycles, NEW w \in Wdt, NEW c, Fine(c), Instruction(n, w, c)
    PROVE  /\ wdt' \in Wdt /\ Fine(cmt') /\ due' \in [Timers -> Int] /\ InStep(wdt', cmt', due')
           /\ ResetCauseKept'
<1> DEFINE R == Running(w, c)
           base == IF touched' THEN Expect(w, c) ELSE due
<1>1. /\ wdt' \in Wdt /\ wdt'.cycles = n /\ wdt'.wovf = w.wovf
      /\ Fine(cmt') /\ cmt'.cycles = n /\ Running(wdt', cmt') = R
      /\ \A t \in Timers : CyclesLeft(wdt', cmt', t) = CyclesLeft(w, c, t)
    BY ClockedIs DEF Instruction
<1>2. n \in Nat
    BY CyclesTyped, Zenon
<1>3. \A t \in Timers : CyclesLeft(w, c, t) \in Int
    BY CyclesLeftTyped DEF Fine
<1>4. base \in [Timers -> Int] /\ \A t \in R : base[t] = CyclesLeft(w, c, t)
    <2>1. R \subseteq Timers
        BY TimersAre
    <2>2. CASE touched'
        BY <1>3, <2>1, <2>2, SMT DEF Expect
    <2>3. CASE ~touched'
        <3>1. w = wdt /\ c = cmt
            BY <2>3, Zenon DEF Instruction
        <3>2. due \in [Timers -> Int] /\ wdt.cycles = 0 /\ InStep(wdt, cmt, due)
            BY DEF TimersInv
        <3>3. \A t \in R : CyclesLeft(w, c, t) = due[t]
            BY <1>3, <2>1, <3>1, <3>2, SMT DEF InStep
        <3> QED BY <2>3, <3>2, <3>3
    <2> QED BY <2>2, <2>3
<1>5. due' = [t \in Timers |-> IF t \in R THEN base[t] - n ELSE base[t]]
    BY DEF Instruction, Elapse
<1> HIDE DEF base, R
<1>6. due' \in [Timers -> Int] /\ \A t \in Timers \cap R : due'[t] = base[t] - n
    BY <1>2, <1>4, <1>5, SMT
<1>7. InStep(wdt', cmt', due')
    <2>1. R \subseteq Timers
        BY TimersAre DEF R
    <2>2. \A t \in R : CyclesLeft(wdt', cmt', t) = due'[t] + n
        BY <1>1, <1>2, <1>3, <1>4, <1>6, <2>1, SMT
    <2> QED BY <1>1, <2>2 DEF InStep
<1>8. ResetCauseKept'
    <2>1. cause = POWER_ON_RESET_INTERNAL => wdt.wovf
        BY DEF TimersInv, Explained, ResetCauseKept
    <2>2. cause' = (IF wdt.wovf /\ ~w.wovf THEN 0 ELSE cause)
        BY DEF Instruction
    <2> QED BY <1>1, <2>1, <2>2, SMT DEF ResetCauseKept, POWER_ON_RESET_INTERNAL
<1> QED BY <1>1, <1>6, <1>7, <1>8

\* What the invariant says of the registers, the processor and the time kept.
LEMMA TimersInvGives ==
    ASSUME TimersInv
    PROVE  /\ intc \in Intc /\ wdt \in Wdt /\ cmt \in Cmt /\ Fine(cmt) /\ due \in [Timers -> Int]
           /\ pr \in {"RUN", "SLEEP", "RESET", "EXCEPTION"} /\ turn \in {"cpu", "devices"}
           /\ pr = "RESET" => req \in Resets
           /\ pr = "EXCEPTION" => req = intc.interruptOut /\ req \in Scanned
           /\ InStep(wdt, cmt, due) /\ (turn = "cpu" => wdt.cycles = 0)
           /\ scene = "intc" => turn = "cpu" /\ cause = 0 /\ pr = "RUN"
           /\ scene # "intc" /\ POWER_ON_RESET_INTERNAL \in intc.pending => wdt.wovf
           /\ pr = "RESET" /\ req = POWER_ON_RESET_INTERNAL => wdt.wovf
           /\ cause = POWER_ON_RESET_INTERNAL => wdt.wovf
BY DEF TimersInv, TypeOK, IntcTypeOK, Fine, Bounded, Explained, ResetCauseKept

\* The same, of the state that a step of the processor or of the devices leads to.
LEMMA TimersInvFrom ==
    ASSUME intc' \in Intc, wdt' \in Wdt, Fine(cmt'), due' \in [Timers -> Int],
           pr' \in {"RUN", "SLEEP", "RESET", "EXCEPTION"}, turn' \in {"cpu", "devices"},
           pr' = "RESET" => req' \in Resets,
           pr' = "EXCEPTION" => req' = intc'.interruptOut /\ req' \in Scanned,
           InStep(wdt', cmt', due'), turn' = "cpu" => wdt'.cycles = 0,
           scene' = "intc" => turn' = "cpu" /\ cause' = 0 /\ pr' = "RUN",
           scene' # "intc" /\ POWER_ON_RESET_INTERNAL \in intc'.pending => wdt'.wovf,
           pr' = "RESET" /\ req' = POWER_ON_RESET_INTERNAL => wdt'.wovf,
           cause' = POWER_ON_RESET_INTERNAL => wdt'.wovf
    PROVE  TimersInv'
<1>1. TypeOK'
    BY DEF TypeOK, IntcTypeOK, Fine, Bounded
<1>2. Explained'
    BY DEF Explained, ResetCauseKept
<1> QED BY <1>1, <1>2 DEF TimersInv

\* sh2e_cpu_check_reset_req: a pending internal reset is explained before it is served.
LEMMA BeginResetKeeps ==
    ASSUME TimersInv, scene # "intc", turn = "cpu", turn' = "devices", UNCHANGED scene, BeginReset
    PROVE  TimersInv'
<1>1. req' \in PendingResets(intc)
    BY NextResetLeast DEF BeginReset
<1>2. req' \in Resets /\ req' \in intc.pending
    BY <1>1 DEF PendingResets
<1>3. UNCHANGED <<intc, wdt, cmt, due, cause>> /\ pr' = "RESET"
    BY DEF BeginReset
<1> QED BY <1>2, <1>3, TimersInvGives, TimersInvFrom

\* sh2e_reset_state_step: a power-on reset stops the timers; a manual one leaves them
\* and their time alone; the internal one keeps WOVF.
LEMMA ResetStepKeeps ==
    ASSUME TimersInv, scene # "intc", turn = "cpu", turn' = "devices", UNCHANGED scene, ResetStep
    PROVE  TimersInv'
<1> DEFINE PowerOn == {POWER_ON_RESET_EXTERNAL, POWER_ON_RESET_INTERNAL, SLEEP_MODE}
<1>1. /\ intc \in Intc /\ wdt \in Wdt /\ Fine(cmt) /\ due \in [Timers -> Int] /\ pr = "RESET"
      /\ InStep(wdt, cmt, due) /\ req \in Resets /\ wdt.cycles = 0
      /\ req = POWER_ON_RESET_INTERNAL => wdt.wovf
    BY TimersInvGives, Zenon DEF ResetStep
<1>2. /\ wdt' \in Wdt /\ wdt'.cycles = wdt.cycles
      /\ IF req \in PowerOn THEN wdt'.tme = FALSE ELSE wdt' = wdt
      /\ req = POWER_ON_RESET_INTERNAL => wdt'.wovf = wdt.wovf
    BY <1>1, WdtNotifiedIs, Zenon DEF ResetStep
<1>3. /\ Fine(cmt') /\ cmt'.cycles = cmt.cycles
      /\ IF req \in PowerOn THEN cmt'.str = {} ELSE cmt' = cmt
    BY <1>1, CmtNotifiedIs DEF ResetStep
<1>4. intc' \in Intc /\ POWER_ON_RESET_INTERNAL \notin intc'.pending
    <2>1. intc' \in Intc /\ intc'.pending = intc.pending \ Resets
        <3> DEFINE ic == AcceptReset(intc)
        <3>1. ic \in Intc /\ ic.pending = intc.pending \ Resets /\ InitRegs(ic) \in Intc
            BY <1>1, ResetTyped
        <3> HIDE DEF ic
        <3>2. InitRegs(ic).pending = ic.pending
            BY <3>1 DEF InitRegs, Intc
        <3> QED BY <3>1, <3>2 DEF ResetStep, ic
    <2>2. POWER_ON_RESET_INTERNAL \in Resets
        BY SMT DEF Resets, POWER_ON_RESET_EXTERNAL, POWER_ON_RESET_INTERNAL, MANUAL_RESET
    <2> QED BY <2>1, <2>2
<1>5. due' = [t \in Timers |-> IF t \in Running(wdt', cmt') THEN due[t] ELSE 0]
    BY DEF ResetStep
<1>6. due' \in [Timers -> Int]
    BY <1>1, <1>5, SMT
<1>7. InStep(wdt', cmt', due')
    <2>1. CASE req \in PowerOn
        <3>1. Running(wdt', cmt') = {}
            BY <1>2, <1>3, <2>1, TimersAre
        <3> QED BY <1>1, <1>2, <1>3, <3>1, Zenon DEF InStep
    <2>2. CASE req \notin PowerOn
        <3>1. wdt' = wdt /\ cmt' = cmt
            BY <1>2, <1>3, <2>2
        <3>2. Running(wdt, cmt) \subseteq Timers
            BY TimersAre
        <3>3. \A t \in Running(wdt, cmt) : due'[t] = due[t]
            BY <1>5, <3>1, <3>2
        <3> QED BY <1>1, <3>1, <3>3, Zenon DEF InStep
    <2> QED BY <2>1, <2>2
<1>8. pr' = "RUN" /\ cause' = req
    BY DEF ResetStep
<1> QED BY <1>1, <1>2, <1>3, <1>4, <1>6, <1>7, <1>8, TimersInvFrom

\* What a poll makes of the state of the processor.
LEMMA PolledIs ==
    ASSUME intc \in Intc, NEW m \in Masks, NEW otherwise \in {"RUN", "SLEEP"}, Polled(m, otherwise)
    PROVE  /\ intc' \in Intc /\ intc'.pending = intc.pending /\ pr' \in {"RUN", "SLEEP", "EXCEPTION"}
           /\ pr' = "EXCEPTION" => req' = intc'.interruptOut /\ req' \in Scanned
<1> DEFINE check == CheckInterrupts(intc, m)
<1>1. /\ check.intc \in Intc /\ check.intc.pending = intc.pending
      /\ check.out # 0 => check.out \in Scanned /\ check.out = check.intc.interruptOut
    BY PollIs
<1>2. intc' = check.intc /\ pr' = (IF check.out # 0 THEN "EXCEPTION" ELSE otherwise) /\ req' = check.out
    BY DEF Polled
<1> HIDE DEF check
<1> QED BY <1>1, <1>2

\* sh2e_program_execution_state_step: whatever the instruction writes, the timers get
\* its cycles; WOVF is not cleared under a pending reset, which would be served first.
LEMMA ProgramStepKeeps ==
    ASSUME TimersInv, scene # "intc", turn = "cpu", turn' = "devices", UNCHANGED scene,
           NEW m \in Masks, ProgramStep(m)
    PROVE  TimersInv'
<1>1. /\ intc \in Intc /\ wdt \in Wdt /\ cmt \in Cmt /\ Fine(cmt) /\ turn = "cpu"
    BY TimersInvGives
<1>2. PICK n \in Cycles, otherwise \in {"RUN", "SLEEP"}, w \in Wdt, c \in Cmt :
          Fine(c) /\ Instruction(n, w, c) /\ Polled(m, otherwise)
    <2>1. CASE Polled(m, "RUN") /\ \E n \in Cycles : WriteTimer(n) \/ Instruction(n, wdt, cmt)
        <3>1. PICK n \in Cycles : WriteTimer(n) \/ Instruction(n, wdt, cmt)
            BY <2>1
        <3>2. CASE \E w \in WdtWrites(wdt) : Instruction(n, w, cmt)
            <4>1. PICK w \in WdtWrites(wdt) : Instruction(n, w, cmt)
                BY <3>2
            <4>2. w \in Wdt
                BY <1>1, WdtWritesTyped
            <4> QED BY <1>1, <2>1, <4>1, <4>2
        <3>3. CASE \E c \in CmtWrites(cmt) : Instruction(n, wdt, c)
            <4>1. PICK c \in CmtWrites(cmt) : Instruction(n, wdt, c)
                BY <3>3
            <4>2. Fine(c)
                BY <1>1, CmtWritesTyped
            <4> QED BY <1>1, <2>1, <4>1, <4>2 DEF Fine
        <3>4. CASE Instruction(n, wdt, cmt)
            BY <1>1, <2>1, <3>4
        <3>5. WriteTimer(n) => \/ \E w \in WdtWrites(wdt) : Instruction(n, w, cmt)
                               \/ \E c \in CmtWrites(cmt) : Instruction(n, wdt, c)
            BY DEF WriteTimer
        <3> QED BY <3>1, <3>2, <3>3, <3>4, <3>5
    <2>2. CASE /\ Polled(m, "SLEEP")
               /\ \E n \in Cycles : Instruction(n, WdtNotified(wdt, SLEEP_MODE), CmtNotified(cmt, SLEEP_MODE))
        <3>1. WdtNotified(wdt, SLEEP_MODE) \in Wdt /\ Fine(CmtNotified(cmt, SLEEP_MODE))
            BY <1>1, WdtNotifiedIs, CmtNotifiedIs, Zenon
        <3> QED BY <2>2, <3>1 DEF Fine
    <2> QED BY <2>1, <2>2 DEF ProgramStep
<1>3. /\ wdt' \in Wdt /\ Fine(cmt') /\ due' \in [Timers -> Int] /\ InStep(wdt', cmt', due')
      /\ cause' = POWER_ON_RESET_INTERNAL => wdt'.wovf
    BY <1>2, InstructionKeeps DEF ResetCauseKept
<1>4. /\ intc' \in Intc /\ intc'.pending = intc.pending /\ pr' \in {"RUN", "SLEEP", "EXCEPTION"}
      /\ pr' = "EXCEPTION" => req' = intc'.interruptOut /\ req' \in Scanned
    BY <1>1, <1>2, PolledIs
<1>5. POWER_ON_RESET_INTERNAL \notin intc.pending
    BY SMT DEF ProgramStep, PendingResets, Resets, POWER_ON_RESET_EXTERNAL, POWER_ON_RESET_INTERNAL, MANUAL_RESET
<1> QED BY <1>3, <1>4, <1>5, TimersInvFrom

\* sh2e_standby_state_step: no instruction, no cycles.
LEMMA StandbyKeeps ==
    ASSUME TimersInv, scene # "intc", turn = "cpu", turn' = "devices", UNCHANGED scene,
           NEW m \in Masks, Standby(m)
    PROVE  TimersInv'
<1>1. /\ intc' \in Intc /\ intc'.pending = intc.pending /\ pr' \in {"RUN", "SLEEP", "EXCEPTION"}
      /\ pr' = "EXCEPTION" => req' = intc'.interruptOut /\ req' \in Scanned
    BY TimersInvGives, PolledIs DEF Standby
<1>2. UNCHANGED <<wdt, cmt, due, cause>>
    BY DEF Standby
<1> QED BY <1>1, <1>2, TimersInvGives, TimersInvFrom

\* sh2e_cpu_handle_interrupt: the notification of an interrupt is none of the events
\* the timers react to.
LEMMA TakeInterruptKeeps ==
    ASSUME TimersInv, scene # "intc", turn = "cpu", turn' = "devices", UNCHANGED scene, TakeInterrupt
    PROVE  TimersInv'
<1>1. intc \in Intc /\ wdt \in Wdt /\ Fine(cmt) /\ req \in Scanned
    BY TimersInvGives, Zenon DEF TakeInterrupt
<1>2. req \notin {POWER_ON_RESET_EXTERNAL, POWER_ON_RESET_INTERNAL, SLEEP_MODE}
    BY <1>1, ScannedIds, SMT DEF POWER_ON_RESET_EXTERNAL, POWER_ON_RESET_INTERNAL, SLEEP_MODE
<1>3. wdt' = wdt /\ cmt' = cmt
    BY <1>1, <1>2, WdtNotifiedIs, CmtNotifiedIs, Zenon DEF TakeInterrupt
<1>4. intc' \in Intc /\ intc'.pending \subseteq intc.pending
    BY <1>1, AcceptTyped, Zenon DEF TakeInterrupt
<1>5. UNCHANGED <<due, cause>> /\ pr' = "RUN"
    BY DEF TakeInterrupt
<1> QED BY <1>3, <1>4, <1>5, TimersInvGives, TimersInvFrom

\* The step of the devices: every running timer is on time afterwards, and requests
\* its interrupt if and only if it was due.
LEMMA DeviceStepIs ==
    ASSUME TimersInv, DeviceStep
    PROVE  LET over == {t \in Running(wdt, cmt) : due[t] <= 0}
               owed == {Requested(t) : t \in {u \in over : Enabled(u)}}
               may == IF WDT \in over /\ wdt.tms /\ ~wdt.rste THEN {WdtInt} ELSE {}
               new == Raised(intc) \cup owed
           IN /\ TimersInv'
              /\ new \subseteq Raised(intc') /\ Raised(intc') \subseteq new \cup may
<1> DEFINE w == WdtStep(wdt, intc)
           c == CmtStep(cmt, w.intc)
           n == wdt.cycles
           chDue(i) == ChannelLeft(cmt.ch[i]) - cmt.cycles
           over == {t \in Running(wdt, cmt) : due[t] <= 0}
           owed == {Requested(t) : t \in {u \in over : Enabled(u)}}
           may == IF WDT \in over /\ wdt.tms /\ ~wdt.rste THEN {WdtInt} ELSE {}
           cmtOwed == {CmtInt[i] : i \in {j \in cmt.str : chDue(j) <= 0 /\ cmt.ch[j].cmie}}
           wdtDue == WdtLeft(wdt) - n
<1>1. /\ intc \in Intc /\ wdt \in Wdt /\ cmt \in Cmt /\ Fine(cmt) /\ due \in [Timers -> Int]
      /\ InStep(wdt, cmt, due) /\ cmt.cycles = n /\ turn = "devices" /\ scene # "intc" /\ turn' = "cpu"
    BY TimersInvGives DEF DeviceStep, InStep
<1>2. /\ wdt' = w.wdt /\ cmt' = c.cmt /\ intc' = c.intc
      /\ due' = [t \in Timers |-> IF t \notin Running(wdt', cmt') THEN 0
                                  ELSE Ahead(due[t], Lap(wdt, cmt, t))]
      /\ UNCHANGED <<pr, req, scene, cause>>
    BY DEF DeviceStep, Ahead
<1>3. /\ w.wdt \in Wdt /\ w.intc \in Intc /\ w.wdt.cycles = 0
      /\ wdt.wovf => w.wdt.wovf
      /\ POWER_ON_RESET_INTERNAL \in w.intc.pending => POWER_ON_RESET_INTERNAL \in intc.pending \/ w.wdt.wovf
      /\ w.intc.interruptOut = intc.interruptOut
      /\ w.wdt.tme => wdt.tme /\ WdtLeft(w.wdt) = Ahead(wdtDue, TcntSize * WdtPeriod[wdt.cks])
      /\ Raised(intc) \subseteq Raised(w.intc)
      /\ wdt.tme /\ wdtDue <= 0 /\ ~wdt.tms => WdtInt \in Raised(w.intc)
      /\ Raised(w.intc) \subseteq Raised(intc) \cup
             (IF wdt.tme /\ wdtDue <= 0 /\ (~wdt.tms \/ ~wdt.rste) THEN {WdtInt} ELSE {})
    BY <1>1, WdtStepIs, Zenon
<1> HIDE DEF w, wdtDue
<1>4. /\ c.cmt \in Cmt /\ c.intc \in Intc /\ c.cmt.cycles = 0 /\ c.cmt.str = cmt.str
      /\ \A i \in CmtChannels : IF i \in cmt.str THEN Stepped(cmt.ch[i], c.cmt.ch[i], cmt.cycles)
                                ELSE c.cmt.ch[i] = cmt.ch[i]
      /\ POWER_ON_RESET_INTERNAL \in c.intc.pending => POWER_ON_RESET_INTERNAL \in w.intc.pending
      /\ c.intc.interruptOut = w.intc.interruptOut
      /\ Raised(c.intc) = Raised(w.intc) \cup cmtOwed
    BY <1>1, <1>3, CmtStepIs, Zenon
<1> HIDE DEF c, n, cmtOwed
<1>5. Fine(cmt')
    BY <1>1, <1>2, <1>4, Zenon DEF Fine, Stepped
<1>6. n \in Nat
    BY <1>1, LeftTyped DEF n
<1>7. \A t \in Running(wdt, cmt) : t \in Timers /\ due[t] = CyclesLeft(wdt, cmt, t) - n
    BY <1>1, <1>6, CyclesLeftTyped, TimersAre, SMT DEF InStep, n
<1>8. wdt.tme => WDT \in Running(wdt, cmt) /\ due[WDT] = wdtDue
    BY <1>7, TimersAre DEF wdtDue
<1>9. \A i \in cmt.str : i \in CmtChannels /\ i \in Running(wdt, cmt) /\ due[i] = chDue(i)
    BY <1>1, <1>7, TimersAre, SMTT(30) DEF Cmt
<1>10. Running(wdt', cmt') \subseteq Running(wdt, cmt)
    BY <1>2, <1>3, <1>4, TimersAre, ZenonT(30)
<1>11. \A t \in Running(wdt', cmt') : CyclesLeft(wdt', cmt', t) = Ahead(due[t], Lap(wdt, cmt, t))
    <2> SUFFICES ASSUME NEW t \in Running(wdt', cmt')
                 PROVE  CyclesLeft(wdt', cmt', t) = Ahead(due[t], Lap(wdt, cmt, t))
        OBVIOUS
    <2>1. CASE t = WDT
        <3>1. wdt'.tme
            BY <2>1, TimersAre
        <3>2. WdtLeft(wdt') = Ahead(due[WDT], TcntSize * WdtPeriod[wdt.cks])
            BY <1>2, <1>3, <1>8, <3>1, Zenon
        <3> QED BY <2>1, <3>2, TimersAre
    <2>2. CASE t # WDT
        <3>1. t \in cmt.str /\ t \in CmtChannels
            BY <1>2, <1>4, <2>2, TimersAre, Zenon
        <3>2. ChannelLeft(cmt'.ch[t]) = Ahead(due[t], ChannelLap(cmt.ch[t]))
            BY <1>2, <1>4, <1>9, <3>1, Zenon DEF Stepped
        <3> QED BY <3>1, <3>2, TimersAre, Zenon
    <2> QED BY <2>1, <2>2
<1>12. Running(wdt', cmt') \subseteq Timers
    BY TimersAre
<1>13. wdt' \in Wdt /\ cmt' \in Cmt /\ wdt'.cycles = 0 /\ cmt'.cycles = 0
    BY <1>2, <1>3, <1>4, Zenon
<1>14. \A t \in Running(wdt', cmt') : CyclesLeft(wdt', cmt', t) \in Int
    BY <1>12, <1>13, CyclesLeftTyped
<1>15. due' \in [Timers -> Int]
    BY <1>2, <1>11, <1>14, SMT
<1>16. InStep(wdt', cmt', due')
    <2>1. \A t \in Running(wdt', cmt') : CyclesLeft(wdt', cmt', t) = due'[t]
        BY <1>2, <1>11, <1>12
    <2> QED BY <1>13, <1>14, <2>1, SMT DEF InStep
<1>17. TimersInv'
    BY <1>1, <1>2, <1>3, <1>4, <1>5, <1>13, <1>15, <1>16, TimersInvGives, TimersInvFrom, Zenon
<1>18. WDT \in over <=> wdt.tme /\ wdtDue <= 0
    BY <1>8, TimersAre, Zenon
<1>19. \A i \in CmtChannels : i \in over <=> i \in cmt.str /\ chDue(i) <= 0
    BY <1>9, TimersAre, SMT
<1>20. owed = (IF WDT \in over /\ ~wdt.tms THEN {WdtInt} ELSE {}) \cup cmtOwed
    <2>1. over \subseteq {WDT} \cup CmtChannels /\ WDT \notin CmtChannels /\ cmt.str \subseteq CmtChannels
        BY <1>1, TimersAre DEF Cmt
    <2>2. Requested(WDT) = WdtInt /\ (Enabled(WDT) <=> ~wdt.tms)
        BY DEF Requested, Enabled
    <2>3. \A i \in CmtChannels : Requested(i) = CmtInt[i] /\ (Enabled(i) <=> cmt.ch[i].cmie)
        BY <2>1 DEF Requested, Enabled
    <2> HIDE DEF over, chDue
    <2> QED BY <1>19, <2>1, <2>2, <2>3 DEF cmtOwed
<1> HIDE DEF over, owed
<1>21. Raised(intc) \cup owed \subseteq Raised(intc') /\ Raised(intc') \subseteq Raised(intc) \cup owed \cup may
    BY <1>2, <1>3, <1>4, <1>18, <1>20, Zenon
<1> QED BY <1>17, <1>21 DEF over, owed

\* A reset line raised from outside is not the watchdog's.
LEMMA ExternalResetKeeps ==
    ASSUME TimersInv, ExternalReset
    PROVE  TimersInv'
<1>1. PICK r \in {POWER_ON_RESET_EXTERNAL, MANUAL_RESET} : intc' = AssertInt(intc, r)
    BY DEF ExternalReset
<1>2. r \in Sources /\ r # POWER_ON_RESET_INTERNAL
    BY TimerConstants, SMT DEF Resets, POWER_ON_RESET_EXTERNAL, POWER_ON_RESET_INTERNAL, MANUAL_RESET
<1>3. /\ intc' \in Intc /\ intc'.interruptOut = intc.interruptOut
      /\ intc'.pending \subseteq intc.pending \cup {r}
    BY <1>1, <1>2, AssertIs, TimersInvGives, Zenon
<1>4. UNCHANGED <<wdt, cmt, pr, req, turn, scene, due, cause>>
    BY DEF ExternalReset, rest
<1> QED BY <1>2, <1>3, <1>4, TimersInvGives, TimersInvFrom

\* The controller on its own leaves the timers alone.
LEMMA ControllerKeeps ==
    ASSUME TimersInv, Controller
    PROVE  TimersInv'
<1>1. intc' \in Intc
    BY ControllerTyped DEF Controller, TimersInv, TypeOK, IntcTypeOK
<1>2. UNCHANGED <<wdt, cmt, pr, req, turn, scene, due, cause>> /\ scene = "intc"
    BY DEF Controller, rest
<1> QED BY <1>1, <1>2, TimersInvGives, TimersInvFrom

\* The timers when the machine is set up.
LEMMA TimersInitially == Init => TimersInv
<1> SUFFICES ASSUME Init PROVE TimersInv
    OBVIOUS
<1>1. intc \in Intc /\ intc.pending = {}
    BY IntcConstants, SMT DEF Init, IntcInit, BootIntc, Intc, Pri
<1>2. wdt \in Wdt /\ wdt.tme = FALSE /\ wdt.cycles = 0
    <2>1. PICK g \in Garbage :
              wdt = [ovf |-> FALSE, tms |-> FALSE, tme |-> FALSE, cks |-> 0, tcnt |-> 0,
                     wovf |-> FALSE, rste |-> FALSE, rsts |-> FALSE, counter |-> g, cycles |-> 0]
        BY Zenon DEF Init, WdtInit
    <2>2. g \in Nat /\ 0 \in DOMAIN WdtPeriod /\ 0 \in 0 .. TcntSize - 1 /\ 0 \in {0} \cup Cycles
        BY TimerConstants, SMT
    <2> QED BY <2>1, <2>2 DEF Wdt
<1>3. Fine(cmt) /\ cmt.str = {} /\ cmt.cycles = 0
    <2> DEFINE x == [cks |-> 0, cmie |-> FALSE, cmf |-> FALSE, cmcnt |-> 0, cmcor |-> CntSize - 1, counter |-> 0]
               ch == [i \in CmtChannels |-> x]
    <2>1. cmt = [str |-> {}, ch |-> ch, cycles |-> 0]
        BY Zenon DEF Init, CmtInit, CmtReset
    <2>2. 0 \in 0 .. CntSize - 1 /\ CntSize - 1 \in 0 .. CntSize - 1
        BY CntSizeIs, SMT
    <2>3. 0 \in DOMAIN CmtPeriod /\ 0 < CmtPeriod[0]
        BY TimerConstants, SMT
    <2>4. x \in CmtChannel /\ x.counter = 0
        BY <2>2, <2>3 DEF CmtChannel
    <2> HIDE DEF x
    <2>5. Bounded(x)
        BY <2>3, <2>4 DEF Bounded
    <2> QED BY <2>1, <2>4, <2>5 DEF Fine, Cmt
<1>4. Running(wdt, cmt) = {}
    BY <1>2, <1>3, TimersAre
<1>5. InStep(wdt, cmt, due)
    BY <1>2, <1>3, <1>4 DEF InStep
<1>6. pr = "RUN" /\ req = 0 /\ turn = "cpu" /\ due \in [Timers -> Int] /\ cause = 0
    BY SMT DEF Init
<1>7. TypeOK
    BY <1>1, <1>2, <1>3, <1>6 DEF TypeOK, IntcTypeOK, Fine, Bounded
<1>8. Explained
    <2>1. POWER_ON_RESET_INTERNAL # 0
        BY SMT DEF POWER_ON_RESET_INTERNAL
    <2>2. POWER_ON_RESET_INTERNAL \notin intc.pending
        BY <1>1
    <2> QED BY <1>6, <2>1, <2>2 DEF Explained, ResetCauseKept
<1> QED BY <1>2, <1>5, <1>6, <1>7, <1>8 DEF TimersInv

\* Every step of the machine.
LEMMA TimersStep == TimersInv /\ [Next]_vars => TimersInv'
<1> SUFFICES ASSUME TimersInv, [Next]_vars PROVE TimersInv'
    OBVIOUS
<1>1. CASE CpuStep
    <2>1. scene # "intc" /\ turn = "cpu" /\ turn' = "devices" /\ UNCHANGED scene
        BY <1>1 DEF CpuStep
    <2>2. CASE BeginReset
        BY <2>1, <2>2, BeginResetKeeps
    <2>3. CASE ResetStep
        BY <2>1, <2>3, ResetStepKeeps
    <2>4. ASSUME NEW m \in Masks, ProgramStep(m) PROVE TimersInv'
        BY <2>1, <2>4, ProgramStepKeeps
    <2>5. ASSUME NEW m \in Masks, Standby(m) PROVE TimersInv'
        BY <2>1, <2>5, StandbyKeeps
    <2>6. CASE TakeInterrupt
        BY <2>1, <2>6, TakeInterruptKeeps
    <2> QED BY <1>1, <2>2, <2>3, <2>4, <2>5, <2>6 DEF CpuStep
<1>2. CASE DeviceStep
    BY <1>2, DeviceStepIs
<1>3. CASE ExternalReset
    BY <1>3, ExternalResetKeeps
<1>4. CASE Controller
    BY <1>4, ControllerKeeps
<1>5. CASE UNCHANGED vars
    <2>1. UNCHANGED <<intc, wdt, cmt, pr, req, turn, scene, due, cause>>
        BY <1>5 DEF vars, rest
    <2> QED BY <2>1, TimersInvGives, TimersInvFrom
<1> QED BY <1>1, <1>2, <1>3, <1>4, <1>5 DEF Next

\* The timers keep time, whatever the periods, the widths of the counters and the
\* cycles of the instructions are: the remainder that dsh2ewdt_step and
\* update_channel_counter carry over accounts for every cycle handed out.
THEOREM TimersOnTime == Spec => []OnTime
<1>1. TimersInv => OnTime
    <2> SUFFICES ASSUME TimersInv, turn = "cpu", NEW t \in Running(wdt, cmt)
                 PROVE  CyclesLeft(wdt, cmt, t) = due[t]
        BY DEF OnTime, TimersInv
    <2>1. CyclesLeft(wdt, cmt, t) = due[t] + wdt.cycles /\ wdt.cycles = 0 /\ due \in [Timers -> Int]
        BY DEF TimersInv, InStep
    <2>2. t \in Timers
        BY TimersAre
    <2> QED BY <2>1, <2>2, SMT
<1> QED BY <1>1, TimersInitially, TimersStep, PTL DEF Spec

\* The program can tell a restart by the watchdog: sh2e_wdt_interrupt_up leaves WOVF,
\* and the program cannot clear it between the request of the reset and its service.
THEOREM RestartExplained == Spec => []ResetCauseKept
<1>1. TimersInv => ResetCauseKept
    BY DEF TimersInv, Explained
<1> QED BY <1>1, TimersInitially, TimersStep, PTL DEF Spec

\* A timer interrupt is requested in the step in which it is due and in no other, and
\* no request is lost but by its acceptance.
THEOREM TimersRequestExactly == Spec => RequestsExact
<1> DEFINE Exact ==
               /\ AcceptWithdrawsOnlyItself
               /\ turn = "devices" /\ turn' = "cpu" =>
                  LET over == {t \in Running(wdt, cmt) : due[t] <= 0}
                      owed == {Requested(t) : t \in {u \in over : Enabled(u)}}
                      may == IF WDT \in over /\ wdt.tms /\ ~wdt.rste THEN {WdtInt} ELSE {}
                      new == Raised(intc) \cup owed
                  IN  new \subseteq Raised(intc') /\ Raised(intc') \subseteq new \cup may
<1>1. TimersInv /\ [Next]_vars => [Exact]_vars
    <2> SUFFICES ASSUME TimersInv, Next PROVE Exact
        OBVIOUS
    <2>1. AcceptWithdrawsOnlyItself
        BY AcceptsOnlyOne DEF TimersInv, TypeOK
    <2>2. CASE turn = "devices" /\ turn' = "cpu"
        <3>1. DeviceStep
            BY <2>2 DEF Next, CpuStep, ExternalReset, Controller, rest
        <3> QED BY <2>1, <3>1, DeviceStepIs
    <2> QED BY <2>1, <2>2
<1> QED BY <1>1, TimersInitially, TimersStep, PTL DEF Spec, RequestsExact

\* In every state of the machine, whatever timers, resets and guests have requested
\* and written, sh2e_check_pending_interrupts finds the request with the highest
\* priority and lowest id; only ids outside its bounds (Unserved) are passed over.
THEOREM TimersArbitrate == Spec => []ArbitrationCorrect
<1>1. TimersInv => ArbitrationCorrect
    BY TypedArbitratesCorrectly DEF TimersInv, TypeOK
<1> QED BY <1>1, TimersInitially, TimersStep, PTL DEF Spec
=============================================================================
