--------------------------- MODULE Sh2eIntcProofs ---------------------------
(***************************************************************************)
(* The SH-2E interrupt controller (Sh2eIntc), for every set of sources and *)
(* every assignment of priorities.                                         *)
(*                                                                         *)
(* The scan of sh2e_check_pending_interrupts finds the best candidate, by  *)
(* induction over the ids it visits; every operation keeps the fields in   *)
(* their types.  The proofs about the processor (Sh2eCpuProofs) and about  *)
(* the timers (Sh2eTimersProofs) rest on these lemmas.                     *)
(***************************************************************************)
EXTENDS Sh2eIntc, NaturalsInduction, WellFoundedInduction, TLAPS

\* A set of naturals that is not empty has a least element.
LEMMA LeastOf ==
    ASSUME NEW set \in SUBSET Nat, set # {}
    PROVE  \E i \in set : \A j \in set : i <= j
<1> DEFINE R == OpToRel(<, Nat)
<1>1. IsWellFoundedOn(R, Nat)
    BY NatLessThanWellFounded
<1>2. \A y, x \in Nat : y < x => <<y, x>> \in R
    BY DEF OpToRel
<1> HIDE DEF R
<1>3. \A T : T \subseteq Nat /\ T # {} => \E x \in T : \A y \in T : ~(<<y, x>> \in R)
    BY <1>1, WFMin, Zenon
<1>4. PICK x \in set : \A y \in set : ~(<<y, x>> \in R)
    BY <1>3
<1>5. \A y \in set : ~(y < x)
    BY <1>2, <1>4, Zenon
<1> QED BY <1>5

\* Induction on the naturals, for a set.
LEMMA InductionOnSet ==
    ASSUME NEW S, 0 \in S, \A n \in Nat : n \in S => n + 1 \in S
    PROVE  Nat \subseteq S
<1> DEFINE rest == {n \in Nat : n \notin S}
<1> SUFFICES ASSUME rest # {} PROVE FALSE
    OBVIOUS
<1>1. PICK m \in rest : \A n \in rest : m <= n
    BY LeastOf
<1>2. m # 0 /\ m - 1 \in Nat /\ m - 1 \notin rest
    BY <1>1
<1> QED BY <1>1, <1>2

---------------------------------------------------------------------------
\* The ids of the registered sources are naturals.
LEMMA SourceIds == Sources \subseteq Nat
    BY IntcConstants DEF ValidId, Resets, POWER_ON_RESET_EXTERNAL, MANUAL_RESET, HUDI_VECTOR, UBC_VECTOR,
        Irqs, IRQ_VECTOR, Others, SOURCE_MAX

\* The ids that the loop visits.
LEMMA ScannedIds == \A s \in Scanned : s \in Nat /\ 64 < s /\ s < 255 /\ s \in Sources \ Resets
    BY SourceIds DEF Scanned, Resets, POWER_ON_RESET_EXTERNAL, MANUAL_RESET, IRQ_VECTOR, SOURCE_MAX

\* Before names the registered id that the loop visits just before.
LEMMA BeforeIs ==
    ASSUME NEW s \in Scanned \cup {SOURCE_MAX}
    PROVE  /\ Before[s] \in Scanned \cup {IRQ_VECTOR} /\ Before[s] < s
           /\ \A q \in Scanned : q < s => q <= Before[s]
<1> DEFINE below == {r \in Scanned \cup {IRQ_VECTOR} : r < s}
           bounds == {n \in Nat : \A r \in below : r <= n}
<1>1. s \in Nat /\ below \in SUBSET Nat /\ IRQ_VECTOR \in below /\ IRQ_VECTOR # 0
    BY ScannedIds DEF IRQ_VECTOR, SOURCE_MAX
<1>2. s \in bounds /\ bounds \in SUBSET Nat
    BY <1>1
<1>3. PICK n \in bounds : \A m \in bounds : n <= m
    BY <1>2, LeastOf
<1>4. n \in below
    <2> HIDE DEF below
    <2>1. SUFFICES ASSUME n \notin below PROVE FALSE
        OBVIOUS
    <2>2. n \in Nat /\ n # 0 /\ \A r \in below : r <= n - 1
        BY <1>1, <1>3, <2>1
    <2>3. n - 1 \in bounds
        BY <2>2
    <2> QED BY <1>3, <2>2, <2>3
<1>5. n \in Scanned \cup {IRQ_VECTOR} /\ n < s /\ \A q \in Scanned : q < s => q <= n
    BY <1>3, <1>4
<1> QED BY <1>5 DEF Before

\* What the scan has found after the candidates cand: of those with the highest
\* priority the one with the lowest id, and nothing if there is no candidate.
BestOf(ic, cand, best) ==
    IF cand = {} THEN best = None
    ELSE /\ best.src \in cand /\ best.pri = GetPriority(ic, best.src)
         /\ \A s \in cand : \/ GetPriority(ic, s) < best.pri
                            \/ GetPriority(ic, s) = best.pri /\ best.src <= s

\* The eligible requests the loop visits.
Visible(ic, mask) == {s \in Scanned : IsPending(ic, s) /\ GetPriority(ic, s) > mask}

\* The priority of a scanned source is one.
LEMMA PriorityIs ==
    ASSUME NEW ic \in Intc, NEW s \in Scanned
    PROVE  GetPriority(ic, s) \in Pri /\ GetPriority(ic, s) \in Nat
<1>1. Pool[s] \in MyPools
    BY ScannedIds DEF MyPools
<1>2. ic.ipr \in [MyPools -> Pri]
    BY DEF Intc
<1> QED BY <1>1, <1>2, IntcConstants DEF GetPriority, Pri

\* The loop of sh2e_check_pending_interrupts finds the best candidate.
LEMMA ArbitrateFinds ==
    ASSUME NEW ic \in Intc, NEW mask \in Nat
    PROVE  BestOf(ic, Visible(ic, mask), Arbitrate(ic, mask))
<1> DEFINE ids == Scanned \cup {IRQ_VECTOR}
           Step(f, s) == IF s = IRQ_VECTOR THEN None ELSE Better(ic, mask, f[Before[s]], s)
           best == CHOOSE f : f = [s \in ids |-> Step(f, s)]
           Upto(n) == {s \in ids : s <= n}
           cand(n) == {s \in Visible(ic, mask) : s <= n}
<1>1. Arbitrate(ic, mask) = best[Before[SOURCE_MAX]]
    BY DEF Arbitrate
<1>2. best = [s \in ids |-> Step(best, s)]
    <2> DEFINE Defined(n) == \E f : f = [s \in Upto(n) |-> Step(f, s)]
               S == {n \in Nat : Defined(n)}
    <2>1. Upto(0) = {} /\ Upto(SOURCE_MAX) = ids /\ SOURCE_MAX \in Nat
        BY ScannedIds DEF IRQ_VECTOR, SOURCE_MAX
    <2>2. SUFFICES \A n \in Nat : Defined(n)
        <3>1. Defined(SOURCE_MAX)
            BY <2>1, <2>2, SMTT(30)
        <3>2. \E f : f = [s \in ids |-> Step(f, s)]
            BY <2>1, <3>1, Zenon
        <3> QED BY <3>2, Zenon
    <2>3. Defined(0)
        <3> DEFINE f == [s \in {} |-> 0]
        <3>1. f = [s \in Upto(0) |-> Step(f, s)]
            BY <2>1
        <3> HIDE DEF f
        <3> QED BY <3>1, Zenon
    <2>4. ASSUME NEW n \in Nat, Defined(n) PROVE Defined(n + 1)
        <3>1. PICK g : g = [s \in Upto(n) |-> Step(g, s)]
            BY <2>4, Zenon
        <3> DEFINE f == [s \in Upto(n + 1) |-> IF s = n + 1 THEN Step(g, s) ELSE g[s]]
        <3>2. \A s \in Upto(n + 1) : f[s] = Step(f, s)
            <4>1. TAKE s \in Upto(n + 1)
            <4>2. s # IRQ_VECTOR => f[Before[s]] = g[Before[s]]
                <5>1. SUFFICES ASSUME s # IRQ_VECTOR PROVE f[Before[s]] = g[Before[s]]
                    OBVIOUS
                <5>2. s \in Scanned /\ s \in Nat /\ s <= n + 1
                    BY <5>1, ScannedIds DEF IRQ_VECTOR, SOURCE_MAX
                <5>3. Before[s] \in ids /\ Before[s] < s
                    BY <5>2, BeforeIs
                <5>4. Before[s] \in Nat
                    BY <5>3, ScannedIds DEF IRQ_VECTOR
                <5>5. Before[s] \in Upto(n + 1) /\ Before[s] # n + 1
                    BY <5>2, <5>3, <5>4
                <5> HIDE DEF Upto
                <5> QED BY <5>5
            <4>3. Step(f, s) = Step(g, s)
                BY <4>2
            <4>4. \A r \in Upto(n) : g[r] = Step(g, r)
                BY <3>1, Zenon
            <4>5. s # n + 1 => s \in Upto(n)
                BY ScannedIds DEF IRQ_VECTOR, SOURCE_MAX
            <4> HIDE DEF Upto, Step
            <4> QED BY <4>3, <4>4, <4>5
        <3>3. f = [s \in Upto(n + 1) |-> Step(f, s)]
            BY <3>2
        <3> HIDE DEF f
        <3> QED BY <3>3, Zenon
    <2> HIDE DEF Defined
    <2>5. 0 \in S /\ \A n \in Nat : n \in S => n + 1 \in S
        BY <2>3, <2>4
    <2> HIDE DEF S
    <2>6. Nat \subseteq S
        BY <2>5, InductionOnSet
    <2> QED BY <2>6 DEF S
<1> HIDE DEF best
<1>3. \A s \in ids : BestOf(ic, cand(s), best[s])
    <2> DEFINE bad == {s \in ids : ~BestOf(ic, cand(s), best[s])}
    <2>1. SUFFICES ASSUME bad # {} PROVE FALSE
        OBVIOUS
    <2>2. bad \in SUBSET Nat
        BY ScannedIds DEF IRQ_VECTOR, SOURCE_MAX
    <2>3. PICK s \in bad : \A r \in bad : s <= r
        BY <2>1, <2>2, LeastOf
    <2>4. s \in ids /\ s \in Nat /\ ~BestOf(ic, cand(s), best[s])
        BY <2>2, <2>3
    <2>5. best[s] = Step(best, s)
        BY <1>2, <2>4, Zenon
    <2>6. CASE s = IRQ_VECTOR
        <3>1. \A r \in Visible(ic, mask) : ~(r <= s)
            BY <2>6, ScannedIds DEF IRQ_VECTOR, Visible
        <3> QED BY <2>4, <2>5, <2>6, <3>1 DEF BestOf
    <2>7. CASE s \in Scanned
        <3> DEFINE p == Before[s]
        <3>1. /\ p \in ids /\ p \in Nat /\ p < s
              /\ \A q \in Scanned : q < s => q <= p
            BY <2>7, BeforeIs, ScannedIds DEF IRQ_VECTOR, SOURCE_MAX
        <3>2. BestOf(ic, cand(p), best[p])
            BY <2>3, <2>4, <3>1
        <3>3. s # IRQ_VECTOR /\ best[s] = Better(ic, mask, best[p], s)
            BY <2>5, <2>7, ScannedIds DEF IRQ_VECTOR, SOURCE_MAX
        <3>4. cand(s) = cand(p) \cup {r \in {s} : IsPending(ic, s) /\ GetPriority(ic, s) > mask}
            <4>1. \A r \in Scanned : r <= s <=> r <= p \/ r = s
                BY <2>4, <3>1, ScannedIds
            <4> HIDE DEF p
            <4> QED BY <2>7, <4>1 DEF Visible
        <3>5. \A r \in cand(s) : r \in Nat /\ GetPriority(ic, r) \in Nat /\ GetPriority(ic, r) > mask /\ r # 0
            BY ScannedIds, PriorityIs DEF Visible
        <3>6. \A r \in cand(p) : r < s /\ r \in cand(s)
            BY <2>4, <3>1, <3>4, ScannedIds DEF IRQ_VECTOR, SOURCE_MAX, Visible
        <3> HIDE DEF p, cand
        <3>7. CASE IsPending(ic, s) /\ GetPriority(ic, s) > mask
            <4>1. cand(s) = cand(p) \cup {s}
                BY <3>4, <3>7
            <4>2. CASE cand(p) = {}
                <5>1. best[p] = None
                    BY <3>2, <4>2 DEF BestOf
                <5>2. best[s] = [src |-> s, pri |-> GetPriority(ic, s)]
                    BY <3>3, <3>7, <5>1 DEF Better, None
                <5> QED BY <2>4, <4>1, <4>2, <5>2 DEF BestOf
            <4>3. CASE cand(p) # {}
                <5>1. /\ best[p].src \in cand(p) /\ best[p].pri = GetPriority(ic, best[p].src)
                      /\ \A r \in cand(p) : \/ GetPriority(ic, r) < best[p].pri
                                            \/ GetPriority(ic, r) = best[p].pri /\ best[p].src <= r
                    BY <3>2, <4>3 DEF BestOf
                <5>2. best[p].src # 0 /\ best[p].src < s /\ best[p].src \in Nat /\ best[p].pri \in Nat
                    BY <3>5, <3>6, <5>1
                <5>3. GetPriority(ic, s) \in Nat
                    BY <3>5, <4>1
                <5>4. CASE GetPriority(ic, s) > best[p].pri
                    <6>1. best[s] = [src |-> s, pri |-> GetPriority(ic, s)]
                        BY <3>3, <3>7, <5>4 DEF Better
                    <6>2. \A r \in cand(p) : GetPriority(ic, r) < GetPriority(ic, s)
                        BY <3>5, <3>6, <5>1, <5>2, <5>3, <5>4
                    <6> QED BY <2>4, <4>1, <6>1, <6>2 DEF BestOf
                <5>5. CASE ~(GetPriority(ic, s) > best[p].pri)
                    <6>1. best[s] = best[p]
                        BY <3>3, <5>2, <5>5 DEF Better
                    <6>2. GetPriority(ic, s) <= best[p].pri
                        BY <5>2, <5>3, <5>5
                    <6> QED BY <2>4, <4>1, <5>1, <5>2, <5>3, <6>1, <6>2 DEF BestOf
                <5> QED BY <5>4, <5>5
            <4> QED BY <4>2, <4>3
        <3>8. CASE ~(IsPending(ic, s) /\ GetPriority(ic, s) > mask)
            <4>1. cand(s) = cand(p)
                BY <3>4, <3>8
            <4>2. best[s] = best[p]
                BY <3>3, <3>8 DEF Better
            <4> QED BY <2>4, <3>2, <4>1, <4>2
        <3> QED BY <3>7, <3>8
    <2> QED BY <2>4, <2>6, <2>7
<1>4. Before[SOURCE_MAX] \in ids /\ cand(Before[SOURCE_MAX]) = Visible(ic, mask)
    BY BeforeIs, ScannedIds DEF IRQ_VECTOR, SOURCE_MAX, Visible
<1> QED BY <1>1, <1>3, <1>4

---------------------------------------------------------------------------
\* The operations of the controller keep its fields in their types.
Registers(ic) == <<ic.nmil, ic.nmiPrev, ic.interruptOut, ic.priorityOut>>

\* Requests come and go without touching what the last check left.
LEMMA RequestsTyped ==
    ASSUME NEW ic \in Intc, NEW s \in Sources, NEW new \in {AssertInt(ic, s), DeassertInt(ic, s)}
    PROVE  /\ new \in Intc /\ Registers(new) = Registers(ic)
           /\ new.pending \subseteq ic.pending \cup {s}
<1>1. s \in Irqs => s \in MyIrqs
    BY DEF MyIrqs
<1>2. s \notin Irqs => s \in Sources \ Irqs
    OBVIOUS
<1>3. CASE new = AssertInt(ic, s)
    BY <1>1, <1>2, <1>3 DEF AssertInt, Intc, Registers
<1>4. CASE new = DeassertInt(ic, s)
    BY <1>1, <1>2, <1>4 DEF DeassertInt, ClearIrq, Intc, Registers
<1> QED BY <1>3, <1>4

\* A write to a priority register.
LEMMA WriteIprTyped ==
    ASSUME NEW ic \in Intc, NEW p \in MyPools, NEW v \in Pri
    PROVE  LET new == WriteIpr(ic, p, v)
           IN new \in Intc /\ Registers(new) = Registers(ic) /\ new.pending = ic.pending
    BY DEF WriteIpr, Intc, Registers

\* A write to the control or the status register.
LEMMA ControlWritesTyped ==
    ASSUME NEW ic \in Intc, NEW new \in ControlWrites(ic)
    PROVE  new \in Intc
<1>1. CASE \E l, e \in BOOLEAN, s \in SUBSET MyIrqs : new = WriteIcr(ic, l, e, s)
    BY <1>1 DEF WriteIcr, Intc
<1>2. CASE \E f \in SUBSET MyIrqs : new = WriteIsr(ic, f)
    BY <1>2 DEF WriteIsr, Intc
<1> QED BY <1>1, <1>2 DEF ControlWrites

\* A reset withdraws the reset requests; it may clear the registers.
LEMMA ResetTyped ==
    ASSUME NEW ic \in Intc
    PROVE  /\ AcceptReset(ic) \in Intc /\ InitRegs(AcceptReset(ic)) \in Intc
           /\ Registers(AcceptReset(ic)) = Registers(ic)
           /\ AcceptReset(ic).pending = ic.pending \ Resets
<1>1. 0 \in Pri
    BY IntcConstants DEF Pri
<1> QED BY <1>1 DEF AcceptReset, InitRegs, Intc, Registers

\* Accepting an interrupt: its priority becomes the mask, and only its own request
\* is withdrawn.
LEMMA AcceptTyped ==
    ASSUME NEW ic \in Intc
    PROVE  LET accepted == AcceptInterrupt(ic)
           IN /\ accepted.intc \in Intc /\ accepted.mask = ic.priorityOut /\ accepted.mask \in Pri
              /\ accepted.intc.pending \subseteq ic.pending
              /\ accepted.intc.nmil = ic.nmil /\ accepted.intc.nmiPrev = ic.nmiPrev
<1>1. 0 \in Pri
    BY IntcConstants DEF Pri
<1> QED BY <1>1 DEF AcceptInterrupt, ClearIrq, Intc

\* What Arbitrate returns is a source above the mask, or nothing.
LEMMA ArbitrateTyped ==
    ASSUME NEW ic \in Intc, NEW mask \in Pri
    PROVE  LET best == Arbitrate(ic, mask)
           IN /\ best.src \in {0} \cup Sources /\ best.pri \in Pri
              /\ best.src # 0 => best.pri > mask
<1> DEFINE best == Arbitrate(ic, mask)
<1> SUFFICES best.src \in {0} \cup Sources /\ best.pri \in Pri /\ (best.src # 0 => best.pri > mask)
    OBVIOUS
<1>1. mask \in Nat /\ 0 \in Pri
    BY IntcConstants DEF Pri
<1>2. BestOf(ic, Visible(ic, mask), best)
    BY <1>1, ArbitrateFinds
<1> HIDE DEF best
<1>3. CASE Visible(ic, mask) = {}
    BY <1>1, <1>2, <1>3 DEF BestOf, None
<1>4. CASE Visible(ic, mask) # {}
    <2>1. best.src \in Visible(ic, mask) /\ best.pri = GetPriority(ic, best.src)
        BY <1>2, <1>4 DEF BestOf
    <2>2. best.src \in Scanned /\ GetPriority(ic, best.src) > mask
        BY <2>1 DEF Visible
    <2> QED BY <2>1, <2>2, PriorityIs, ScannedIds
<1> QED BY <1>3, <1>4

\* A check for interrupts: what it reports is a source, and when no edge of the NMI
\* input is seen it is what the controller remembers, above the mask.
LEMMA CheckTyped ==
    ASSUME NEW ic \in Intc, NEW mask \in Pri
    PROVE  LET check == CheckInterrupts(ic, mask)
           IN /\ check.intc \in Intc /\ check.out \in {0} \cup Sources
              /\ check.intc.pending = ic.pending
              /\ check.intc.nmil = ic.nmil /\ check.intc.nmiPrev = ic.nmil
              /\ ~NmiDetected(ic) =>
                     /\ check.hit <=> check.out # 0
                     /\ check.hit => check.out = check.intc.interruptOut /\ check.intc.priorityOut > mask
<1> DEFINE best == Arbitrate(ic, mask)
<1>1. best.src \in {0} \cup Sources /\ best.pri \in Pri /\ (best.src # 0 => best.pri > mask)
    BY ArbitrateTyped
<1>2. MaxPri \in Pri
    BY IntcConstants DEF Pri
<1> HIDE DEF best
<1>3. CASE NmiDetected(ic)
    BY <1>2, <1>3 DEF CheckInterrupts, Intc
<1>4. CASE ~NmiDetected(ic)
    <2>1. CheckInterrupts(ic, mask) =
              [intc |-> [[ic EXCEPT !.nmiPrev = ic.nmil] EXCEPT !.interruptOut = best.src, !.priorityOut = best.pri],
               hit |-> best.src # 0, out |-> best.src]
        BY <1>4 DEF CheckInterrupts, best
    <2> DEFINE new == [[ic EXCEPT !.nmiPrev = ic.nmil] EXCEPT !.interruptOut = best.src, !.priorityOut = best.pri]
    <2>2. /\ new \in Intc /\ new.pending = ic.pending /\ new.nmil = ic.nmil /\ new.nmiPrev = ic.nmil
          /\ new.interruptOut = best.src /\ new.priorityOut = best.pri
        BY <1>1 DEF Intc
    <2> HIDE DEF new
    <2>3. CheckInterrupts(ic, mask) = [intc |-> new, hit |-> best.src # 0, out |-> best.src]
        BY <2>1 DEF new
    <2> DEFINE check == CheckInterrupts(ic, mask)
    <2> HIDE DEF check
    <2>4. check = [intc |-> new, hit |-> best.src # 0, out |-> best.src]
        BY <2>3 DEF check
    <2>5. check.intc = new /\ check.out = best.src /\ (check.hit <=> best.src # 0)
        BY <2>4
    <2> QED BY <1>1, <2>2, <2>5 DEF check
<1> QED BY <1>3, <1>4

\* sh2e_check_pending_resets serves the pending reset with the lowest number.
LEMMA NextResetLeast ==
    ASSUME NEW ic, PendingResets(ic) # {}
    PROVE  NextReset(ic) \in PendingResets(ic) /\ \A r \in PendingResets(ic) : NextReset(ic) <= r
<1>1. Resets = {0, 1, 2}
    BY DEF Resets, POWER_ON_RESET_EXTERNAL, MANUAL_RESET
<1>2. PendingResets(ic) \subseteq {0, 1, 2}
    BY <1>1 DEF PendingResets
<1>3. \E r \in PendingResets(ic) : \A q \in PendingResets(ic) : r <= q
    BY <1>2, LeastOf
<1> QED BY <1>3 DEF NextReset

\* The controller on its own: whatever devices, guest and processor do to it, in
\* whatever order, its fields keep their types (intc.c, dsh2eintc.c).
LEMMA ControllerTyped == IntcTypeOK /\ IntcNext => IntcTypeOK'
<1> SUFFICES ASSUME intc \in Intc, IntcNext PROVE intc' \in Intc
    BY DEF IntcTypeOK
<1>1. ASSUME NEW s \in Sources, DevAssert(s) \/ DevDeassert(s) PROVE intc' \in Intc
    BY <1>1, RequestsTyped DEF DevAssert, DevDeassert
<1>2. CASE GuestWrite
    <2>1. CASE intc' \in PriorityWrites(intc)
        BY <2>1, WriteIprTyped DEF PriorityWrites
    <2>2. CASE intc' \in ControlWrites(intc)
        BY <2>2, ControlWritesTyped
    <2> QED BY <1>2, <2>1, <2>2 DEF GuestWrite
<1>3. ASSUME NEW m \in Pri, CpuCheck(m) PROVE intc' \in Intc
    BY <1>3, CheckTyped DEF CpuCheck
<1>4. CASE CpuAccept
    BY <1>4, AcceptTyped DEF CpuAccept
<1>5. CASE CpuAcceptReset
    BY <1>5, ResetTyped DEF CpuAcceptReset
<1>6. CASE CpuInitRegs
    <2>1. 0 \in Pri
        BY IntcConstants DEF Pri
    <2> QED BY <1>6, <2>1 DEF CpuInitRegs, InitRegs, Intc
<1> QED BY <1>1, <1>2, <1>3, <1>4, <1>5, <1>6 DEF IntcNext

\* The loop visits every registered source but the resets and the Unserved ids.
LEMMA VisibleIs ==
    ASSUME NEW ic, NEW mask
    PROVE  /\ Visible(ic, mask) \subseteq Eligible(ic, mask)
           /\ Eligible(ic, mask) \ Unserved \subseteq Visible(ic, mask)
<1>1. Sources \ (Resets \cup Unserved) \subseteq Scanned
    BY IntcConstants DEF Scanned, Unserved, ValidId, HUDI_VECTOR, UBC_VECTOR,
        Irqs, IRQ_VECTOR, Others, SOURCE_MAX
<1> QED BY <1>1, ScannedIds DEF Visible, Eligible

\* The scan of sh2e_check_pending_interrupts finds, for every mask, the request
\* with the highest priority and among those the one with the lowest id, however
\* many sources are registered and whatever their priorities are; the ids outside
\* its bounds (Unserved) are the only ones it can pass over.
THEOREM TypedArbitratesCorrectly == IntcTypeOK => ArbitrationCorrect
<1> SUFFICES ASSUME intc \in Intc, NEW mask \in Pri
             PROVE  LET best == Arbitrate(intc, mask)
                        cand == Eligible(intc, mask)
                    IN  \/ best = None /\ cand \subseteq Unserved
                        \/ /\ best.src \in cand /\ best.pri = GetPriority(intc, best.src)
                           /\ \A s \in cand \ Unserved :
                                 \/ GetPriority(intc, s) < best.pri
                                 \/ GetPriority(intc, s) = best.pri /\ best.src <= s
    BY DEF IntcTypeOK, ArbitrationCorrect
<1>1. mask \in Nat
    BY IntcConstants DEF Pri
<1>2. BestOf(intc, Visible(intc, mask), Arbitrate(intc, mask))
    BY <1>1, ArbitrateFinds
<1> QED BY <1>2, VisibleIs DEF BestOf

\* sh2e_accept_interrupt withdraws the request it accepts and no other.
THEOREM AcceptsOnlyOne == IntcTypeOK => AcceptWithdrawsOnlyItself
<1> SUFFICES ASSUME intc \in Intc, CpuAccept
             PROVE  /\ intc'.pending = intc.pending \ {intc.interruptOut}
                    /\ intc'.isr = IF intc.interruptOut \in intc.sense
                                   THEN intc.isr \ {intc.interruptOut} ELSE intc.isr
    BY DEF IntcTypeOK, AcceptWithdrawsOnlyItself
<1>1. intc' = AcceptInterrupt(intc).intc
    BY DEF CpuAccept
<1>2. intc.sense \subseteq Irqs /\ intc.pending \cap Irqs = {}
    BY DEF Intc, MyIrqs
<1> QED BY <1>1, <1>2 DEF AcceptInterrupt, ClearIrq, Intc
=============================================================================
