------------------------------ MODULE Sh2eDmac ------------------------------
(***************************************************************************)
(* The SH-2E direct memory access controller, device/dsh2edmac.c.  The     *)
(* controller's state is one record, because dsh2edmac_step goes through   *)
(* up to three of its functions, each reading what the one before wrote.   *)
(*                                                                         *)
(* Addresses and data are left out.  What the control depends on is chosen *)
(* instead: whether the source of a 16- or 32-bit transfer is misaligned,  *)
(* and whether SAR or DAR is the address a peripheral registered.  SAR,    *)
(* DAR and the reload of SAR2 change addresses only.  The interrupts the   *)
(* controller raises are inputs of Sh2eIntc, and of Sh2eCpu (DmacError).   *)
(***************************************************************************)
EXTENDS Integers

CONSTANTS
    Channels,   \* channels in use, of 0 .. 3
    Requests,   \* request sources registered with addsource
    Programs,   \* CHCR values the guest writes
    CountMod,   \* modulus of the transfer count (2^32)
    MaxCount    \* largest value the guest writes into TCR (2^24 - 1)

Resources == {"auto", "none", "unregistered"} \cup Requests
Sizes == {"byte", "wide", "invalid"}    \* 8 bits, 16 or 32, and TS = 3
Control == [rs : Resources, size : Sizes, tm : BOOLEAN, de : BOOLEAN]

ASSUME DmacConstants ==
    /\ Channels \subseteq 0 .. 3 /\ Channels # {}
    /\ Requests \cap {"auto", "none", "unregistered"} = {}
    /\ Programs \subseteq Control
    /\ CountMod \in Nat /\ CountMod >= 3 /\ MaxCount \in Nat /\ MaxCount < CountMod

NoChannel == -1

VARIABLES
    dmac,       \* sh2e_dmac_t
    bursted     \* history: the current pick has made a burst

dmacVars == <<dmac, bursted>>

ResetChannel == [tcr |-> 0, rs |-> "none", size |-> "byte", tm |-> FALSE,
                 de |-> FALSE, te |-> FALSE]

(* dsh2edmac_init; cpu_cycles is not assigned, but a controller whose DME bit
   is clear does nothing with its cycles. *)
DmacInit ==
    /\ dmac = [ch |-> [c \in Channels |-> ResetChannel],
               dme |-> FALSE, nmif |-> FALSE, ae |-> FALSE,
               state |-> "INITIAL", picked |-> NoChannel, pending |-> {}]
    /\ bursted = FALSE

(***************************************************************************)
(* Transfers                                                               *)
(***************************************************************************)
Picked(d) == d.ch[d.picked]

CheckAbort_IgnoresDe(d) == d.nmif \/ d.ae \/ ~d.dme

(* check_abort_conditions *)
CheckAbort(d) == d.nmif \/ d.ae \/ ~d.dme \/ ~Picked(d).de

Abort(d) == [d EXCEPT !.state = "INITIAL"]

(* perform_transfer: a misaligned source sets AE and moves nothing, but the
   registers are updated all the same.  "DIED" stands for the ASSERT(false) of a
   size that does not exist, which sh2e_dmac_chcr_write lets the guest set. *)
Perform(d, misaligned) ==
    IF Picked(d).size = "invalid" THEN [d EXCEPT !.state = "DIED"]
    ELSE [d EXCEPT !.ae = @ \/ (misaligned /\ Picked(d).size = "wide"),
                   !.ch[d.picked].tcr = (@ + CountMod - 1) % CountMod]

(* The block is finished. *)
End(d) == [d EXCEPT !.ch[d.picked].te = TRUE, !.state = "INITIAL"]

(* transfer_and_update_regs *)
Transfer(d, misaligned) ==
    LET p == Perform(d, misaligned)
    IN  CASE p.state = "DIED" -> p
          [] p.state # "DIED" /\ CheckAbort(p) -> Abort(p)
          [] p.state # "DIED" /\ ~CheckAbort(p) /\ Picked(p).tcr = 0 -> End(p)
          [] OTHER -> [p EXCEPT !.state = IF Picked(p).tm THEN "TRANSFERRING" ELSE "WAITING"]

(* step_transferring: a burst makes a second transfer, and then waits
   whatever came of it. *)
Transferring(d, m1, m2) ==
    IF CheckAbort(d) THEN Abort(d)
    ELSE LET first == Transfer(d, m1)
         IN  IF first.state = "TRANSFERRING"
             THEN [Transfer(first, m2) EXCEPT !.state = "WAITING"]
             ELSE first

Waiting_KeepsRequest(d, m1, m2, match) ==
    LET rs == Picked(d).rs
    IN  CASE rs = "auto" -> Transferring(d, m1, m2)
          [] rs = "none" -> [d EXCEPT !.state = "DIED"]
          [] rs = "unregistered" -> [d EXCEPT !.state = "INITIAL"]
          [] rs \in d.pending -> IF match THEN Transferring(d, m1, m2)
                                 ELSE [d EXCEPT !.state = "INITIAL"]
          [] OTHER -> d

(* step_waiting, with an ASSERT(false) of its own. *)
Waiting(d, m1, m2, match) ==
    LET rs == Picked(d).rs
        taken == [d EXCEPT !.pending = @ \ {rs}]
    IN  CASE rs = "auto" -> Transferring(d, m1, m2)
          [] rs = "none" -> [d EXCEPT !.state = "DIED"]
          [] rs = "unregistered" -> [d EXCEPT !.state = "INITIAL"]
          [] rs \in d.pending -> IF match THEN Transferring(taken, m1, m2)
                                 ELSE [taken EXCEPT !.state = "INITIAL"]
          [] OTHER -> d

Ready_IgnoresTe(d) == {c \in Channels : d.ch[c].de}

Ready(d) == {c \in Channels : d.ch[c].de /\ ~d.ch[c].te}

FirstReady(d) == CHOOSE c \in Ready(d) : \A q \in Ready(d) : c <= q

(* step_initial *)
Pick(d, m1, m2, match) ==
    CASE ~d.dme \/ d.nmif \/ d.ae \/ Ready(d) = {} -> [d EXCEPT !.picked = NoChannel]
      [] OTHER -> Waiting([d EXCEPT !.picked = FirstReady(d), !.state = "WAITING"],
                          m1, m2, match)

(* One iteration of the loop of dsh2edmac_step.  An instruction may last a
   single cycle, so anything else may happen between two iterations. *)
Cycle(d, m1, m2, match) ==
    CASE d.state = "INITIAL" -> Pick(d, m1, m2, match)
      [] d.state = "WAITING" -> Waiting(d, m1, m2, match)
      [] d.state = "TRANSFERRING" -> Transferring(d, m1, m2)

(* The outcomes to tell apart. *)
Alignments == IF \E c \in Channels : dmac.ch[c].size = "wide" THEN BOOLEAN ELSE {FALSE}
Matches == IF dmac.pending = {} THEN {TRUE} ELSE BOOLEAN

Moved(c) == dmac'.ch[c].tcr # dmac.ch[c].tcr

Step ==
    /\ dmac.state # "DIED"
    /\ \E m1, m2 \in Alignments, match \in Matches : dmac' = Cycle(dmac, m1, m2, match)
    /\ bursted' = \/ bursted /\ dmac.state # "INITIAL"
                  \/ \E c \in Channels : Moved(c) /\ dmac.ch[c].tm

(***************************************************************************)
(* The guest, the peripherals and the processor                            *)
(***************************************************************************)
WriteDmaor(dme, nmif, ae) ==
    /\ dmac' = [dmac EXCEPT !.dme = dme, !.nmif = nmif, !.ae = ae]
    /\ UNCHANGED bursted

WriteTcr(c, n) ==
    /\ dmac' = [dmac EXCEPT !.ch[c].tcr = n]
    /\ UNCHANGED bursted

(* sh2e_dmac_chcr_write: TE can only be cleared; DE is left as it was when
   the new value would set it without a request. *)
WriteChcr(c, v, te) ==
    /\ dmac' = [dmac EXCEPT !.ch[c] =
           [tcr |-> @.tcr, rs |-> v.rs, size |-> v.size, tm |-> v.tm,
            te |-> @.te /\ te,
            de |-> IF v.de /\ v.rs = "none" THEN @.de ELSE v.de]]
    /\ UNCHANGED bursted

PeripheralRequest(r) ==
    /\ dmac' = [dmac EXCEPT !.pending = @ \cup {r}]
    /\ UNCHANGED bursted

Nmi == dmac' = [dmac EXCEPT !.nmif = TRUE] /\ UNCHANGED bursted

(* sh2e_dmac_reset, on power-on resets, sleep and standby; the requests of
   the peripherals survive it. *)
Reset ==
    /\ dmac' = [dmac EXCEPT !.ch = [c \in Channels |-> ResetChannel],
                            !.dme = FALSE, !.nmif = FALSE, !.ae = FALSE,
                            !.state = "INITIAL", !.picked = NoChannel]
    /\ bursted' = FALSE

Guest ==
    \/ \E dme, nmif, ae \in BOOLEAN : WriteDmaor(dme, nmif, ae)
    \/ \E c \in Channels, n \in 0 .. MaxCount : WriteTcr(c, n)
    \/ \E c \in Channels, v \in Programs, te \in BOOLEAN : WriteChcr(c, v, te)

Environment ==
    \/ \E r \in Requests : PeripheralRequest(r)
    \/ Nmi
    \/ Reset

DmacNext == Step \/ (dmac.state # "DIED" /\ (Guest \/ Environment))

(* machine_step() calls dsh2edmac_step in every machine cycle, with the
   cycles of the instruction just executed. *)
DmacSpec == DmacInit /\ [][DmacNext]_dmacVars /\ WF_dmacVars(Step)

(***************************************************************************)
(* Properties                                                              *)
(***************************************************************************)
(* Every field of sh2e_dmac_t has a value of its type. *)
DmacTypeOK ==
    /\ dmac \in [ch : [Channels -> [tcr : 0 .. CountMod - 1, rs : Resources,
                                    size : Sizes, tm : BOOLEAN,
                                    de : BOOLEAN, te : BOOLEAN]],
                 dme : BOOLEAN, nmif : BOOLEAN, ae : BOOLEAN,
                 state : {"INITIAL", "WAITING", "TRANSFERRING", "DIED"},
                 picked : Channels \cup {NoChannel},
                 pending : SUBSET Requests]
    /\ bursted \in BOOLEAN

(* A cycle in which data of channel c was moved. *)
Transfers(c) == Moved(c) /\ Step

(* The ASSERT(picked_channel != -1) of step_waiting, step_transferring and
   transfer_and_update_regs hold in every order of register writes, NMIs,
   resets and cycles; and a cycle never ends in the middle of a transfer. *)
ActiveHasChannel ==
    /\ dmac.state # "INITIAL" => dmac.picked # NoChannel
    /\ dmac.state # "TRANSFERRING"

(* Nothing is transferred for a channel that is disabled, or while DME is
   clear, an NMI is flagged or an address error is: the guest may clear the
   bits, and the processor flag the NMI, at any time while the channel is
   picked, and step_waiting does not look at them. *)
NoTransferWhenStopped ==
    [][\A c \in Channels : Transfers(c) =>
          dmac.dme /\ ~dmac.nmif /\ ~dmac.ae /\ dmac.ch[c].de]_dmacVars

(* A peripheral's request is good for the transfers of one cycle: a channel
   with a peripheral resource moves data only if a request was pending, and
   uses it up. *)
RequestPerTransfer ==
    [][\A c \in Channels : Transfers(c) /\ dmac.ch[c].rs \in Requests =>
          dmac.ch[c].rs \in dmac.pending \ dmac'.pending]_dmacVars

(* "Check if the transfer is finished (TCR reached 0)": a channel that has
   reached its transfer end moves nothing before the guest clears TE, whatever
   the guest rewrites while the channel is picked.  It is said of cycle-steal
   mode: after the second transfer of a burst step_transferring sets
   WAITING_FOR_REQUEST even if that transfer was the last one. *)
CycleStealEndIsFinal ==
    [][\A c \in Channels : Transfers(c) /\ ~bursted => ~dmac.ch[c].te]_dmacVars
=============================================================================
