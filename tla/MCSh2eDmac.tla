----------------------------- MODULE MCSh2eDmac -----------------------------
(* Channels 0 and 2; an auto-request and a peripheral, single or burst. *)
EXTENDS Sh2eDmac

Chcr(rs, size, tm, de) == [rs |-> rs, size |-> size, tm |-> tm, de |-> de]

MCPrograms == {Chcr("auto", "byte", FALSE, TRUE), Chcr("auto", "wide", TRUE, TRUE),
               Chcr("auto", "byte", FALSE, FALSE), Chcr("dev", "byte", FALSE, TRUE),
               Chcr("none", "byte", FALSE, TRUE), Chcr("auto", "invalid", FALSE, TRUE),
               Chcr("unregistered", "byte", FALSE, TRUE)}
=============================================================================
