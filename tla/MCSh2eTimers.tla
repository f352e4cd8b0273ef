---------------------------- MODULE MCSh2eTimers ----------------------------
(* The timers with their processor and interrupt controller, and the controller
   alone: two peripherals share a priority pool, and there are the first two
   external interrupt inputs and the three reset lines.  The ids lie on both
   sides of both ends of the arbitration scan; the timers share one, of which
   each scene has one timer in use. *)
EXTENDS Sh2eTimers, TLC

MCSources == {0, 1, 2, 64, 65, 254, 255}
MCPool == (0 :> 0) @@ (1 :> 0) @@ (2 :> 0) @@ (64 :> 1) @@ (65 :> 1)
              @@ (254 :> 37) @@ (255 :> 37)
MCBootPri == (1 :> 1) @@ (37 :> 2)
MCWdtPeriod == (0 :> 2) @@ (1 :> 3)
MCCmtPeriod == (0 :> 2) @@ (1 :> 3)
MCCmtInt == (0 :> 254) @@ (1 :> 254)
=============================================================================
