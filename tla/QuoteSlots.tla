----------------------------- MODULE QuoteSlots -----------------------------
(***************************************************************************)
(* What cancel/replace promises the strategy, without risk engine, events, *)
(* exchange or traces: at most Slots orders are live, and a replacement is *)
(* one step in which an order that was live when the replacement was asked *)
(* for gives way to exactly one new order.  A replacement is off as soon   *)
(* as its order executes or ends, but for one failure: the order may end   *)
(* and leave its replacement outstanding (Stall).  It can then be made up  *)
(* for, once, if a slot is free.                                           *)
(***************************************************************************)
EXTENDS Naturals, FiniteSets

CONSTANTS Orders, Slots

VARIABLES used,     \* order ids placed so far
          live,     \* orders that may still execute
          asked     \* orders with an outstanding replacement

slotVars == <<used, live, asked>>

SlotInit == used = {} /\ live = {} /\ asked = {}

Place(n) ==
    /\ n \notin used
    /\ Cardinality(live) < Slots
    /\ used' = used \cup {n}
    /\ live' = live \cup {n}
    /\ UNCHANGED asked

Ask(o) ==
    /\ o \in live \ asked
    /\ asked' = asked \cup {o}
    /\ UNCHANGED <<used, live>>

(* The order executed or failed: its replacement is off.                   *)
Withdraw(o) ==
    /\ asked' = asked \ {o}
    /\ UNCHANGED <<used, live>>

End(o) ==
    /\ o \in live
    /\ live' = live \ {o}
    /\ asked' = asked \ {o}
    /\ UNCHANGED used

Stall(o) ==
    /\ o \in live \cap asked
    /\ live' = live \ {o}
    /\ UNCHANGED <<used, asked>>

Swap(o, n) ==
    /\ o \in asked
    /\ n \notin used
    /\ Cardinality(live \ {o}) < Slots
    /\ used' = used \cup {n}
    /\ live' = (live \ {o}) \cup {n}
    /\ asked' = asked \ {o}

SlotNext ==
    \E o \in Orders :
        \/ Place(o) \/ Ask(o) \/ Withdraw(o) \/ End(o) \/ Stall(o)
        \/ \E n \in Orders : Swap(o, n)

SlotSpec == SlotInit /\ [][SlotNext]_slotVars

=============================================================================
