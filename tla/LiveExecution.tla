--------------------------- MODULE LiveExecution ----------------------------
(***************************************************************************)
(* The live execution core: RiskCheckedExecutor submits through the        *)
(* Hummingbot client, the connector's events come back through the bridge  *)
(* into OrderEvents' tracker and account, ReplacementCoordinator turns     *)
(* confirmed cancellations into new orders, and ReconciliationSyncGate     *)
(* decides whether orders may be placed at all.                            *)
(*                                                                         *)
(* The exchange and the connector are external.  Their events are derived  *)
(* from what the exchange did (xorders, xfills): once a thing has happened *)
(* its event may be delivered any number of times, in any order with the   *)
(* others, or never.                                                       *)
(***************************************************************************)
EXTENDS OrderEvents

CONSTANTS Instructions,     \* [coin, side, opens]
          Amounts,          \* lots that a notional may be quantized to
          MaxOpenOrders,    \* RiskLimits.max_open_orders
          NoOrder, NoInstruction

Instruction == [coin : Coins, side : Sides, opens : BOOLEAN]

ASSUME LiveAssumption ==
    /\ Instructions \subseteq Instruction
    /\ Orders \subseteq ExchangeIds        \* order o is known to the exchange as o
    /\ Amounts \subseteq Nat \ {0}
    /\ MaxOpenOrders \in Nat
    /\ NoOrder \notin Orders

VARIABLES xorders,    \* exchange: every order's status, instruction, filled lots
          xfills,     \* exchange: executions
          xposition,  \* exchange: position per coin
          records,    \* ReplacementCoordinator._records
          gate        \* ReconciliationSyncGate._decision.state

xVars == <<xorders, xfills, xposition>>
liveVars == <<orderVars, xVars, records, gate>>

ReplacementStates == {"waiting_for_cancel", "submitted", "invalidated", "failed"}

(* History fields: what the old order had filled when its replacement was  *)
(* requested, and whether on_cancelled was left by an exception.           *)
ReplacementRecord ==
    [state : ReplacementStates, instruction : Instructions,
     trace : Traces \cup {NoTrace}, new : Orders \cup {NoOrder},
     filledAtRequest : Nat, raised : BOOLEAN]

NoRecord == [state |-> "none", instruction |-> NoInstruction,
             trace |-> NoTrace, new |-> NoOrder,
             filledAtRequest |-> 0, raised |-> FALSE]

XStatus == {"none", "submitted", "working", "filled", "cancelled",
            "rejected", "lost"}

XOrder == [status : XStatus \ {"none"}, instruction : Instructions,
           amount : Amounts, filled : Nat]

NoXOrder == [status |-> "none", instruction |-> NoInstruction,
             amount |-> 0, filled |-> 0]

GateStates == {"unsynchronized", "grace", "ready", "blocked"}

Waiting(o) == records[o].state = "waiting_for_cancel"

Healthy == gate = "ready"

-----------------------------------------------------------------------------
(* The exchange, and the connector's in_flight_orders: external.           *)

XActive(o) == xorders[o].status \in {"submitted", "working"}

(* A connector may report as failed an order the exchange refused, and one *)
(* that worked and that it can no longer find.                             *)
EverWorked(o) == xorders[o].status \in {"working", "filled", "cancelled", "lost"}

XMove(o, from, to) ==
    /\ xorders[o].status \in from
    /\ xorders' = [xorders EXCEPT ![o].status = to]
    /\ UNCHANGED <<xfills, xposition, records, gate, orderVars>>

XAccept(o) == XMove(o, {"submitted"}, "working")
XRefuse(o) == XMove(o, {"submitted"}, "rejected")
XCancel(o) == XMove(o, {"working"}, "cancelled")
XLose(o)   == XMove(o, {"working"}, "lost")

(* A reduce-only order never executes beyond the position it closes.       *)
XExecute(o, id, quantity) ==
    LET x == xorders[o]
        i == x.instruction
        fill == [id |-> id, order |-> o, coin |-> i.coin, side |-> i.side,
                 quantity |-> quantity, exchangeId |-> o] IN
    /\ x.status = "working"
    /\ \A f \in xfills : f.id # id
    /\ x.filled + quantity <= x.amount
    /\ ~i.opens => -i.side * xposition[i.coin] >= quantity
    /\ xfills' = xfills \cup {fill}
    /\ xposition' = [xposition EXCEPT ![i.coin] = @ + SignedQuantity(fill)]
    /\ xorders' = [xorders EXCEPT
                     ![o].filled = @ + quantity,
                     ![o].status = IF x.filled + quantity = x.amount
                                     THEN "filled" ELSE @]
    /\ UNCHANGED <<records, gate, orderVars>>

Unused(o) == orders[o].status = "untracked" /\ xorders[o].status = "none"

-----------------------------------------------------------------------------
(* RiskEngine and RiskCheckedExecutor.                                     *)

(* Faulty variant: the last slot is given away twice.                      *)
ApprovedOffByOne(active) == Cardinality(active) <= MaxOpenOrders

(* RiskEngine.evaluate.  Of all that it compares the executor looks up     *)
(* only the number of open orders; prices, notionals, losses and health    *)
(* are in the context as the caller built it, of whatever age.  So every   *)
(* other limit is a free choice: an order may be blocked at any time.      *)
Approved(active) == Cardinality(active) < MaxOpenOrders

(* HummingbotPerpetualAdapter._amount and _submit: the notional divided by *)
(* a price and quantized; an amount of zero is refused.                    *)
XSubmit(n, i) ==
    \E amount \in Amounts :
        xorders' = [xorders EXCEPT ![n] = [status      |-> "submitted",
                                           instruction |-> i,
                                           amount      |-> amount,
                                           filled      |-> 0]]

(* RiskCheckedExecutor.submit, called by the strategy: approved by risk    *)
(* and accepted by the client.  A blocked order, and one whose trace       *)
(* raises, change nothing.                                                 *)
Submit(n, i, t) ==
    /\ Unused(n)
    /\ Approved(ActiveOrders)
    /\ Track(n, t)
    /\ XSubmit(n, i)
    /\ UNCHANGED <<xfills, xposition, records, gate>>

(* The same call when HummingbotExecutionClient answers "not accepted", or *)
(* raises what it does not catch.                                          *)
SubmitRefused(t) ==
    /\ Approved(ActiveOrders)
    /\ RefusedByClient(t)
    /\ UNCHANGED <<xVars, records, gate>>

-----------------------------------------------------------------------------
(* ReplacementCoordinator.                                                 *)

(* Faulty variant: an order that is over can be replaced.                  *)
RequestAnyOrder(o, i, t) ==
    /\ Healthy
    /\ orders[o].status # "untracked"
    /\ ~Waiting(o)
    /\ records' = [records EXCEPT
                     ![o] = [state           |-> "waiting_for_cancel",
                             instruction     |-> i,
                             trace           |-> t,
                             new             |-> NoOrder,
                             filledAtRequest |-> orders[o].filled,
                             raised          |-> FALSE]]
    /\ UNCHANGED <<orderVars, xVars, gate>>

(* request: adapter.cancel only sends a request, which may get lost.       *)
Request(o, i, t) ==
    /\ Healthy
    /\ Active(orders[o])
    /\ ~Waiting(o)
    /\ records' = [records EXCEPT
                     ![o] = [state           |-> "waiting_for_cancel",
                             instruction     |-> i,
                             trace           |-> t,
                             new             |-> NoOrder,
                             filledAtRequest |-> orders[o].filled,
                             raised          |-> FALSE]]
    /\ UNCHANGED <<orderVars, xVars, gate>>

Resolve(o, state, new) ==
    records' = [records EXCEPT ![o].state = state, ![o].new = new]

Invalidate(o) ==
    IF Waiting(o) THEN Resolve(o, "invalidated", NoOrder) ELSE UNCHANGED records

(* on_cancelled of a waiting record whose old order o is now cancelled, up *)
(* to the call of the client: the gate, the context, the risk engine, and  *)
(* the two stages.                                                         *)
ClientCalled(o) ==
    /\ Healthy
    /\ Approved(ActiveOrders \ {o})
    /\ FreshForSubmit(records[o].trace)
    /\ RecordSubmitStages(records[o].trace)

(* The replacement is submitted in the same handler, as order n.           *)
SubmitReplacement(o, n) ==
    LET r == records[o] IN
    /\ Unused(n)
    /\ ClientCalled(o)
    /\ orders' = [orders EXCEPT ![o].status = "cancelled", ![n] = NewOrder]
    /\ traceOf' = [traceOf EXCEPT ![o] = NoTrace, ![n] = r.trace]
    /\ XSubmit(n, r.instruction)
    /\ Resolve(o, "submitted", n)
    /\ UNCHANGED <<fillIds, position, xfills, xposition>>

(* The client refused the approved replacement.                            *)
ReplacementRefused(o) ==
    /\ ClientCalled(o)
    /\ orders' = [orders EXCEPT ![o].status = "cancelled"]
    /\ PopTrace(o)
    /\ Resolve(o, "failed", NoOrder)
    /\ UNCHANGED <<fillIds, position, xVars>>

(* An exception leaves executor, coordinator and bridge: the record is not *)
(* resolved, the old order's trace not popped.  Before the stages it comes *)
(* from context_provider or latency.record, after them from the client.    *)
ReplacementRaises(o) ==
    /\ Healthy
    /\ UNCHANGED stages \/ ClientCalled(o)
    /\ orders' = [orders EXCEPT ![o].status = "cancelled"]
    /\ records' = [records EXCEPT ![o].raised = TRUE]
    /\ UNCHANGED <<fillIds, position, traceOf, xVars>>

(* A limit blocks the replacement, or the gate is no longer healthy.       *)
ReplacementDropped(o) ==
    /\ OnOrderCancelled(o)
    /\ Resolve(o, IF Healthy THEN "failed" ELSE "invalidated", NoOrder)
    /\ UNCHANGED xVars

-----------------------------------------------------------------------------
(* The connector's events reach the bridge.                                *)

OrderCreated(o) ==
    /\ EverWorked(o)
    /\ OnOrderCreated(o, o)
    /\ UNCHANGED <<xVars, records, gate>>

(* The replacement is invalidated before the processor may raise.          *)
OrderFailed(o) ==
    /\ xorders[o].status \in {"rejected", "lost"}
    /\ \/ OnOrderFailure(o)
       \/ /\ ~UpdateAccepted(orders[o], [orders[o] EXCEPT !.status = "rejected"])
          /\ UNCHANGED orderVars
    /\ Invalidate(o)
    /\ UNCHANGED <<xVars, gate>>

(* The tracker accepts a repeated cancellation.  A record that an exception *)
(* left waiting is then tried again.                                       *)
OrderCancelled(o) ==
    /\ xorders[o].status = "cancelled"
    /\ UpdateAccepted(orders[o], [orders[o] EXCEPT !.status = "cancelled"])
    /\ \/ /\ ~Waiting(o)
          /\ OnOrderCancelled(o)
          /\ UNCHANGED <<xVars, records>>
       \/ /\ Waiting(o)
          /\ \/ ReplacementDropped(o)
             \/ ReplacementRefused(o)
             \/ ReplacementRaises(o)
             \/ \E n \in Orders : SubmitReplacement(o, n)
    /\ UNCHANGED gate

(* Faulty variant: an execution leaves the replacement waiting.            *)
OrderFilledKeepsReplacement(fill) ==
    /\ OnOrderFilled(fill)
    /\ UNCHANGED <<xVars, records, gate>>

OrderFilled(fill) ==
    /\ OnOrderFilled(fill)
    /\ Invalidate(fill.order)
    /\ UNCHANGED <<xVars, gate>>

(* Faulty variant: a completion leaves the replacement waiting.            *)
OrderCompletedKeepsReplacement(o) ==
    /\ xorders[o].status = "filled"
    /\ OnOrderCompleted(o, o)
    /\ UNCHANGED <<xVars, records, gate>>

OrderCompleted(o) ==
    /\ xorders[o].status = "filled"
    /\ OnOrderCompleted(o, o)
    /\ Invalidate(o)
    /\ UNCHANGED <<xVars, gate>>

-----------------------------------------------------------------------------
(* ExecutionReconciler and ReconciliationSyncGate.                         *)

(* No order issue: the four kinds of _order_issues are the negations.      *)
OrdersAgree ==
    \A o \in Orders :
        /\ Active(orders[o]) => XActive(o)
        /\ XActive(o) => /\ orders[o].status # "untracked"
                         /\ ~Terminal(orders[o])
                         /\ orders[o].exchangeId \in {NoId, o}

PositionsAgree == \A c \in Coins : position[c] = xposition[c]

GateMoves(state) ==
    /\ gate' = state
    /\ UNCHANGED <<orderVars, xVars, records>>

GateBegin == GateMoves("grace")

GateReset == GateMoves("unsynchronized")

(* evaluate: nothing is decided before the grace period has passed.        *)
GateEvaluate ==
    /\ gate # "unsynchronized"
    /\ \/ GateMoves("grace")
       \/ GateMoves(IF OrdersAgree /\ PositionsAgree THEN "ready" ELSE "blocked")

-----------------------------------------------------------------------------

LiveTypeOK ==
    /\ TypeOK
    /\ xorders \in [Orders -> XOrder \cup {NoXOrder}]
    /\ xfills \subseteq Fill
    /\ xposition \in [Coins -> Int]
    /\ records \in [Orders -> ReplacementRecord \cup {NoRecord}]
    /\ gate \in GateStates

LiveInit ==
    /\ OrderInit
    /\ xorders = [o \in Orders |-> NoXOrder]
    /\ xfills = {}
    /\ xposition = [c \in Coins |-> 0]
    /\ records = [o \in Orders |-> NoRecord]
    /\ gate = "unsynchronized"

Exchange ==
    \E o \in Orders :
        \/ XAccept(o) \/ XRefuse(o) \/ XCancel(o) \/ XLose(o)
        \/ \E id \in FillIds, quantity \in Quantities : XExecute(o, id, quantity)

Caller ==
    \/ \E t \in Traces : SubmitRefused(t)
    \/ \E o \in Orders, i \in Instructions, t \in Traces \cup {NoTrace} :
          Submit(o, i, t) \/ Request(o, i, t)

Events ==
    \/ \E fill \in xfills : OrderFilled(fill)
    \/ \E o \in Orders : \/ OrderCreated(o)
                         \/ OrderFailed(o)
                         \/ OrderCancelled(o)
                         \/ OrderCompleted(o)

Gate == GateBegin \/ GateReset \/ GateEvaluate

LiveNext == Exchange \/ Caller \/ Events \/ Gate

LiveSpec == LiveInit /\ [][LiveNext]_liveVars

-----------------------------------------------------------------------------

(* max_open_orders holds although two paths place orders and one of them   *)
(* counts the active orders in the middle of a cancellation.               *)
OpenOrderCap == Cardinality(ActiveOrders) <= MaxOpenOrders

(* A replacement order exists only because its old order was confirmed     *)
(* cancelled and had filled nothing more since the replacement was asked   *)
(* for; the exchange does not work the old order any more; and no two      *)
(* records placed the same order.                                          *)
ReplacementFollowsCancel ==
    \A o \in Orders : records[o].state = "submitted" =>
        /\ orders[o].status = "cancelled"
        /\ orders[o].filled = records[o].filledAtRequest
        /\ xorders[o].status = "cancelled"
        /\ orders[records[o].new].status # "untracked"
        /\ xorders[records[o].new].instruction = records[o].instruction
        /\ \A p \in Orders \ {o} :
              records[p].state = "submitted" => records[p].new # records[o].new

(* The replacement of a waiting record may still be placed: its old order  *)
(* filled nothing since the request and can still be cancelled, or it was  *)
(* cancelled and an exception left the handler before the record was       *)
(* resolved.  No other end of an order, no execution and no lost or        *)
(* repeated event leaves a record waiting.                                 *)
(* Hazard: a cancellation that is delivered again places the replacement   *)
(* of such a record, however late.                                         *)
WaitingIsReplaceable ==
    \A o \in Orders : Waiting(o) =>
        /\ orders[o].filled = records[o].filledAtRequest
        /\ IF records[o].raised
             THEN orders[o].status = "cancelled" /\ xorders[o].status = "cancelled"
             ELSE Active(orders[o])

(* What an order has added to the position, and the orders that have.      *)
Signed(o) == IF orders[o].filled = 0 THEN 0
             ELSE xorders[o].instruction.side * orders[o].filled

Filling(c) == {o \in Orders : orders[o].filled > 0 /\ xorders[o].instruction.coin = c}

(* The account's position is what the tracker's orders filled.             *)
PositionIsSumOfFills ==
    \A c \in Coins :
        position[c] = FoldFunctionOnSet(+, 0, [o \in Orders |-> Signed(o)], Filling(c))

-----------------------------------------------------------------------------

Slots == INSTANCE QuoteSlots
            WITH Slots <- MaxOpenOrders,
                 used  <- {o \in Orders : orders[o].status # "untracked"},
                 live  <- ActiveOrders,
                 asked <- {o \in Orders : Waiting(o)}

(* The whole machinery, with lost, repeated and reordered events and       *)
(* handlers that an exception leaves half way, keeps the promise of        *)
(* QuoteSlots.                                                             *)
ReplacesAtomically == Slots!SlotSpec

-----------------------------------------------------------------------------
(* Liveness.  Nothing is assumed of the exchange: a cancel request is sent *)
(* once and may get lost, and then the order works on.  The connector is   *)
(* assumed to deliver what happened, in whatever order, and handlers run   *)
(* to their end or raise.                                                  *)

Delivery(o) ==
    /\ WF_liveVars(OrderCancelled(o))
    /\ WF_liveVars(OrderFailed(o))
    /\ WF_liveVars(OrderCompleted(o))
    /\ WF_liveVars(\E fill \in xfills : fill.order = o /\ OrderFilled(fill))

FairLiveSpec == LiveSpec /\ \A o \in Orders : Delivery(o)

(* However an order ends at the exchange - cancelled, filled, refused or   *)
(* lost - the record that waits for it is submitted, dropped or            *)
(* invalidated once the events are delivered, unless an exception left the *)
(* handler of the cancellation.                                            *)
(* Hazard: a handler that forgets the record blocks every later request.   *)
ReplacementResolves ==
    \A o \in Orders :
        Waiting(o) /\ ~XActive(o) ~> ~Waiting(o) \/ records[o].raised
=============================================================================
