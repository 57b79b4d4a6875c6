---------------------------- MODULE OrderEvents -----------------------------
(***************************************************************************)
(* OrderTracker, ExecutionEventProcessor and the event handlers of         *)
(* HummingbotExecutionEventBridge, driven by any sequence of connector     *)
(* events: events may arrive early, late, twice or never.  A handler that  *)
(* raises leaves the state alone, so it is a disabled action here.         *)
(*                                                                         *)
(* The bridge is single threaded: one handler runs to its end before the   *)
(* next starts, hence one action per handler.                              *)
(***************************************************************************)
EXTENDS OrderState, Sequences, FiniteSets, Functions

CONSTANTS Orders,        \* client order ids
          ExchangeIds,   \* exchange order ids
          FillIds,       \* exchange trade ids
          Coins,
          Quantities,    \* sizes of single fills, in lots
          Traces,        \* latency trace ids
          NoTrace

ASSUME OrderEventsAssumption ==
    /\ IsFiniteSet(Orders)
    /\ Quantities \subseteq Nat \ {0}
    /\ NoTrace \notin Traces
    /\ NoId \notin ExchangeIds

VARIABLES orders,      \* OrderTracker._orders
          fillIds,     \* AccountTracker._fill_ids
          position,    \* AccountTracker._positions, the signed quantity per coin
          traceOf,     \* HummingbotExecutionEventBridge._traces
          stages       \* ExecutionLatencyTracker._traces, stages in the order recorded

orderVars == <<orders, fillIds, position, traceOf, stages>>

Sides == {1, -1}    \* TradeSide.BUY, TradeSide.SELL

Fill == [id : FillIds, order : Orders, coin : Coins, side : Sides,
         quantity : Quantities, exchangeId : ExchangeIds \cup {NoId}]

Stages == {"risk_approved", "order_submitted", "exchange_acknowledged",
           "first_fill"}

Recorded(t, stage) == stage \in Range(stages[t])

(* Faulty variant: sells are booked as buys.                               *)
UnsignedQuantity(fill) == fill.quantity

SignedQuantity(fill) == fill.side * fill.quantity

ActiveOrders == {o \in Orders : Active(orders[o])}

-----------------------------------------------------------------------------

TypeOK ==
    /\ orders \in [Orders -> OrderRecord(ExchangeIds)]
    /\ fillIds \subseteq FillIds
    /\ position \in [Coins -> Int]
    /\ traceOf \in [Orders -> Traces \cup {NoTrace}]
    /\ stages \in [Traces -> Seq(Stages)]

OrderInit ==
    /\ orders = [o \in Orders |-> Untracked]
    /\ fillIds = {}
    /\ position = [c \in Coins |-> 0]
    /\ traceOf = [o \in Orders |-> NoTrace]
    /\ stages = [t \in Traces |-> <<>>]

(* Faulty variant: the tracker stores whatever it is given.                *)
UpdateUnchecked(o, new) == orders' = [orders EXCEPT ![o] = new]

(* OrderTracker.update, guarded by its own checks.                         *)
Update(o, new) ==
    /\ UpdateAccepted(orders[o], new)
    /\ orders' = [orders EXCEPT ![o] = new]

(* ExecutionEventProcessor._record: silent for an untraced order and for a *)
(* stage the trace already has.                                            *)
Record(t, stage) ==
    IF t = NoTrace \/ Recorded(t, stage)
      THEN UNCHANGED stages
      ELSE stages' = [stages EXCEPT ![t] = Append(@, stage)]

(* self._traces.pop(client_order_id, None)                                 *)
PopTrace(o) == traceOf' = [traceOf EXCEPT ![o] = NoTrace]

KnownOr(id, current) == IF id = NoId THEN current ELSE id

-----------------------------------------------------------------------------

(* Faulty variant: recording a stage again does not raise.                 *)
AlwaysFresh(t) == TRUE

(* RiskCheckedExecutor.submit, once the client accepted: tracker.add and   *)
(* the trace binder.  The executor recorded its two stages before the call *)
(* to the client, and latency.record raises on a stage already recorded.   *)
FreshForSubmit(t) ==
    t # NoTrace => /\ ~Recorded(t, "risk_approved")
                   /\ ~Recorded(t, "order_submitted")

RecordSubmitStages(t) ==
    IF t = NoTrace
      THEN UNCHANGED stages
      ELSE stages' = [stages EXCEPT
                        ![t] = @ \o <<"risk_approved", "order_submitted">>]

Track(o, t) ==
    /\ orders[o].status = "untracked"
    /\ FreshForSubmit(t)
    /\ orders' = [orders EXCEPT ![o] = NewOrder]
    /\ traceOf' = [traceOf EXCEPT ![o] = t]
    /\ RecordSubmitStages(t)
    /\ UNCHANGED <<fillIds, position>>

(* The same call when the client did not accept: only the stages stay.     *)
RefusedByClient(t) ==
    /\ t # NoTrace
    /\ FreshForSubmit(t)
    /\ RecordSubmitStages(t)
    /\ UNCHANGED <<orders, fillIds, position, traceOf>>

(* on_order_created -> processor.acknowledge                               *)
OnOrderCreated(o, id) ==
    LET current == orders[o] IN
    /\ current.status \in {"pending", "open", "partially_filled", "filled"}
    /\ Update(o, [current EXCEPT
                    !.status = IF @ = "pending" THEN "open" ELSE @,
                    !.exchangeId = id])
    /\ Record(traceOf[o], "exchange_acknowledged")
    /\ UNCHANGED <<fillIds, position, traceOf>>

(* on_order_failure -> processor.reject                                    *)
OnOrderFailure(o) ==
    /\ Update(o, [orders[o] EXCEPT !.status = "rejected"])
    /\ Record(traceOf[o], "exchange_acknowledged")
    /\ PopTrace(o)
    /\ UNCHANGED <<fillIds, position>>

(* on_order_cancelled -> processor.cancel                                  *)
OnOrderCancelled(o) ==
    /\ Update(o, [orders[o] EXCEPT !.status = "cancelled"])
    /\ PopTrace(o)
    /\ UNCHANGED <<fillIds, position, stages>>

(* Faulty variant: has_fill is not asked, the tracker books a redelivery.  *)
OnOrderFilledTwice(fill) ==
    LET o == fill.order
        current == orders[o] IN
    /\ Update(o, [status     |-> "partially_filled",
                  exchangeId |-> KnownOr(fill.exchangeId, current.exchangeId),
                  filled     |-> current.filled + fill.quantity])
    /\ current.filled < 3
    /\ fillIds' = fillIds \cup {fill.id}
    /\ position' = [position EXCEPT ![fill.coin] = @ + SignedQuantity(fill)]
    /\ UNCHANGED <<traceOf, stages>>

(* on_order_filled -> processor.apply_fill, which the bridge always calls  *)
(* with PARTIALLY_FILLED, then account.apply_fill.                         *)
OnOrderFilled(fill) ==
    LET o == fill.order
        current == orders[o] IN
    /\ fill.id \notin fillIds
    /\ Update(o, [status     |-> "partially_filled",
                  exchangeId |-> KnownOr(fill.exchangeId, current.exchangeId),
                  filled     |-> current.filled + fill.quantity])
    /\ fillIds' = fillIds \cup {fill.id}
    /\ position' = [position EXCEPT ![fill.coin] = @ + SignedQuantity(fill)]
    /\ IF current.filled = 0
         THEN Record(traceOf[o], "first_fill")
         ELSE UNCHANGED stages
    /\ UNCHANGED traceOf

(* on_order_completed -> processor.complete                                *)
OnOrderCompleted(o, id) ==
    LET current == orders[o] IN
    /\ \/ /\ current.status = "filled"
          /\ UNCHANGED orders
       \/ /\ current.status # "filled"
          /\ current.filled > 0
          /\ Update(o, [current EXCEPT !.status = "filled",
                                       !.exchangeId = KnownOr(id, @)])
    /\ PopTrace(o)
    /\ UNCHANGED <<fillIds, position, stages>>

-----------------------------------------------------------------------------

OrderNext ==
    \/ \E o \in Orders, t \in Traces \cup {NoTrace} : Track(o, t)
    \/ \E t \in Traces : RefusedByClient(t)
    \/ \E o \in Orders, id \in ExchangeIds : OnOrderCreated(o, id)
    \/ \E o \in Orders : OnOrderFailure(o)
    \/ \E o \in Orders : OnOrderCancelled(o)
    \/ \E fill \in Fill : OnOrderFilled(fill)
    \/ \E o \in Orders, id \in ExchangeIds \cup {NoId} : OnOrderCompleted(o, id)

OrderSpec == OrderInit /\ [][OrderNext]_orderVars

-----------------------------------------------------------------------------

(* The lifecycle and the fills tell one story: an order that shows fills   *)
(* has some, an order that was refused, or only acknowledged, has none.    *)
(* Hazard: the handlers take events in any order (an acknowledgement after *)
(* a fill must not take the order back to "open").                         *)
StatusMatchesFills ==
    \A o \in Orders :
        /\ orders[o].status \in {"untracked", "pending", "open", "rejected"}
              => orders[o].filled = 0
        /\ orders[o].status \in {"partially_filled", "filled"}
              => orders[o].filled > 0

(* Every step moves the account and the orders together: an execution is   *)
(* booked once, on both sides, with the same size, or on neither.          *)
(* Hazard: the processor updates the tracker first and the account second, *)
(* and redelivered executions must be refused before either.               *)
AccountMovesWithOrders ==
    [][ \/ /\ UNCHANGED <<fillIds, position>>
           /\ \A o \in Orders : orders'[o].filled = orders[o].filled
        \/ \E fill \in Fill :
              /\ fill.id \notin fillIds
              /\ fillIds' = fillIds \cup {fill.id}
              /\ orders[fill.order].status # "untracked"
              /\ \A o \in Orders :
                    orders'[o].filled = orders[o].filled
                       + (IF o = fill.order THEN fill.quantity ELSE 0)
              /\ \A c \in Coins :
                    position'[c] = position[c]
                       + (IF c = fill.coin THEN SignedQuantity(fill) ELSE 0)
      ]_orderVars

(* Whatever the connector delivers when, and whoever shares a trace, the   *)
(* stages of a trace begin with the risk check and the submission and no   *)
(* stage is recorded twice: only the acknowledgement and the first fill    *)
(* can change places, so that of all latencies only the one between them   *)
(* can be negative.                                                        *)
(* Hazard: summary() raises over every trace when one latency is negative. *)
StagesInOrder ==
    \A t \in Traces : stages[t] # <<>> =>
        /\ Len(stages[t]) >= 2
        /\ stages[t][1] = "risk_approved"
        /\ stages[t][2] = "order_submitted"
        /\ IsInjective(stages[t])

(* Once an order is over nothing the connector says revives it or changes  *)
(* what it filled; and the exchange id, once known, never changes.         *)
TerminalIsFinal ==
    [][ \A o \in Orders :
          /\ Terminal(orders[o]) =>
                /\ orders'[o].status = orders[o].status
                /\ orders'[o].filled = orders[o].filled
          /\ orders[o].exchangeId # NoId =>
                orders'[o].exchangeId = orders[o].exchangeId
      ]_orderVars

=============================================================================
