------------------------ MODULE LiveExecutionProofs -------------------------
(***************************************************************************)
(* The live execution core for any number of orders, executions, coins,    *)
(* traces and instructions, and any limits: the tracker, the account and   *)
(* the bridge alone; then with everything around them; when a replacement  *)
(* may exist or be waited for, and that the live machinery implements      *)
(* QuoteSlots; and what the position is.                                   *)
(***************************************************************************)
EXTENDS LiveExecution, ArithmeticProofs, FiniteSetTheorems, TLAPS

-----------------------------------------------------------------------------
(***************************************************************************)
(* The tracker, the account and the bridge, whatever is delivered.         *)
(***************************************************************************)

(* The fields of an execution.                                             *)
LEMMA FillTypes ==
    ASSUME NEW fill \in Fill
    PROVE  /\ fill.order \in Orders
           /\ fill.quantity \in Nat \ {0}
           /\ fill.coin \in Coins
           /\ fill.id \in FillIds
           /\ fill.exchangeId \in ExchangeIds \cup {NoId}
           /\ SignedQuantity(fill) \in Int
<1>1. /\ fill.order \in Orders
      /\ fill.quantity \in Quantities
      /\ fill.coin \in Coins
      /\ fill.id \in FillIds
      /\ fill.exchangeId \in ExchangeIds \cup {NoId}
      /\ fill.side = 1 \/ fill.side = -1
  BY DEF Fill, Sides
<1>2. fill.quantity \in Nat \ {0}
  BY <1>1, OrderEventsAssumption
<1>3. SignedQuantity(fill) \in Int
  BY <1>1, <1>2 DEF SignedQuantity
<1> QED BY <1>1, <1>2, <1>3

LEMMA RecordType ==
    ASSUME NEW t \in Traces \cup {NoTrace}, NEW stage \in Stages,
           stages \in [Traces -> Seq(Stages)], Record(t, stage)
    PROVE  stages' \in [Traces -> Seq(Stages)]
<1>1. CASE t = NoTrace \/ Recorded(t, stage)
  BY <1>1 DEF Record
<1>2. CASE ~(t = NoTrace \/ Recorded(t, stage))
  <2>1. t \in Traces /\ stages[t] \in Seq(Stages)
    BY <1>2
  <2>2. Append(stages[t], stage) \in Seq(Stages)
    BY <2>1
  <2> QED BY <1>2, <2>1, <2>2 DEF Record
<1> QED BY <1>1, <1>2

LEMMA RecordSubmitType ==
    ASSUME NEW t \in Traces \cup {NoTrace},
           stages \in [Traces -> Seq(Stages)], RecordSubmitStages(t)
    PROVE  stages' \in [Traces -> Seq(Stages)]
<1>1. CASE t = NoTrace
  BY <1>1 DEF RecordSubmitStages
<1>2. CASE t # NoTrace
  <2>1. <<"risk_approved", "order_submitted">> \in Seq(Stages)
    BY DEF Stages
  <2>2. t \in Traces /\ stages[t] \in Seq(Stages)
    BY <1>2
  <2>3. stages[t] \o <<"risk_approved", "order_submitted">> \in Seq(Stages)
    BY <2>1, <2>2
  <2> QED BY <1>2, <2>2, <2>3 DEF RecordSubmitStages
<1> QED BY <1>1, <1>2

LEMMA UpdateTypes ==
    ASSUME NEW o \in Orders, NEW new, orders \in [Orders -> OrderRecord(ExchangeIds)],
           new \in OrderRecord(ExchangeIds), Update(o, new)
    PROVE  orders' \in [Orders -> OrderRecord(ExchangeIds)]
BY DEF Update

(* A step of the bridge keeps the types.                                   *)
LEMMA OrderStepTypes ==
    ASSUME TypeOK, [OrderNext]_orderVars
    PROVE  TypeOK'
<1> USE OrderEventsAssumption
<1> USE DEF TypeOK
<1>1. ASSUME NEW o \in Orders, NEW t \in Traces \cup {NoTrace}, Track(o, t)
      PROVE  TypeOK'
  <2>1. stages' \in [Traces -> Seq(Stages)]
    BY <1>1, RecordSubmitType DEF Track
  <2>2. NewOrder \in OrderRecord(ExchangeIds)
    BY DEF NewOrder, OrderRecord, TrackedStatus, OrderStatus
  <2> QED BY <1>1, <2>1, <2>2 DEF Track
<1>2. ASSUME NEW t \in Traces, RefusedByClient(t)
      PROVE  TypeOK'
  BY <1>2, RecordSubmitType DEF RefusedByClient
<1>3. ASSUME NEW o \in Orders, NEW id \in ExchangeIds, OnOrderCreated(o, id)
      PROVE  TypeOK'
  <2>1. stages' \in [Traces -> Seq(Stages)]
    BY <1>3, RecordType DEF OnOrderCreated, Stages
  <2> DEFINE new == [orders[o] EXCEPT
                       !.status = IF @ = "pending" THEN "open" ELSE @,
                       !.exchangeId = id]
  <2>2. new \in OrderRecord(ExchangeIds)
    <3>1. orders[o] \in OrderRecord(ExchangeIds)
      OBVIOUS
    <3> QED BY <3>1 DEF OrderRecord, TrackedStatus, OrderStatus
  <2>3. Update(o, new)
    BY <1>3 DEF OnOrderCreated
  <2>4. orders' \in [Orders -> OrderRecord(ExchangeIds)]
    <3> HIDE DEF new
    <3> QED BY <2>2, <2>3, UpdateTypes
  <2> QED BY <1>3, <2>1, <2>4 DEF OnOrderCreated
<1>4. ASSUME NEW o \in Orders, OnOrderFailure(o)
      PROVE  TypeOK'
  <2>1. stages' \in [Traces -> Seq(Stages)]
    BY <1>4, RecordType DEF OnOrderFailure, Stages
  <2>2. [orders[o] EXCEPT !.status = "rejected"] \in OrderRecord(ExchangeIds)
    BY DEF OrderRecord, TrackedStatus, OrderStatus
  <2>3. orders' \in [Orders -> OrderRecord(ExchangeIds)]
    BY <1>4, <2>2, UpdateTypes DEF OnOrderFailure
  <2> QED BY <1>4, <2>1, <2>3 DEF OnOrderFailure, PopTrace
<1>5. ASSUME NEW o \in Orders, OnOrderCancelled(o)
      PROVE  TypeOK'
  <2>1. [orders[o] EXCEPT !.status = "cancelled"] \in OrderRecord(ExchangeIds)
    BY DEF OrderRecord, TrackedStatus, OrderStatus
  <2>2. orders' \in [Orders -> OrderRecord(ExchangeIds)]
    BY <1>5, <2>1, UpdateTypes DEF OnOrderCancelled
  <2> QED BY <1>5, <2>2 DEF OnOrderCancelled, PopTrace
<1>6. ASSUME NEW fill \in Fill, OnOrderFilled(fill)
      PROVE  TypeOK'
  <2> DEFINE o == fill.order
  <2>1. o \in Orders /\ fill.quantity \in Nat /\ fill.coin \in Coins
        /\ fill.id \in FillIds /\ SignedQuantity(fill) \in Int
        /\ fill.exchangeId \in ExchangeIds \cup {NoId}
    BY FillTypes
  <2>2. stages' \in [Traces -> Seq(Stages)]
    BY <1>6, <2>1, RecordType DEF OnOrderFilled, Stages
  <2>3. orders' \in [Orders -> OrderRecord(ExchangeIds)]
    BY <1>6, <2>1 DEF OnOrderFilled, Update, KnownOr, OrderRecord, TrackedStatus, OrderStatus
  <2> QED BY <1>6, <2>1, <2>2, <2>3 DEF OnOrderFilled
<1>7. ASSUME NEW o \in Orders, NEW id \in ExchangeIds \cup {NoId},
             OnOrderCompleted(o, id)
      PROVE  TypeOK'
  <2>1. traceOf' \in [Orders -> Traces \cup {NoTrace}]
    BY <1>7 DEF OnOrderCompleted, PopTrace
  <2>2. orders' \in [Orders -> OrderRecord(ExchangeIds)]
    <3>1. CASE UNCHANGED orders
      BY <3>1
    <3>2. CASE Update(o, [orders[o] EXCEPT !.status = "filled",
                                           !.exchangeId = KnownOr(id, @)])
      <4>1. KnownOr(id, orders[o].exchangeId) \in ExchangeIds \cup {NoId}
        BY DEF KnownOr, OrderRecord
      <4> QED
        BY <3>2, <4>1 DEF Update, OrderRecord, TrackedStatus, OrderStatus
    <3> QED BY <1>7, <3>1, <3>2 DEF OnOrderCompleted
  <2> QED BY <1>7, <2>1, <2>2 DEF OnOrderCompleted
<1>8. CASE UNCHANGED orderVars
  BY <1>8 DEF orderVars
<1> QED
  BY <1>1, <1>2, <1>3, <1>4, <1>5, <1>6, <1>7, <1>8 DEF OrderNext

(* TypeOK: the state stays within its types.                               *)
THEOREM OrderTypes == OrderSpec => []TypeOK
<1>1. OrderInit => TypeOK
  BY DEF OrderInit, TypeOK, OrderRecord, Untracked, TrackedStatus, OrderStatus
<1>2. TypeOK /\ [OrderNext]_orderVars => TypeOK'
  BY OrderStepTypes
<1> QED BY <1>1, <1>2, PTL DEF OrderSpec

-----------------------------------------------------------------------------

(* What a step can do to one order: nothing, start it, or replace it by a  *)
(* record the tracker accepts, which has filled more only if it is left    *)
(* partially filled.                                                       *)
OrderMoves(o) ==
    \/ orders'[o] = orders[o]
    \/ orders[o].status = "untracked" /\ orders'[o] = NewOrder
    \/ /\ UpdateAccepted(orders[o], orders'[o])
       /\ orders'[o].filled # orders[o].filled
             => orders'[o].status = "partially_filled"
       /\ orders'[o].status = "open" => orders[o].status \in {"open", "pending"}
       /\ orders'[o].status # "pending" \/ orders[o].status = "pending"

LEMMA StepMovesOrders ==
    ASSUME TypeOK, [OrderNext]_orderVars
    PROVE  \A o \in Orders : OrderMoves(o)
<1> SUFFICES ASSUME NEW p \in Orders PROVE OrderMoves(p)
  OBVIOUS
<1> USE DEF OrderMoves
<1>0. orders \in [Orders -> OrderRecord(ExchangeIds)]
  BY DEF TypeOK
<1>1. ASSUME NEW o \in Orders, NEW t \in Traces \cup {NoTrace}, Track(o, t)
      PROVE  OrderMoves(p)
  BY <1>0, <1>1 DEF Track
<1>2. ASSUME NEW t \in Traces, RefusedByClient(t)
      PROVE  OrderMoves(p)
  BY <1>2 DEF RefusedByClient
<1>3. ASSUME NEW o \in Orders, NEW id \in ExchangeIds, OnOrderCreated(o, id)
      PROVE  OrderMoves(p)
  BY <1>0, <1>3 DEF OnOrderCreated, Update, OrderRecord
<1>4. ASSUME NEW o \in Orders, OnOrderFailure(o)
      PROVE  OrderMoves(p)
  BY <1>0, <1>4 DEF OnOrderFailure, Update, OrderRecord
<1>5. ASSUME NEW o \in Orders, OnOrderCancelled(o)
      PROVE  OrderMoves(p)
  BY <1>0, <1>5 DEF OnOrderCancelled, Update, OrderRecord
<1>6. ASSUME NEW fill \in Fill, OnOrderFilled(fill)
      PROVE  OrderMoves(p)
  BY <1>0, <1>6, FillTypes DEF OnOrderFilled, Update, OrderRecord
<1>7. ASSUME NEW o \in Orders, NEW id \in ExchangeIds \cup {NoId},
             OnOrderCompleted(o, id)
      PROVE  OrderMoves(p)
  <2> DEFINE done == [orders[o] EXCEPT !.status = "filled", !.exchangeId = KnownOr(id, @)]
  <2>1. CASE UNCHANGED orders
    BY <2>1
  <2>2. CASE Update(o, done)
    <3>1. done.filled = orders[o].filled /\ done.status = "filled"
      BY <1>0 DEF OrderRecord
    <3>2. UpdateAccepted(orders[o], done) /\ orders' = [orders EXCEPT ![o] = done]
      BY <2>2 DEF Update
    <3> HIDE DEF done
    <3> QED BY <1>0, <3>1, <3>2
  <2> QED BY <1>7, <2>1, <2>2 DEF OnOrderCompleted
<1>8. CASE UNCHANGED orderVars
  BY <1>8 DEF orderVars
<1> QED
  BY <1>1, <1>2, <1>3, <1>4, <1>5, <1>6, <1>7, <1>8 DEF OrderNext

LEMMA MovesKeepFills ==
    ASSUME TypeOK, StatusMatchesFills, \A o \in Orders : OrderMoves(o)
    PROVE  StatusMatchesFills'
<1> SUFFICES ASSUME NEW o \in Orders
             PROVE  /\ orders'[o].status \in {"untracked", "pending", "open", "rejected"}
                          => orders'[o].filled = 0
                    /\ orders'[o].status \in {"partially_filled", "filled"}
                          => orders'[o].filled > 0
  BY DEF StatusMatchesFills
<1>1. orders[o] \in OrderRecord(ExchangeIds) /\ OrderMoves(o)
  BY DEF TypeOK
<1>2. CASE orders'[o] = orders[o]
  BY <1>2 DEF StatusMatchesFills
<1>3. CASE orders'[o] = NewOrder
  BY <1>3 DEF NewOrder
<1>4. CASE /\ UpdateAccepted(orders[o], orders'[o])
           /\ orders'[o].filled # orders[o].filled
                 => orders'[o].status = "partially_filled"
           /\ orders'[o].status = "open" => orders[o].status \in {"open", "pending"}
           /\ orders'[o].status # "pending" \/ orders[o].status = "pending"
  <2>1. WellFormed(orders'[o])
    BY <1>4 DEF UpdateAccepted
  <2>2. orders'[o].status # "untracked"
    BY <1>1, <1>4 DEF UpdateAccepted, ValidTransition, AllowedTransitions,
                      OrderRecord, TrackedStatus, OrderStatus
  <2> QED BY <1>4, <2>1, <2>2 DEF WellFormed, StatusMatchesFills
<1> QED BY <1>1, <1>2, <1>3, <1>4 DEF OrderMoves

(* StatusMatchesFills: an order that shows fills has some, an order that   *)
(* was refused or only acknowledged has none, whatever the event order.    *)
THEOREM FillsMatchStatus == OrderSpec => []StatusMatchesFills
<1>1. OrderInit => StatusMatchesFills
  BY DEF OrderInit, StatusMatchesFills, Untracked
<1>2. TypeOK /\ StatusMatchesFills /\ [OrderNext]_orderVars => StatusMatchesFills'
  BY StepMovesOrders, MovesKeepFills
<1> QED BY <1>1, <1>2, OrderTypes, PTL DEF OrderSpec

(* An id the tracker does not know has no leftovers of an earlier order:   *)
(* what TerminalIsFinal needs when such an id becomes an order.            *)
UntrackedIsBlank ==
    \A o \in Orders : orders[o].status = "untracked" => orders[o] = Untracked

LEMMA MovesKeepBlank ==
    ASSUME TypeOK, UntrackedIsBlank, \A o \in Orders : OrderMoves(o)
    PROVE  UntrackedIsBlank'
<1> SUFFICES ASSUME NEW o \in Orders, orders'[o].status = "untracked"
             PROVE  orders'[o] = orders[o]
  BY DEF UntrackedIsBlank
<1>1. OrderMoves(o) /\ orders[o] \in OrderRecord(ExchangeIds)
  BY DEF TypeOK
<1>2. orders'[o] # NewOrder
  BY DEF NewOrder
<1>3. ~UpdateAccepted(orders[o], orders'[o])
  BY <1>1 DEF UpdateAccepted, ValidTransition, AllowedTransitions,
              OrderRecord, TrackedStatus, OrderStatus
<1> QED BY <1>1, <1>2, <1>3 DEF OrderMoves

LEMMA UntrackedStaysBlank == OrderSpec => []UntrackedIsBlank
<1>1. OrderInit => UntrackedIsBlank
  BY DEF OrderInit, UntrackedIsBlank
<1>2. TypeOK /\ UntrackedIsBlank /\ [OrderNext]_orderVars => UntrackedIsBlank'
  BY StepMovesOrders, MovesKeepBlank
<1> QED BY <1>1, <1>2, OrderTypes, PTL DEF OrderSpec

LEMMA MovesKeepTerminal ==
    ASSUME TypeOK, UntrackedIsBlank, NEW o \in Orders, OrderMoves(o)
    PROVE  /\ Terminal(orders[o]) =>
                 /\ orders'[o].status = orders[o].status
                 /\ orders'[o].filled = orders[o].filled
           /\ orders[o].exchangeId # NoId =>
                 orders'[o].exchangeId = orders[o].exchangeId
<1>1. CASE orders'[o] = orders[o]
  BY <1>1
<1>2. CASE orders[o].status = "untracked"
  BY <1>2 DEF UntrackedIsBlank, Untracked, Terminal, TerminalStatuses
<1>3. CASE /\ UpdateAccepted(orders[o], orders'[o])
           /\ orders'[o].filled # orders[o].filled
                 => orders'[o].status = "partially_filled"
  <2>1. ValidTransition(orders[o].status, orders'[o].status)
    BY <1>3 DEF UpdateAccepted
  <2>2. Terminal(orders[o]) => orders'[o].status = orders[o].status
    BY <2>1 DEF ValidTransition, AllowedTransitions, Terminal, TerminalStatuses
  <2>3. Terminal(orders[o]) => orders'[o].status # "partially_filled"
    BY <2>2 DEF Terminal, TerminalStatuses
  <2> QED BY <1>3, <2>2, <2>3 DEF UpdateAccepted
<1> QED BY <1>1, <1>2, <1>3 DEF OrderMoves

(* TerminalIsFinal: no event revives an order that is over or changes what *)
(* it filled, and a known exchange id stays.                               *)
THEOREM TerminalStays == OrderSpec => TerminalIsFinal
<1>1. TypeOK /\ UntrackedIsBlank /\ [OrderNext]_orderVars =>
        [\A o \in Orders :
           /\ Terminal(orders[o]) =>
                 /\ orders'[o].status = orders[o].status
                 /\ orders'[o].filled = orders[o].filled
           /\ orders[o].exchangeId # NoId =>
                 orders'[o].exchangeId = orders[o].exchangeId]_orderVars
  BY StepMovesOrders, MovesKeepTerminal
<1> QED BY <1>1, OrderTypes, UntrackedStaysBlank, PTL DEF OrderSpec, TerminalIsFinal

(* One step of AccountMovesWithOrders.                                     *)
Together ==
    \/ /\ UNCHANGED <<fillIds, position>>
       /\ \A o \in Orders : orders'[o].filled = orders[o].filled
    \/ \E fill \in Fill :
          /\ fill.id \notin fillIds
          /\ fillIds' = fillIds \cup {fill.id}
          /\ orders[fill.order].status # "untracked"
          /\ \A o \in Orders :
                orders'[o].filled = orders[o].filled
                   + (IF o = fill.order THEN fill.quantity ELSE 0)
          /\ \A c \in Coins :
                position'[c] = position[c]
                   + (IF c = fill.coin THEN SignedQuantity(fill) ELSE 0)

(* A step of the bridge books tracker and account together.                *)
LEMMA OrderStepTogether ==
    ASSUME TypeOK, UntrackedIsBlank, [OrderNext]_orderVars
    PROVE  [Together]_orderVars
<1> SUFFICES ASSUME OrderNext PROVE Together
  OBVIOUS
<1> USE DEF Together
<1>0. orders \in [Orders -> OrderRecord(ExchangeIds)] /\ position \in [Coins -> Int]
  BY DEF TypeOK
<1>1. ASSUME NEW o \in Orders, NEW t \in Traces \cup {NoTrace}, Track(o, t)
      PROVE  Together
  <2>1. orders[o].filled = 0
    BY <1>1 DEF Track, UntrackedIsBlank, Untracked
  <2> QED BY <1>0, <1>1, <2>1 DEF Track, NewOrder
<1>2. ASSUME NEW t \in Traces, RefusedByClient(t)
      PROVE  Together
  BY <1>2 DEF RefusedByClient
<1>3. ASSUME NEW o \in Orders, NEW id \in ExchangeIds, OnOrderCreated(o, id)
      PROVE  Together
  BY <1>0, <1>3 DEF OnOrderCreated, Update, OrderRecord
<1>4. ASSUME NEW o \in Orders, OnOrderFailure(o)
      PROVE  Together
  BY <1>0, <1>4 DEF OnOrderFailure, Update, OrderRecord
<1>5. ASSUME NEW o \in Orders, OnOrderCancelled(o)
      PROVE  Together
  BY <1>0, <1>5 DEF OnOrderCancelled, Update, OrderRecord
<1>6. ASSUME NEW fill \in Fill, OnOrderFilled(fill)
      PROVE  Together
  <2>1. /\ fill.id \notin fillIds
        /\ fillIds' = fillIds \cup {fill.id}
        /\ orders[fill.order].status # "untracked"
    BY <1>6 DEF OnOrderFilled, Update, UpdateAccepted
  <2>2. ASSUME NEW o \in Orders
        PROVE  orders'[o].filled = orders[o].filled
                  + (IF o = fill.order THEN fill.quantity ELSE 0)
    BY <1>0, <1>6, FillTypes DEF OnOrderFilled, Update, OrderRecord
  <2>3. ASSUME NEW c \in Coins
        PROVE  position'[c] = position[c]
                  + (IF c = fill.coin THEN SignedQuantity(fill) ELSE 0)
    BY <1>0, <1>6, FillTypes DEF OnOrderFilled
  <2> QED BY <2>1, <2>2, <2>3
<1>7. ASSUME NEW o \in Orders, NEW id \in ExchangeIds \cup {NoId},
             OnOrderCompleted(o, id)
      PROVE  Together
  <2> DEFINE done == [orders[o] EXCEPT !.status = "filled", !.exchangeId = KnownOr(id, @)]
  <2>1. orders' = orders \/ orders' = [orders EXCEPT ![o] = done]
    BY <1>7 DEF OnOrderCompleted, Update
  <2>2. done.filled = orders[o].filled
    BY <1>0 DEF OrderRecord
  <2> HIDE DEF done
  <2>3. \A p \in Orders : orders'[p].filled = orders[p].filled
    BY <1>0, <2>1, <2>2
  <2> QED BY <1>7, <2>3 DEF OnOrderCompleted
<1> QED
  BY <1>1, <1>2, <1>3, <1>4, <1>5, <1>6, <1>7 DEF OrderNext

(* AccountMovesWithOrders: an execution is booked once, in the tracker and *)
(* in the account, with the same size, or in neither.                      *)
THEOREM AccountFollowsOrders == OrderSpec => AccountMovesWithOrders
<1>1. TypeOK /\ UntrackedIsBlank /\ [OrderNext]_orderVars => [Together]_orderVars
  BY OrderStepTogether
<1> QED BY <1>1, OrderTypes, UntrackedStaysBlank, PTL DEF OrderSpec, AccountMovesWithOrders, Together

-----------------------------------------------------------------------------
(***************************************************************************)
(* The executor, the coordinator, the gate and the exchange around them.   *)
(***************************************************************************)

(* The steps of LiveNext, one name per handler.                            *)
LEMMA LiveCases ==
    ASSUME LiveNext
    PROVE  \/ \E o \in Orders : XAccept(o) \/ XRefuse(o) \/ XCancel(o) \/ XLose(o)
           \/ \E o \in Orders, id \in FillIds, quantity \in Quantities :
                 XExecute(o, id, quantity)
           \/ \E t \in Traces : SubmitRefused(t)
           \/ \E o \in Orders, i \in Instructions, t \in Traces \cup {NoTrace} :
                 Submit(o, i, t) \/ Request(o, i, t)
           \/ \E fill \in xfills : OrderFilled(fill)
           \/ \E o \in Orders : \/ OrderCreated(o)
                                \/ OrderFailed(o)
                                \/ OrderCancelled(o)
                                \/ OrderCompleted(o)
           \/ GateBegin \/ GateReset \/ GateEvaluate
BY DEF LiveNext, Exchange, Caller, Events, Gate

(* Every handler but the three that submit a replacement is a step of      *)
(* OrderEvents; those three are spelled out in LiveExecution.              *)
LEMMA OrderSteps ==
    ASSUME LiveNext, xfills \subseteq Fill
    PROVE  \/ [OrderNext]_orderVars
           \/ \E o \in Orders : /\ Waiting(o)
                                /\ UpdateAccepted(orders[o],
                                      [orders[o] EXCEPT !.status = "cancelled"])
                                /\ \/ \E n \in Orders : SubmitReplacement(o, n)
                                   \/ ReplacementRefused(o)
                                   \/ ReplacementRaises(o)
<1>1. ASSUME NEW o \in Orders, XAccept(o) \/ XRefuse(o) \/ XCancel(o) \/ XLose(o)
      PROVE  UNCHANGED orderVars
  BY <1>1 DEF XAccept, XRefuse, XCancel, XLose, XMove
<1>2. ASSUME NEW o \in Orders, NEW id \in FillIds, NEW quantity \in Quantities,
             XExecute(o, id, quantity)
      PROVE  UNCHANGED orderVars
  BY <1>2 DEF XExecute
<1>3. ASSUME NEW t \in Traces, SubmitRefused(t)
      PROVE  OrderNext
  BY <1>3 DEF SubmitRefused, OrderNext
<1>4. ASSUME NEW o \in Orders, NEW i \in Instructions,
             NEW t \in Traces \cup {NoTrace}, Submit(o, i, t)
      PROVE  OrderNext
  BY <1>4 DEF Submit, OrderNext
<1>5. ASSUME NEW o \in Orders, NEW i \in Instructions,
             NEW t \in Traces \cup {NoTrace}, Request(o, i, t)
      PROVE  UNCHANGED orderVars
  BY <1>5 DEF Request
<1>6. ASSUME NEW fill \in xfills, OrderFilled(fill)
      PROVE  OrderNext
  BY <1>6 DEF OrderFilled, OrderNext
<1>7. ASSUME NEW o \in Orders, OrderCreated(o)
      PROVE  OrderNext
  BY <1>7, LiveAssumption DEF OrderCreated, OrderNext
<1>8. ASSUME NEW o \in Orders, OrderFailed(o)
      PROVE  [OrderNext]_orderVars
  BY <1>8 DEF OrderFailed, OrderNext
<1>9. ASSUME NEW o \in Orders, OrderCancelled(o)
      PROVE  \/ OrderNext
             \/ /\ Waiting(o)
                /\ UpdateAccepted(orders[o], [orders[o] EXCEPT !.status = "cancelled"])
                /\ \/ \E n \in Orders : SubmitReplacement(o, n)
                   \/ ReplacementRefused(o)
                   \/ ReplacementRaises(o)
  BY <1>9 DEF OrderCancelled, ReplacementDropped, OrderNext
<1>10. ASSUME NEW o \in Orders, OrderCompleted(o)
       PROVE  OrderNext
  BY <1>10, LiveAssumption DEF OrderCompleted, OrderNext
<1>11. ASSUME GateBegin \/ GateReset \/ GateEvaluate
       PROVE  UNCHANGED orderVars
  BY <1>11 DEF GateBegin, GateReset, GateEvaluate, GateMoves
<1> QED
  BY LiveCases, <1>1, <1>2, <1>3, <1>4, <1>5, <1>6, <1>7, <1>8, <1>9, <1>10, <1>11

-----------------------------------------------------------------------------

(* A waiting record is a record.                                           *)
LEMMA WaitingRecord ==
    ASSUME LiveTypeOK, NEW o \in Orders, Waiting(o)
    PROVE  records[o] \in ReplacementRecord
BY DEF LiveTypeOK, Waiting, NoRecord

LEMMA ResolveTypes ==
    ASSUME LiveTypeOK, NEW o \in Orders, Waiting(o),
           NEW state \in ReplacementStates, NEW new \in Orders \cup {NoOrder},
           Resolve(o, state, new)
    PROVE  records' \in [Orders -> ReplacementRecord \cup {NoRecord}]
<1>1. records[o] \in ReplacementRecord
  BY WaitingRecord
<1>2. [records[o] EXCEPT !.state = state, !.new = new] \in ReplacementRecord
  BY <1>1 DEF ReplacementRecord
<1> QED BY <1>2 DEF Resolve, LiveTypeOK

LEMMA RaisedTypes ==
    ASSUME LiveTypeOK, NEW o \in Orders, Waiting(o), ReplacementRaises(o)
    PROVE  records' \in [Orders -> ReplacementRecord \cup {NoRecord}]
<1>1. [records[o] EXCEPT !.raised = TRUE] \in ReplacementRecord
  BY WaitingRecord DEF ReplacementRecord
<1> QED BY <1>1 DEF ReplacementRaises, LiveTypeOK

LEMMA InvalidateTypes ==
    ASSUME LiveTypeOK, NEW o \in Orders, Invalidate(o)
    PROVE  records' \in [Orders -> ReplacementRecord \cup {NoRecord}]
<1>1. CASE Waiting(o)
  BY <1>1, ResolveTypes DEF Invalidate, ReplacementStates
<1>2. CASE ~Waiting(o)
  BY <1>2 DEF Invalidate, LiveTypeOK
<1> QED BY <1>1, <1>2

(* The two halves of LiveTypeOK: what the bridge changes, and the rest.    *)
LEMMA LiveStepOrderTypes ==
    ASSUME LiveTypeOK, LiveNext
    PROVE  TypeOK'
<1> USE DEF LiveTypeOK
<1>1. CASE [OrderNext]_orderVars
  BY <1>1, OrderStepTypes
<1>2. ASSUME NEW o \in Orders, Waiting(o), NEW n \in Orders, SubmitReplacement(o, n)
      PROVE  TypeOK'
  <2>1. records[o].trace \in Traces \cup {NoTrace}
    BY <1>2, WaitingRecord DEF ReplacementRecord
  <2>2. stages' \in [Traces -> Seq(Stages)]
    BY <1>2, <2>1, RecordSubmitType DEF SubmitReplacement, ClientCalled, TypeOK
  <2>3. orders' \in [Orders -> OrderRecord(ExchangeIds)]
    <3>1. NewOrder \in OrderRecord(ExchangeIds)
      BY DEF NewOrder, OrderRecord, TrackedStatus, OrderStatus
    <3>2. [orders[o] EXCEPT !.status = "cancelled"] \in OrderRecord(ExchangeIds)
      BY DEF TypeOK, OrderRecord, TrackedStatus, OrderStatus
    <3>3. orders' = [orders EXCEPT ![o].status = "cancelled", ![n] = NewOrder]
      BY <1>2 DEF SubmitReplacement
    <3> QED BY <3>1, <3>2, <3>3 DEF TypeOK
  <2>4. traceOf' \in [Orders -> Traces \cup {NoTrace}]
    BY <1>2, <2>1 DEF SubmitReplacement, TypeOK
  <2> QED BY <1>2, <2>2, <2>3, <2>4 DEF SubmitReplacement, TypeOK
<1>3. ASSUME NEW o \in Orders, Waiting(o), ReplacementRefused(o)
      PROVE  TypeOK'
  <2>1. records[o].trace \in Traces \cup {NoTrace}
    BY <1>3, WaitingRecord DEF ReplacementRecord
  <2>2. stages' \in [Traces -> Seq(Stages)]
    BY <1>3, <2>1, RecordSubmitType DEF ReplacementRefused, ClientCalled, TypeOK
  <2> QED
    BY <1>3, <2>2 DEF ReplacementRefused, PopTrace, TypeOK, OrderRecord,
                      TrackedStatus, OrderStatus
<1>4. ASSUME NEW o \in Orders, Waiting(o), ReplacementRaises(o)
      PROVE  TypeOK'
  <2>1. records[o].trace \in Traces \cup {NoTrace}
    BY <1>4, WaitingRecord DEF ReplacementRecord
  <2>2. stages' \in [Traces -> Seq(Stages)]
    BY <1>4, <2>1, RecordSubmitType DEF ReplacementRaises, ClientCalled, TypeOK
  <2> QED
    BY <1>4, <2>2 DEF ReplacementRaises, TypeOK, OrderRecord, TrackedStatus, OrderStatus
<1> QED BY OrderSteps, <1>1, <1>2, <1>3, <1>4

LEMMA LiveStepOtherTypes ==
    ASSUME LiveTypeOK, LiveNext
    PROVE  /\ xorders' \in [Orders -> XOrder \cup {NoXOrder}]
           /\ xfills' \subseteq Fill
           /\ xposition' \in [Coins -> Int]
           /\ records' \in [Orders -> ReplacementRecord \cup {NoRecord}]
           /\ gate' \in GateStates
<1> DEFINE Goal == /\ xorders' \in [Orders -> XOrder \cup {NoXOrder}]
                   /\ xfills' \subseteq Fill
                   /\ xposition' \in [Coins -> Int]
                   /\ records' \in [Orders -> ReplacementRecord \cup {NoRecord}]
                   /\ gate' \in GateStates
<1> USE DEF LiveTypeOK
<1>1. ASSUME NEW o \in Orders, XAccept(o) \/ XRefuse(o) \/ XCancel(o) \/ XLose(o)
      PROVE  Goal
  <2>1. PICK to \in XStatus \ {"none"} :
           /\ xorders[o].status # "none"
           /\ xorders' = [xorders EXCEPT ![o].status = to]
           /\ UNCHANGED <<xfills, xposition, records, gate>>
    BY <1>1 DEF XAccept, XRefuse, XCancel, XLose, XMove, XStatus
  <2>2. xorders[o] \in XOrder
    BY <2>1 DEF NoXOrder
  <2>3. [xorders[o] EXCEPT !.status = to] \in XOrder
    BY <2>2 DEF XOrder
  <2> QED BY <2>1, <2>3
<1>2. ASSUME NEW o \in Orders, NEW id \in FillIds, NEW quantity \in Quantities,
             XExecute(o, id, quantity)
      PROVE  Goal
  <2> DEFINE i == xorders[o].instruction
             fill == [id |-> id, order |-> o, coin |-> i.coin, side |-> i.side,
                      quantity |-> quantity, exchangeId |-> o]
  <2>1. xorders[o] \in XOrder
    BY <1>2 DEF XExecute, NoXOrder
  <2>2. i \in Instruction /\ quantity \in Nat /\ xorders[o].filled + quantity \in Nat
    BY <2>1, LiveAssumption, OrderEventsAssumption DEF XOrder
  <2>3. fill \in Fill
    BY <2>2, LiveAssumption DEF Fill, Instruction
  <2>4. xfills' = xfills \cup {fill} /\ UNCHANGED <<records, gate>>
    BY <1>2 DEF XExecute
  <2>5. xposition' \in [Coins -> Int]
    <3>1. xposition' = [xposition EXCEPT ![i.coin] = @ + SignedQuantity(fill)]
      BY <1>2 DEF XExecute
    <3>2. SignedQuantity(fill) \in Int
      BY <2>3, FillTypes
    <3>3. i.coin \in Coins
      BY <2>2 DEF Instruction
    <3> HIDE DEF fill, i
    <3> QED BY <3>1, <3>2, <3>3
  <2>6. xorders' \in [Orders -> XOrder \cup {NoXOrder}]
    <3>1. [xorders[o] EXCEPT
             !.filled = @ + quantity,
             !.status = IF xorders[o].filled + quantity = xorders[o].amount
                          THEN "filled" ELSE @] \in XOrder
      BY <2>1, <2>2 DEF XOrder, XStatus
    <3> QED BY <1>2, <3>1 DEF XExecute
  <2> QED BY <2>3, <2>4, <2>5, <2>6
<1>3. ASSUME NEW t \in Traces, SubmitRefused(t)
      PROVE  Goal
  BY <1>3 DEF SubmitRefused, xVars
<1>4. ASSUME NEW o \in Orders, NEW i \in Instructions,
             NEW t \in Traces \cup {NoTrace}, Submit(o, i, t)
      PROVE  Goal
  <2>1. \A amount \in Amounts :
           [status |-> "submitted", instruction |-> i, amount |-> amount,
            filled |-> 0] \in XOrder
    BY DEF XOrder, XStatus
  <2> QED BY <1>4, <2>1 DEF Submit, XSubmit
<1>5. ASSUME NEW o \in Orders, NEW i \in Instructions,
             NEW t \in Traces \cup {NoTrace}, Request(o, i, t)
      PROVE  Goal
  <2>1. orders[o].filled \in Nat
    BY DEF TypeOK, OrderRecord
  <2>2. [state |-> "waiting_for_cancel", instruction |-> i, trace |-> t, new |-> NoOrder,
         filledAtRequest |-> orders[o].filled, raised |-> FALSE] \in ReplacementRecord
    BY <2>1 DEF ReplacementRecord, ReplacementStates
  <2> QED BY <1>5, <2>2 DEF Request, xVars
<1>6. ASSUME NEW fill \in xfills, OrderFilled(fill)
      PROVE  Goal
  BY <1>6, FillTypes, InvalidateTypes DEF OrderFilled, xVars
<1>7. ASSUME NEW o \in Orders, OrderCreated(o)
      PROVE  Goal
  BY <1>7 DEF OrderCreated, xVars
<1>8. ASSUME NEW o \in Orders, OrderFailed(o)
      PROVE  Goal
  BY <1>8, InvalidateTypes DEF OrderFailed, xVars
<1>9. ASSUME NEW o \in Orders, OrderCancelled(o)
      PROVE  Goal
  <2>1. UNCHANGED <<xfills, xposition, gate>>
    BY <1>9 DEF OrderCancelled, ReplacementDropped, ReplacementRefused,
                ReplacementRaises, SubmitReplacement, xVars
  <2>2. records' \in [Orders -> ReplacementRecord \cup {NoRecord}]
    BY <1>9, ResolveTypes, RaisedTypes
       DEF OrderCancelled, ReplacementDropped, ReplacementRefused, SubmitReplacement,
           ReplacementStates, LiveTypeOK
  <2>3. xorders' \in [Orders -> XOrder \cup {NoXOrder}]
    <3>1. ASSUME NEW n \in Orders, Waiting(o), SubmitReplacement(o, n)
          PROVE  xorders' \in [Orders -> XOrder \cup {NoXOrder}]
      <4>1. records[o].instruction \in Instructions
        BY <3>1, WaitingRecord DEF ReplacementRecord
      <4>2. \A amount \in Amounts :
               [status |-> "submitted", instruction |-> records[o].instruction,
                amount |-> amount, filled |-> 0] \in XOrder
        BY <4>1 DEF XOrder, XStatus
      <4> QED BY <3>1, <4>2 DEF SubmitReplacement, XSubmit
    <3> QED
      BY <1>9, <3>1 DEF OrderCancelled, ReplacementDropped, ReplacementRefused,
                ReplacementRaises, xVars
  <2> QED BY <2>1, <2>2, <2>3
<1>10. ASSUME NEW o \in Orders, OrderCompleted(o)
       PROVE  Goal
  BY <1>10, InvalidateTypes DEF OrderCompleted, xVars
<1>11. ASSUME GateBegin \/ GateReset \/ GateEvaluate
       PROVE  Goal
  BY <1>11 DEF GateBegin, GateReset, GateEvaluate, GateMoves, GateStates, xVars
<1> QED
  BY LiveCases, <1>1, <1>2, <1>3, <1>4, <1>5, <1>6, <1>7, <1>8, <1>9, <1>10, <1>11

(* LiveTypeOK: the whole execution core stays within its types.            *)
THEOREM LiveTypes == LiveSpec => []LiveTypeOK
<1>1. LiveInit => LiveTypeOK
  <2> SUFFICES ASSUME LiveInit PROVE LiveTypeOK
    OBVIOUS
  <2>1. TypeOK
    BY OrderEventsAssumption DEF LiveInit, OrderInit, TypeOK, OrderRecord, Untracked,
          TrackedStatus, OrderStatus
  <2> QED BY <2>1 DEF LiveInit, LiveTypeOK, GateStates
<1>2. LiveTypeOK /\ [LiveNext]_liveVars => LiveTypeOK'
  <2>1. ASSUME LiveTypeOK, LiveNext PROVE LiveTypeOK'
    BY <2>1, LiveStepOrderTypes, LiveStepOtherTypes DEF LiveTypeOK
  <2>2. ASSUME LiveTypeOK, UNCHANGED liveVars PROVE LiveTypeOK'
    BY <2>2 DEF LiveTypeOK, TypeOK, liveVars, orderVars, xVars
  <2> QED BY <2>1, <2>2
<1> QED BY <1>1, <1>2, PTL DEF LiveSpec

-----------------------------------------------------------------------------

(* The replacements too move orders only as the tracker allows, and leave  *)
(* the account alone.                                                      *)
LEMMA LiveStepMoves ==
    ASSUME LiveTypeOK, UntrackedIsBlank, [LiveNext]_liveVars
    PROVE  (\A p \in Orders : OrderMoves(p)) /\ [Together]_orderVars
<1>0. TypeOK /\ orders \in [Orders -> OrderRecord(ExchangeIds)] /\ xfills \subseteq Fill
  BY DEF LiveTypeOK, TypeOK
<1>1. CASE [OrderNext]_orderVars
  BY <1>0, <1>1, StepMovesOrders, OrderStepTogether
<1>2. ASSUME NEW o \in Orders,
             UpdateAccepted(orders[o], [orders[o] EXCEPT !.status = "cancelled"]),
             UNCHANGED <<fillIds, position>>,
             \/ orders' = [orders EXCEPT ![o].status = "cancelled"]
             \/ \E n \in Orders :
                   /\ orders[n].status = "untracked"
                   /\ orders' = [orders EXCEPT ![o].status = "cancelled", ![n] = NewOrder]
      PROVE  (\A p \in Orders : OrderMoves(p)) /\ Together
  <2> DEFINE c == [orders[o] EXCEPT !.status = "cancelled"]
  <2>1. /\ c.status = "cancelled" /\ c.filled = orders[o].filled
        /\ UpdateAccepted(orders[o], c) /\ orders[o].status # "untracked"
    BY <1>0, <1>2 DEF OrderRecord, UpdateAccepted
  <2>2. OrderMoves(o) \/ orders'[o] # c
    BY <2>1 DEF OrderMoves
  <2>3. CASE orders' = [orders EXCEPT ![o] = c]
    <3> HIDE DEF c
    <3>1. orders'[o] = c /\ \A p \in Orders \ {o} : orders'[p] = orders[p]
      BY <1>0, <2>3
    <3> QED BY <1>2, <2>1, <2>2, <3>1 DEF OrderMoves, Together
  <2>4. ASSUME NEW n \in Orders, orders[n].status = "untracked",
               orders' = [orders EXCEPT ![o] = c, ![n] = NewOrder]
        PROVE  (\A p \in Orders : OrderMoves(p)) /\ Together
    <3> HIDE DEF c
    <3>1. n # o
      BY <2>1, <2>4
    <3>2. /\ orders'[o] = c /\ orders'[n] = NewOrder
          /\ \A p \in Orders \ {o, n} : orders'[p] = orders[p]
      BY <1>0, <2>4, <3>1
    <3>3. orders[n].filled = 0 /\ NewOrder.filled = 0
      BY <2>4 DEF UntrackedIsBlank, Untracked, NewOrder
    <3>4. \A p \in Orders : OrderMoves(p)
      BY <2>2, <2>4, <3>2 DEF OrderMoves
    <3>5. \A p \in Orders : orders'[p].filled = orders[p].filled
      BY <2>1, <3>2, <3>3
    <3> QED BY <1>2, <3>4, <3>5 DEF Together
  <2> QED BY <1>2, <2>3, <2>4
<1>3. ASSUME NEW o \in Orders,
             UpdateAccepted(orders[o], [orders[o] EXCEPT !.status = "cancelled"]),
             \/ \E n \in Orders : SubmitReplacement(o, n)
             \/ ReplacementRefused(o)
             \/ ReplacementRaises(o)
      PROVE  (\A p \in Orders : OrderMoves(p)) /\ Together
  <2>1. CASE \E n \in Orders : SubmitReplacement(o, n)
    BY <1>2, <1>3, <2>1 DEF SubmitReplacement, Unused
  <2>2. CASE ReplacementRefused(o) \/ ReplacementRaises(o)
    BY <1>2, <1>3, <2>2 DEF ReplacementRefused, ReplacementRaises
  <2> QED BY <1>3, <2>1, <2>2
<1>4. CASE UNCHANGED liveVars
  BY <1>0, <1>1, <1>4 DEF liveVars
<1> QED BY <1>0, <1>1, <1>3, <1>4, OrderSteps

LEMMA LiveStaysBlank == LiveSpec => []UntrackedIsBlank
<1>1. LiveInit => UntrackedIsBlank
  BY DEF LiveInit, OrderInit, UntrackedIsBlank
<1>2. LiveTypeOK /\ UntrackedIsBlank /\ [LiveNext]_liveVars => UntrackedIsBlank'
  BY LiveStepMoves, MovesKeepBlank DEF LiveTypeOK
<1> QED BY <1>1, <1>2, LiveTypes, PTL DEF LiveSpec

(* StatusMatchesFills in the whole execution core: replacements submitted  *)
(* and refused in the middle of a cancellation included.                   *)
THEOREM LiveFillsMatchStatus == LiveSpec => []StatusMatchesFills
<1>1. LiveInit => StatusMatchesFills
  BY DEF LiveInit, OrderInit, StatusMatchesFills, Untracked
<1>2. LiveTypeOK /\ UntrackedIsBlank /\ StatusMatchesFills /\ [LiveNext]_liveVars
        => StatusMatchesFills'
  BY LiveStepMoves, MovesKeepFills DEF LiveTypeOK
<1> QED BY <1>1, <1>2, LiveTypes, LiveStaysBlank, PTL DEF LiveSpec

(* TerminalIsFinal in the whole execution core: the cancellation that      *)
(* submits a replacement revives nothing either.                           *)
THEOREM LiveTerminalStays == LiveSpec => TerminalIsFinal
<1>1. LiveTypeOK /\ UntrackedIsBlank /\ [LiveNext]_liveVars =>
        [\A o \in Orders :
           /\ Terminal(orders[o]) =>
                 /\ orders'[o].status = orders[o].status
                 /\ orders'[o].filled = orders[o].filled
           /\ orders[o].exchangeId # NoId =>
                 orders'[o].exchangeId = orders[o].exchangeId]_orderVars
  BY LiveStepMoves, MovesKeepTerminal DEF LiveTypeOK
<1> QED BY <1>1, LiveTypes, LiveStaysBlank, PTL DEF LiveSpec, TerminalIsFinal

(* AccountMovesWithOrders in the whole execution core.                     *)
THEOREM LiveAccountFollows == LiveSpec => AccountMovesWithOrders
<1>1. LiveTypeOK /\ UntrackedIsBlank /\ [LiveNext]_liveVars => [Together]_orderVars
  BY LiveStepMoves
<1> QED BY <1>1, LiveTypes, LiveStaysBlank, PTL DEF LiveSpec, AccountMovesWithOrders, Together

-----------------------------------------------------------------------------

(* What no event does to an order: make it active, start or forget it, or  *)
(* change it once it is over.                                              *)
Keeps(p) ==
    /\ Active(orders'[p]) => Active(orders[p])
    /\ orders'[p].status = "untracked" <=> orders[p].status = "untracked"
    /\ Terminal(orders[p]) => /\ orders'[p].status = orders[p].status
                              /\ orders'[p].filled = orders[p].filled

LEMMA UpdateKeeps ==
    ASSUME TypeOK, NEW o \in Orders, NEW new, Update(o, new),
           new.status \in OrderStatus,
           new.filled # orders[o].filled => new.status = "partially_filled"
    PROVE  \A p \in Orders : Keeps(p)
<1> SUFFICES ASSUME NEW p \in Orders PROVE Keeps(p)
  OBVIOUS
<1>1. orders' = [orders EXCEPT ![o] = new] /\ UpdateAccepted(orders[o], new)
  BY DEF Update
<1>2. CASE p # o
  BY <1>1, <1>2 DEF Keeps, TypeOK
<1>3. CASE p = o
  <2>1. orders'[o] = new /\ orders[o].status # "untracked"
    BY <1>1 DEF TypeOK, UpdateAccepted
  <2>2. Terminal(orders[o]) => new.status = orders[o].status
    BY <1>1 DEF UpdateAccepted, ValidTransition, AllowedTransitions, Terminal,
                TerminalStatuses
  <2>3. orders[o].status \in OrderStatus
    BY <2>1 DEF TypeOK, OrderRecord, TrackedStatus
  <2> QED
    BY <1>3, <2>1, <2>2, <2>3 DEF Keeps, Active, Terminal, ActiveStatuses,
                TerminalStatuses, OrderStatus
<1> QED BY <1>2, <1>3

LEMMA EventKeeps ==
    ASSUME TypeOK, NEW o \in Orders,
           \/ OnOrderCreated(o, o) /\ o \in ExchangeIds
           \/ OnOrderFailure(o) \/ OnOrderCancelled(o)
           \/ OnOrderCompleted(o, o)
           \/ \E fill \in Fill : fill.order = o /\ OnOrderFilled(fill)
    PROVE  \A p \in Orders : Keeps(p)
<1>0. orders[o] \in OrderRecord(ExchangeIds)
  BY DEF TypeOK
<1>1. CASE OnOrderCreated(o, o)
  <2> DEFINE new == [orders[o] EXCEPT
                       !.status = IF @ = "pending" THEN "open" ELSE @,
                       !.exchangeId = o]
  <2>1. Update(o, new) /\ orders[o].status \in OrderStatus
    BY <1>1 DEF OnOrderCreated, OrderStatus
  <2>2. new.status \in OrderStatus /\ new.filled = orders[o].filled
    BY <1>0, <2>1 DEF OrderRecord, OrderStatus
  <2> HIDE DEF new
  <2> QED BY <2>1, <2>2, UpdateKeeps
<1>2. ASSUME NEW s \in {"rejected", "cancelled"},
             Update(o, [orders[o] EXCEPT !.status = s])
      PROVE  \A p \in Orders : Keeps(p)
  <2> DEFINE new == [orders[o] EXCEPT !.status = s]
  <2>1. new.status \in OrderStatus /\ new.filled = orders[o].filled
    BY <1>0 DEF OrderRecord, OrderStatus
  <2>2. Update(o, new)
    BY <1>2
  <2> HIDE DEF new
  <2> QED BY <2>1, <2>2, UpdateKeeps
<1>3. CASE OnOrderCompleted(o, o)
  <2> DEFINE new == [orders[o] EXCEPT !.status = "filled",
                                      !.exchangeId = KnownOr(o, @)]
  <2>1. new.status \in OrderStatus /\ new.filled = orders[o].filled
    BY <1>0 DEF OrderRecord, OrderStatus
  <2>2. Update(o, new) \/ UNCHANGED orders
    BY <1>3 DEF OnOrderCompleted
  <2> HIDE DEF new
  <2>3. CASE Update(o, new)
    BY <2>1, <2>3, UpdateKeeps
  <2>4. CASE UNCHANGED orders
    BY <2>4 DEF Keeps
  <2> QED BY <2>2, <2>3, <2>4
<1>4. ASSUME NEW fill \in Fill, fill.order = o, OnOrderFilled(fill)
      PROVE  \A p \in Orders : Keeps(p)
  <2> DEFINE new == [status     |-> "partially_filled",
                     exchangeId |-> KnownOr(fill.exchangeId, orders[o].exchangeId),
                     filled     |-> orders[o].filled + fill.quantity]
  <2>1. Update(o, new) /\ new.status = "partially_filled"
    BY <1>4 DEF OnOrderFilled
  <2> HIDE DEF new
  <2> QED BY <2>1, UpdateKeeps DEF OrderStatus
<1> QED
  BY <1>1, <1>2, <1>3, <1>4 DEF OnOrderFailure, OnOrderCancelled

(* Only two handlers start an order.                                       *)
LEMMA LiveStepKeeps ==
    ASSUME LiveTypeOK, LiveNext
    PROVE  \/ \A p \in Orders : Keeps(p)
           \/ \E n \in Orders, i \in Instructions, t \in Traces \cup {NoTrace} :
                 Submit(n, i, t)
           \/ \E o, n \in Orders : /\ Waiting(o) /\ OrderCancelled(o)
                                    /\ SubmitReplacement(o, n)
<1> USE DEF LiveTypeOK
<1>0. UNCHANGED orders => \A p \in Orders : Keeps(p)
  BY DEF Keeps
<1>1. ASSUME NEW o \in Orders, XAccept(o) \/ XRefuse(o) \/ XCancel(o) \/ XLose(o)
      PROVE  UNCHANGED orders
  BY <1>1 DEF XAccept, XRefuse, XCancel, XLose, XMove, orderVars
<1>2. ASSUME NEW o \in Orders, NEW id \in FillIds, NEW quantity \in Quantities,
             XExecute(o, id, quantity)
      PROVE  UNCHANGED orders
  BY <1>2 DEF XExecute, orderVars
<1>3. ASSUME NEW t \in Traces, SubmitRefused(t)
      PROVE  UNCHANGED orders
  BY <1>3 DEF SubmitRefused, RefusedByClient
<1>4. ASSUME NEW o \in Orders, NEW i \in Instructions,
             NEW t \in Traces \cup {NoTrace}, Request(o, i, t)
      PROVE  UNCHANGED orders
  BY <1>4 DEF Request, orderVars
<1>5. ASSUME NEW fill \in xfills, OrderFilled(fill)
      PROVE  \A p \in Orders : Keeps(p)
  <2>1. fill \in Fill /\ fill.order \in Orders
    BY <1>5, FillTypes
  <2> QED BY <1>5, <2>1, EventKeeps DEF OrderFilled
<1>6. ASSUME NEW o \in Orders, OrderCreated(o)
      PROVE  \A p \in Orders : Keeps(p)
  BY <1>6, EventKeeps, LiveAssumption DEF OrderCreated
<1>7. ASSUME NEW o \in Orders, OrderFailed(o)
      PROVE  \A p \in Orders : Keeps(p)
  BY <1>7, <1>0, EventKeeps DEF OrderFailed, orderVars
<1>8. ASSUME NEW o \in Orders, OrderCompleted(o)
      PROVE  \A p \in Orders : Keeps(p)
  BY <1>8, EventKeeps DEF OrderCompleted
<1>9. ASSUME NEW o \in Orders, OrderCancelled(o)
      PROVE  \/ \A p \in Orders : Keeps(p)
             \/ Waiting(o) /\ \E n \in Orders : SubmitReplacement(o, n)
  <2>1. CASE OnOrderCancelled(o)
    BY <2>1, EventKeeps
  <2>2. CASE orders' = [orders EXCEPT ![o].status = "cancelled"]
    <3>1. Update(o, [orders[o] EXCEPT !.status = "cancelled"])
      BY <1>9, <2>2 DEF OrderCancelled, Update
    <3>2. [orders[o] EXCEPT !.status = "cancelled"].filled = orders[o].filled
          /\ [orders[o] EXCEPT !.status = "cancelled"].status = "cancelled"
      BY DEF TypeOK, OrderRecord
    <3> QED BY <3>1, <3>2, UpdateKeeps DEF OrderStatus
  <2> QED
    BY <1>9, <2>1, <2>2 DEF OrderCancelled, ReplacementDropped, ReplacementRefused,
          ReplacementRaises
<1>10. ASSUME GateBegin \/ GateReset \/ GateEvaluate
       PROVE  UNCHANGED orders
  BY <1>10 DEF GateBegin, GateReset, GateEvaluate, GateMoves, orderVars
<1> QED
  BY LiveCases, <1>0, <1>1, <1>2, <1>3, <1>4, <1>5, <1>6, <1>7, <1>8, <1>9, <1>10

-----------------------------------------------------------------------------

(* A new order next to fewer than MaxOpenOrders active ones is no more     *)
(* than the limit allows.                                                  *)
LEMMA OneMore ==
    ASSUME NEW A \in SUBSET Orders, NEW n \in Orders,
           Cardinality(A) < MaxOpenOrders, ActiveOrders' \subseteq A \cup {n}
    PROVE  Cardinality(ActiveOrders') <= MaxOpenOrders
<1>1. IsFiniteSet(A) /\ Cardinality(A) \in Nat
  BY OrderEventsAssumption, FS_Subset, FS_CardinalityType
<1>2. IsFiniteSet(A \cup {n}) /\ Cardinality(A \cup {n}) <= Cardinality(A) + 1
  BY <1>1, FS_AddElement
<1>3. IsFiniteSet(ActiveOrders') /\ Cardinality(ActiveOrders') <= Cardinality(A \cup {n})
  BY <1>2, FS_Subset
<1>4. Cardinality(ActiveOrders') \in Nat /\ Cardinality(A \cup {n}) \in Nat
  BY <1>2, <1>3, FS_CardinalityType
<1> QED BY <1>1, <1>2, <1>3, <1>4, LiveAssumption

(* OpenOrderCap: however submissions, replacements and events interleave,  *)
(* no more than max_open_orders orders are active.                         *)
THEOREM OpenOrderCapHolds == LiveSpec => []OpenOrderCap
<1>1. LiveInit => OpenOrderCap
  <2> SUFFICES ASSUME LiveInit PROVE OpenOrderCap
    OBVIOUS
  <2>1. ActiveOrders = {}
    BY DEF LiveInit, OrderInit, ActiveOrders, Active, Untracked, ActiveStatuses, OrderStatus
  <2> QED BY <2>1, FS_EmptySet, LiveAssumption DEF OpenOrderCap
<1>2. LiveTypeOK /\ OpenOrderCap /\ [LiveNext]_liveVars => OpenOrderCap'
  <2> SUFFICES ASSUME LiveTypeOK, OpenOrderCap, [LiveNext]_liveVars
               PROVE  Cardinality(ActiveOrders') <= MaxOpenOrders
    BY DEF OpenOrderCap
  <2>0. ActiveOrders \subseteq Orders /\ IsFiniteSet(ActiveOrders)
        /\ Cardinality(ActiveOrders) \in Nat
    BY OrderEventsAssumption, FS_Subset, FS_CardinalityType DEF ActiveOrders
  <2>1. CASE \A p \in Orders : Keeps(p)
    <3>1. ActiveOrders' \subseteq ActiveOrders
      BY <2>1 DEF Keeps, ActiveOrders
    <3>2. Cardinality(ActiveOrders') <= Cardinality(ActiveOrders)
      BY <2>0, <3>1, FS_Subset
    <3>3. Cardinality(ActiveOrders') \in Nat
      BY <2>0, <3>1, FS_Subset, FS_CardinalityType
    <3> QED BY <2>0, <3>2, <3>3, LiveAssumption DEF OpenOrderCap
  <2>2. ASSUME NEW n \in Orders, NEW i \in Instructions,
               NEW t \in Traces \cup {NoTrace}, Submit(n, i, t)
        PROVE  Cardinality(ActiveOrders') <= MaxOpenOrders
    <3>1. Cardinality(ActiveOrders) < MaxOpenOrders
      BY <2>2 DEF Submit, Approved
    <3>2. ActiveOrders' \subseteq ActiveOrders \cup {n}
      BY <2>2 DEF Submit, Track, ActiveOrders, LiveTypeOK, TypeOK
    <3> QED BY <2>0, <3>1, <3>2, OneMore
  <2>3. ASSUME NEW o \in Orders, NEW n \in Orders, SubmitReplacement(o, n)
        PROVE  Cardinality(ActiveOrders') <= MaxOpenOrders
    <3>1. Cardinality(ActiveOrders \ {o}) < MaxOpenOrders
      BY <2>3 DEF SubmitReplacement, ClientCalled, Approved
    <3>2. ActiveOrders' \subseteq (ActiveOrders \ {o}) \cup {n}
      <4> SUFFICES ASSUME NEW p \in Orders, p # n, Active(orders'[p])
                   PROVE  p # o /\ Active(orders[p])
        BY DEF ActiveOrders
      <4>1. orders' = [orders EXCEPT ![o].status = "cancelled", ![n] = NewOrder]
        BY <2>3 DEF SubmitReplacement
      <4>2. p # o => orders'[p] = orders[p]
        BY <4>1 DEF LiveTypeOK, TypeOK
      <4>3. p = o => orders'[p].status = "cancelled"
        BY <4>1 DEF LiveTypeOK, TypeOK, OrderRecord
      <4> QED BY <4>2, <4>3 DEF Active, ActiveStatuses, TerminalStatuses
    <3> QED BY <2>0, <3>1, <3>2, OneMore
  <2>4. CASE UNCHANGED liveVars
    BY <2>4 DEF liveVars, orderVars, OpenOrderCap, ActiveOrders
  <2> QED BY <2>1, <2>2, <2>3, <2>4, LiveStepKeeps
<1> QED BY <1>1, <1>2, LiveTypes, PTL DEF LiveSpec
-----------------------------------------------------------------------------
(* The latency traces: no sharing of a trace, no order of events and no    *)
(* replacement in the middle of a cancellation puts the stages of a trace  *)
(* out of order or doubles one.                                            *)
(* StagesInOrder is not inductive: a handler records on the trace of its   *)
(* order without asking for the stages before it.  StageInv adds that an   *)
(* order is bound only to a trace that has been submitted.                 *)

Begun(s) ==
    /\ Len(s) >= 2
    /\ s[1] = "risk_approved"
    /\ s[2] = "order_submitted"
    /\ IsInjective(s)

BoundAreBegun == \A o \in Orders : traceOf[o] # NoTrace => stages[traceOf[o]] # <<>>

StageInv == StagesInOrder /\ BoundAreBegun

(* No trace loses the stages it has.                                       *)
Grows == \A t \in Traces : stages[t] # <<>> => stages'[t] # <<>>

-----------------------------------------------------------------------------

LEMMA AppendBegun ==
    ASSUME NEW s \in Seq(Stages), Begun(s), NEW stage \in Stages, stage \notin Range(s)
    PROVE  Append(s, stage) # <<>> /\ Begun(Append(s, stage))
<1> DEFINE r == Append(s, stage)
<1>1. /\ r \in Seq(Stages)
      /\ Len(r) = Len(s) + 1
      /\ r[Len(s) + 1] = stage
      /\ \A i \in 1 .. Len(s) : r[i] = s[i]
      /\ DOMAIN r = 1 .. (Len(s) + 1)
  OBVIOUS
<1>2. Len(s) \in Nat /\ DOMAIN s = 1 .. Len(s)
  OBVIOUS
<1>3. \A i \in 1 .. Len(s) : s[i] # stage
  BY <1>2 DEF Range
<1>4. \A i, j \in 1 .. Len(s) : s[i] = s[j] => i = j
  BY <1>2 DEF Begun, IsInjective
<1>5. IsInjective(r)
  <2> SUFFICES ASSUME NEW i \in 1 .. (Len(s) + 1), NEW j \in 1 .. (Len(s) + 1), r[i] = r[j]
               PROVE  i = j
    BY <1>1 DEF IsInjective
  <2> HIDE DEF r
  <2>1. CASE i <= Len(s) /\ j <= Len(s)
    <3>1. i \in 1 .. Len(s) /\ j \in 1 .. Len(s)
      BY <2>1, <1>2
    <3>2. s[i] = s[j]
      BY <3>1, <1>1
    <3> QED BY <3>1, <3>2, <1>4
  <2>2. CASE i <= Len(s) /\ j = Len(s) + 1
    <3>1. i \in 1 .. Len(s)
      BY <2>2, <1>2
    <3> QED BY <3>1, <2>2, <1>1, <1>3
  <2>3. CASE i = Len(s) + 1 /\ j <= Len(s)
    <3>1. j \in 1 .. Len(s)
      BY <2>3, <1>2
    <3> QED BY <3>1, <2>3, <1>1, <1>3
  <2>4. CASE i = Len(s) + 1 /\ j = Len(s) + 1
    BY <2>4
  <2> QED BY <2>1, <2>2, <2>3, <2>4, <1>2
<1>6. Len(s) >= 2 /\ s[1] = "risk_approved" /\ s[2] = "order_submitted"
  BY DEF Begun
<1>7. r[1] = "risk_approved" /\ r[2] = "order_submitted" /\ Len(r) >= 2
  <2> HIDE DEF r
  <2>1. 1 \in 1 .. Len(s) /\ 2 \in 1 .. Len(s)
    BY <1>2, <1>6
  <2> QED BY <1>1, <1>2, <1>6, <2>1
<1>8. r # <<>>
  <2> HIDE DEF r
  <2>1. Len(r) # 0
    BY <1>1, <1>2
  <2> QED BY <2>1
<1> QED BY <1>5, <1>7, <1>8 DEF Begun

(* Whatever a handler records goes behind the stages that are there.       *)
LEMMA RecordKeepsOrder ==
    ASSUME TypeOK, StagesInOrder, NEW t \in Traces \cup {NoTrace},
           t # NoTrace => stages[t] # <<>>,
           NEW stage \in Stages, Record(t, stage)
    PROVE  StagesInOrder' /\ Grows
<1>0. stages \in [Traces -> Seq(Stages)]
  BY DEF TypeOK
<1>1. CASE UNCHANGED stages
  BY <1>1 DEF StagesInOrder, Grows
<1>2. CASE ~(t = NoTrace \/ Recorded(t, stage))
  <2>1. /\ t \in Traces
        /\ stages[t] \in Seq(Stages)
        /\ stage \notin Range(stages[t])
        /\ Begun(stages[t])
    BY <1>0, <1>2 DEF Recorded, StagesInOrder, Begun
  <2>2. stages' = [stages EXCEPT ![t] = Append(@, stage)]
    BY <1>2 DEF Record
  <2>3. stages'[t] # <<>> /\ Begun(stages'[t])
    BY <1>0, <2>1, <2>2, AppendBegun
  <2>4. \A u \in Traces \ {t} : stages'[u] = stages[u]
    BY <1>0, <2>2
  <2>5. Grows
    BY <2>3, <2>4 DEF Grows
  <2>6. ASSUME NEW u \in Traces, stages'[u] # <<>>
        PROVE  Begun(stages'[u])
    BY <2>3, <2>4, <2>6 DEF StagesInOrder, Begun
  <2> QED BY <2>5, <2>6 DEF StagesInOrder, Begun
<1> QED BY <1>1, <1>2 DEF Record

(* A submission that does not raise finds the trace empty.                 *)
LEMMA SubmitKeepsOrder ==
    ASSUME TypeOK, StagesInOrder, NEW t \in Traces \cup {NoTrace},
           FreshForSubmit(t), RecordSubmitStages(t)
    PROVE  StagesInOrder' /\ Grows /\ (t # NoTrace => stages'[t] # <<>>)
<1>0. stages \in [Traces -> Seq(Stages)]
  BY DEF TypeOK
<1>1. CASE t = NoTrace
  BY <1>1 DEF RecordSubmitStages, StagesInOrder, Grows
<1>2. CASE t # NoTrace
  <2> DEFINE pair == <<"risk_approved", "order_submitted">>
  <2>1. t \in Traces /\ stages[t] \in Seq(Stages)
    BY <1>0, <1>2
  <2>2. stages[t] = <<>>
    <3>1. SUFFICES ASSUME stages[t] # <<>> PROVE FALSE
      OBVIOUS
    <3>2. stages[t][1] = "risk_approved" /\ Len(stages[t]) >= 2
      BY <2>1, <3>1 DEF StagesInOrder
    <3>3. 1 \in DOMAIN stages[t]
      BY <2>1, <3>2
    <3>4. "risk_approved" \in Range(stages[t])
      BY <3>2, <3>3 DEF Range
    <3> QED BY <1>2, <3>4 DEF FreshForSubmit, Recorded
  <2>3. stages' = [stages EXCEPT ![t] = pair]
    <3>1. <<>> \o pair = pair
      OBVIOUS
    <3> QED BY <1>2, <2>1, <2>2, <3>1 DEF RecordSubmitStages
  <2>4. pair # <<>> /\ Begun(pair)
    <3>1. /\ Len(pair) = 2 /\ DOMAIN pair = 1 .. 2
          /\ pair[1] = "risk_approved" /\ pair[2] = "order_submitted"
      OBVIOUS
    <3> HIDE DEF pair
    <3>2. IsInjective(pair)
      <4> SUFFICES ASSUME NEW i \in 1 .. 2, NEW j \in 1 .. 2, pair[i] = pair[j]
                   PROVE  i = j
        BY <3>1 DEF IsInjective
      <4>1. (i = 1 \/ i = 2) /\ (j = 1 \/ j = 2)
        OBVIOUS
      <4> QED BY <4>1, <3>1
    <3> QED BY <3>1, <3>2 DEF Begun
  <2> HIDE DEF pair
  <2>5. stages'[t] = pair /\ \A u \in Traces \ {t} : stages'[u] = stages[u]
    BY <1>0, <2>1, <2>3
  <2>6. Grows /\ stages'[t] # <<>>
    BY <2>4, <2>5 DEF Grows
  <2>7. ASSUME NEW u \in Traces, stages'[u] # <<>>
        PROVE  Begun(stages'[u])
    BY <2>4, <2>5, <2>7 DEF StagesInOrder, Begun
  <2> QED BY <2>6, <2>7 DEF StagesInOrder, Begun
<1> QED BY <1>1, <1>2

(* A binding that stays, or goes, still has its stages.                    *)
LEMMA BindingsKeep ==
    ASSUME TypeOK, BoundAreBegun, Grows,
           \A o \in Orders : traceOf'[o] = traceOf[o] \/ traceOf'[o] = NoTrace
    PROVE  BoundAreBegun'
<1> SUFFICES ASSUME NEW o \in Orders, traceOf'[o] # NoTrace
             PROVE  stages'[traceOf'[o]] # <<>>
  BY DEF BoundAreBegun
<1>1. traceOf'[o] = traceOf[o] /\ traceOf[o] \in Traces
  BY DEF TypeOK
<1> QED BY <1>1 DEF BoundAreBegun, Grows

LEMMA PopKeeps ==
    ASSUME TypeOK, NEW p \in Orders, UNCHANGED traceOf \/ PopTrace(p)
    PROVE  \A o \in Orders : traceOf'[o] = traceOf[o] \/ traceOf'[o] = NoTrace
BY DEF TypeOK, PopTrace

(* A new binding is one to the trace that was just submitted.              *)
LEMMA NewBindingKeeps ==
    ASSUME TypeOK, BoundAreBegun, Grows,
           NEW n \in Orders, NEW t \in Traces \cup {NoTrace},
           t # NoTrace => stages'[t] # <<>>,
           traceOf'[n] = t,
           \A o \in Orders \ {n} : traceOf'[o] = traceOf[o] \/ traceOf'[o] = NoTrace
    PROVE  BoundAreBegun'
<1> SUFFICES ASSUME NEW o \in Orders, traceOf'[o] # NoTrace
             PROVE  stages'[traceOf'[o]] # <<>>
  BY DEF BoundAreBegun
<1>1. CASE o = n
  BY <1>1
<1>2. CASE o # n
  <2>1. traceOf'[o] = traceOf[o] /\ traceOf[o] \in Traces
    BY <1>2 DEF TypeOK
  <2> QED BY <2>1 DEF BoundAreBegun, Grows
<1> QED BY <1>1, <1>2

-----------------------------------------------------------------------------

LEMMA OrderStepStages ==
    ASSUME TypeOK, StageInv, [OrderNext]_orderVars
    PROVE  StageInv'
<1> USE DEF StageInv
<1>0. /\ traceOf \in [Orders -> Traces \cup {NoTrace}]
      /\ \A o \in Orders : /\ traceOf[o] \in Traces \cup {NoTrace}
                           /\ traceOf[o] # NoTrace => stages[traceOf[o]] # <<>>
      /\ UNCHANGED stages => StagesInOrder' /\ Grows
  BY DEF TypeOK, BoundAreBegun, StagesInOrder, Grows
<1>1. ASSUME NEW o \in Orders, NEW t \in Traces \cup {NoTrace}, Track(o, t)
      PROVE  StageInv'
  <2>1. StagesInOrder' /\ Grows /\ (t # NoTrace => stages'[t] # <<>>)
    BY <1>1, SubmitKeepsOrder DEF Track
  <2>2. traceOf'[o] = t /\ \A p \in Orders \ {o} : traceOf'[p] = traceOf[p]
    BY <1>0, <1>1 DEF Track
  <2> QED BY <2>1, <2>2, NewBindingKeeps
<1>2. ASSUME NEW t \in Traces, RefusedByClient(t)
      PROVE  StageInv'
  <2>1. StagesInOrder' /\ Grows
    BY <1>2, SubmitKeepsOrder DEF RefusedByClient
  <2> QED BY <1>2, <2>1, BindingsKeep DEF RefusedByClient
<1>3. ASSUME NEW o \in Orders, NEW id \in ExchangeIds, OnOrderCreated(o, id)
      PROVE  StageInv'
  <2>1. StagesInOrder' /\ Grows
    BY <1>0, <1>3, RecordKeepsOrder DEF OnOrderCreated, Stages
  <2> QED BY <1>3, <2>1, BindingsKeep DEF OnOrderCreated
<1>4. ASSUME NEW o \in Orders, OnOrderFailure(o)
      PROVE  StageInv'
  <2>1. StagesInOrder' /\ Grows
    BY <1>0, <1>4, RecordKeepsOrder DEF OnOrderFailure, Stages
  <2> QED BY <1>4, <2>1, PopKeeps, BindingsKeep DEF OnOrderFailure
<1>5. ASSUME NEW o \in Orders, OnOrderCancelled(o)
      PROVE  StageInv'
  BY <1>0, <1>5, PopKeeps, BindingsKeep DEF OnOrderCancelled
<1>6. ASSUME NEW fill \in Fill, OnOrderFilled(fill)
      PROVE  StageInv'
  <2>1. fill.order \in Orders
    BY FillTypes
  <2>2. StagesInOrder' /\ Grows
    <3>1. CASE UNCHANGED stages
      BY <1>0, <3>1
    <3>2. CASE Record(traceOf[fill.order], "first_fill")
      BY <1>0, <2>1, <3>2, RecordKeepsOrder DEF Stages
    <3> QED BY <1>6, <3>1, <3>2 DEF OnOrderFilled
  <2> QED BY <1>6, <2>2, BindingsKeep DEF OnOrderFilled
<1>7. ASSUME NEW o \in Orders, NEW id \in ExchangeIds \cup {NoId},
             OnOrderCompleted(o, id)
      PROVE  StageInv'
  BY <1>0, <1>7, PopKeeps, BindingsKeep DEF OnOrderCompleted
<1>8. CASE UNCHANGED orderVars
  BY <1>0, <1>8, BindingsKeep DEF orderVars
<1> QED
  BY <1>1, <1>2, <1>3, <1>4, <1>5, <1>6, <1>7, <1>8 DEF OrderNext

(* The replacements, in the middle of a cancellation.                      *)
LEMMA LiveStepStages ==
    ASSUME LiveTypeOK, StageInv, LiveNext
    PROVE  StageInv'
<1> USE DEF StageInv
<1>0. TypeOK /\ traceOf \in [Orders -> Traces \cup {NoTrace}] /\ xfills \subseteq Fill
  BY DEF LiveTypeOK, TypeOK
<1>1. CASE [OrderNext]_orderVars
  BY <1>0, <1>1, OrderStepStages
<1>2. ASSUME NEW o \in Orders, Waiting(o), NEW n \in Orders, SubmitReplacement(o, n)
      PROVE  StageInv'
  <2> DEFINE t == records[o].trace
  <2>1. t \in Traces \cup {NoTrace}
    BY <1>2, WaitingRecord DEF ReplacementRecord
  <2>2. StagesInOrder' /\ Grows /\ (t # NoTrace => stages'[t] # <<>>)
    BY <1>0, <1>2, <2>1, SubmitKeepsOrder DEF SubmitReplacement, ClientCalled
  <2>3. /\ traceOf'[n] = t
        /\ \A p \in Orders \ {n} : traceOf'[p] = traceOf[p] \/ traceOf'[p] = NoTrace
    BY <1>0, <1>2 DEF SubmitReplacement
  <2> HIDE DEF t
  <2> QED BY <1>0, <2>1, <2>2, <2>3, NewBindingKeeps
<1>3. ASSUME NEW o \in Orders, Waiting(o), ReplacementRefused(o)
      PROVE  StageInv'
  <2>1. records[o].trace \in Traces \cup {NoTrace}
    BY <1>3, WaitingRecord DEF ReplacementRecord
  <2>2. StagesInOrder' /\ Grows
    BY <1>0, <1>3, <2>1, SubmitKeepsOrder DEF ReplacementRefused, ClientCalled
  <2> QED BY <1>0, <1>3, <2>2, PopKeeps, BindingsKeep DEF ReplacementRefused
<1>4. ASSUME NEW o \in Orders, Waiting(o), ReplacementRaises(o)
      PROVE  StageInv'
  <2>1. records[o].trace \in Traces \cup {NoTrace}
    BY <1>4, WaitingRecord DEF ReplacementRecord
  <2>2. StagesInOrder' /\ Grows
    <3>1. CASE UNCHANGED stages
      BY <3>1 DEF StagesInOrder, Grows
    <3>2. CASE ClientCalled(o)
      BY <1>0, <2>1, <3>2, SubmitKeepsOrder DEF ClientCalled
    <3> QED BY <1>4, <3>1, <3>2 DEF ReplacementRaises
  <2> QED BY <1>0, <1>4, <2>2, BindingsKeep DEF ReplacementRaises
<1> QED BY <1>0, OrderSteps, <1>1, <1>2, <1>3, <1>4

(* StagesInOrder: the stages of every trace begin with the risk check and  *)
(* the submission and none is there twice, in every behaviour of the live  *)
(* execution core.                                                         *)
THEOREM StagesKeepOrder == LiveSpec => []StagesInOrder
<1>1. LiveInit => StageInv
  BY DEF LiveInit, OrderInit, StageInv, StagesInOrder, BoundAreBegun
<1>2. LiveTypeOK /\ StageInv /\ [LiveNext]_liveVars => StageInv'
  <2>1. ASSUME LiveTypeOK, StageInv, LiveNext PROVE StageInv'
    BY <2>1, LiveStepStages
  <2>2. ASSUME StageInv, UNCHANGED liveVars PROVE StageInv'
    BY <2>2 DEF StageInv, StagesInOrder, BoundAreBegun, liveVars, orderVars
  <2> QED BY <2>1, <2>2
<1>3. StageInv => StagesInOrder
  BY DEF StageInv
<1> QED BY <1>1, <1>2, <1>3, LiveTypes, PTL DEF LiveSpec

-----------------------------------------------------------------------------
(***************************************************************************)
(* When a replacement may exist.                                           *)
(***************************************************************************)

(* What a step does to the replacement of order o and to o itself.  An     *)
(* order whose replacement is left alone stays active if it was, or else   *)
(* StepKeepsFinished tells what it stays.                                  *)
LeavesRecord(o) ==
    /\ records'[o] = records[o]
    /\ Waiting(o) => /\ orders'[o].filled = orders[o].filled
                     /\ Active(orders[o]) /\ ~records[o].raised => Active(orders'[o])

Opens(o) ==
    /\ Active(orders[o])
    /\ orders' = orders
    /\ records'[o].state = "waiting_for_cancel"
    /\ records'[o].filledAtRequest = orders[o].filled
    /\ ~records'[o].raised

(* An exception leaves the handler of the cancellation.                    *)
Breaks(o) ==
    /\ Waiting(o)
    /\ records'[o].state = "waiting_for_cancel"
    /\ records'[o].filledAtRequest = records[o].filledAtRequest
    /\ records'[o].raised
    /\ xorders'[o].status = "cancelled"
    /\ orders'[o].status = "cancelled"
    /\ orders'[o].filled = orders[o].filled

Closes(o) ==
    /\ Waiting(o)
    /\ records'[o].state \in {"invalidated", "failed"}

Replaces(o) ==
    /\ Waiting(o)
    /\ records'[o].state = "submitted"
    /\ records'[o].filledAtRequest = records[o].filledAtRequest
    /\ records'[o].instruction = records[o].instruction
    /\ records'[o].new \in Orders \ {o}
    /\ Unused(records'[o].new)
    /\ xorders[o].status = "cancelled"
    /\ orders'[o].status = "cancelled"
    /\ orders'[o].filled = orders[o].filled
    /\ orders'[records'[o].new].status # "untracked"
    /\ xorders'[records'[o].new].instruction = records[o].instruction

(* No record starts out submitted.                                         *)
LEMMA RecordFields ==
    ASSUME LiveTypeOK, NEW o \in Orders
    PROVE  records[o] = [state |-> records[o].state,
                         instruction |-> records[o].instruction,
                         trace |-> records[o].trace,
                         new |-> records[o].new,
                         filledAtRequest |-> records[o].filledAtRequest,
                         raised |-> records[o].raised]
BY DEF LiveTypeOK, ReplacementRecord, NoRecord

(* Resolving a record changes its state and its new order only.            *)
LEMMA ResolveEffect ==
    ASSUME LiveTypeOK, NEW o \in Orders, NEW state, NEW new, Resolve(o, state, new)
    PROVE  /\ records'[o].state = state
           /\ records'[o].new = new
           /\ records'[o].filledAtRequest = records[o].filledAtRequest
           /\ records'[o].instruction = records[o].instruction
           /\ \A p \in Orders \ {o} : records'[p] = records[p]
<1>1. records \in [Orders -> ReplacementRecord \cup {NoRecord}]
  BY DEF LiveTypeOK
<1>2. records' = [records EXCEPT ![o].state = state, ![o].new = new]
  BY DEF Resolve
<1>3. records'[o] = [records[o] EXCEPT !.state = state, !.new = new]
  BY <1>1, <1>2
<1>4. \A p \in Orders \ {o} : records'[p] = records[p]
  BY <1>1, <1>2
<1>5. records'[o] = [state |-> state,
                     instruction |-> records[o].instruction,
                     trace |-> records[o].trace,
                     new |-> new,
                     filledAtRequest |-> records[o].filledAtRequest,
                     raised |-> records[o].raised]
  BY <1>3, RecordFields
<1> QED BY <1>4, <1>5

(* What an exception in the handler of the cancellation leaves.            *)
LEMMA RaisesBreaks ==
    ASSUME LiveTypeOK, NEW o \in Orders, Waiting(o), xorders[o].status = "cancelled",
           ReplacementRaises(o)
    PROVE  /\ Breaks(o)
           /\ \A p \in Orders \ {o} : orders'[p] = orders[p] /\ records'[p] = records[p]
<1>1. /\ records' = [records EXCEPT ![o].raised = TRUE]
      /\ orders' = [orders EXCEPT ![o].status = "cancelled"]
      /\ UNCHANGED xorders
  BY DEF ReplacementRaises, xVars
<1>2. /\ records \in [Orders -> ReplacementRecord \cup {NoRecord}]
      /\ orders \in [Orders -> OrderRecord(ExchangeIds)]
  BY DEF LiveTypeOK, TypeOK
<1>3. /\ records'[o].state = records[o].state
      /\ records'[o].filledAtRequest = records[o].filledAtRequest
      /\ records'[o].raised = TRUE
  <2>1. records'[o] = [records[o] EXCEPT !.raised = TRUE]
    BY <1>1, <1>2
  <2>2. records'[o] = [state |-> records[o].state,
                       instruction |-> records[o].instruction,
                       trace |-> records[o].trace,
                       new |-> records[o].new,
                       filledAtRequest |-> records[o].filledAtRequest,
                       raised |-> TRUE]
    BY <2>1, RecordFields
  <2> QED BY <2>2
<1>4. orders'[o].status = "cancelled" /\ orders'[o].filled = orders[o].filled
  BY <1>1, <1>2 DEF OrderRecord
<1>5. \A p \in Orders \ {o} : orders'[p] = orders[p] /\ records'[p] = records[p]
  BY <1>1, <1>2
<1> QED BY <1>1, <1>3, <1>4, <1>5 DEF Breaks, Waiting

(* A handler that stores a record that accepts o's cancellation keeps o's  *)
(* fills, and leaves the other orders alone.                               *)
LEMMA CancelKeepsFills ==
    ASSUME LiveTypeOK, NEW o \in Orders, OnOrderCancelled(o)
    PROVE  /\ orders'[o].filled = orders[o].filled
           /\ \A p \in Orders \ {o} : orders'[p] = orders[p]
BY DEF OnOrderCancelled, Update, LiveTypeOK, TypeOK, OrderRecord

(* An order that is in use keeps its instruction on the exchange, and one  *)
(* that is cancelled there stays cancelled.                                *)
ExchangeKeeps(p) ==
    ~Unused(p) => /\ xorders'[p].instruction = xorders[p].instruction
                  /\ xorders[p].status = "cancelled" => xorders'[p].status = "cancelled"

LEMMA XSubmitKeeps ==
    ASSUME LiveTypeOK, NEW n \in Orders, NEW i, Unused(n), XSubmit(n, i)
    PROVE  /\ \A p \in Orders : ExchangeKeeps(p)
           /\ xorders'[n].instruction = i
           /\ \A p \in Orders \ {n} : xorders'[p] = xorders[p]
BY DEF XSubmit, ExchangeKeeps, LiveTypeOK

LEMMA StepKeepsExchange ==
    ASSUME LiveTypeOK, LiveNext
    PROVE  \A p \in Orders : ExchangeKeeps(p)
<1>0. UNCHANGED xorders => \A p \in Orders : ExchangeKeeps(p)
  BY DEF ExchangeKeeps
<1>1. ASSUME NEW o \in Orders, XAccept(o) \/ XRefuse(o) \/ XCancel(o) \/ XLose(o)
      PROVE  \A p \in Orders : ExchangeKeeps(p)
  <2>1. PICK from \in {{"submitted"}, {"working"}}, to \in XStatus : XMove(o, from, to)
    BY <1>1 DEF XAccept, XRefuse, XCancel, XLose, XStatus
  <2>2. xorders[o].status # "none" /\ xorders[o].status # "cancelled"
        /\ xorders' = [xorders EXCEPT ![o].status = to]
    BY <2>1 DEF XMove
  <2>3. xorders[o] \in XOrder
    BY <2>2 DEF LiveTypeOK, NoXOrder
  <2>4. [xorders[o] EXCEPT !.status = to].instruction = xorders[o].instruction
    BY <2>3 DEF XOrder
  <2> QED BY <2>2, <2>4 DEF ExchangeKeeps, LiveTypeOK
<1>2. ASSUME NEW o \in Orders, NEW id \in FillIds, NEW quantity \in Quantities,
             XExecute(o, id, quantity)
      PROVE  \A p \in Orders : ExchangeKeeps(p)
  <2> DEFINE done == [xorders[o] EXCEPT
                        !.filled = @ + quantity,
                        !.status = IF xorders[o].filled + quantity = xorders[o].amount
                                     THEN "filled" ELSE @]
  <2>1. xorders[o].status = "working" /\ xorders' = [xorders EXCEPT ![o] = done]
    BY <1>2 DEF XExecute, LiveTypeOK
  <2>2. xorders[o] \in XOrder
    BY <2>1 DEF LiveTypeOK, NoXOrder
  <2>3. done.instruction = xorders[o].instruction
    BY <2>2 DEF XOrder
  <2> HIDE DEF done
  <2> QED BY <2>1, <2>3 DEF ExchangeKeeps, LiveTypeOK
<1>3. ASSUME NEW t \in Traces, SubmitRefused(t)
      PROVE  UNCHANGED xorders
  BY <1>3 DEF SubmitRefused, xVars
<1>4. ASSUME NEW o \in Orders, NEW i \in Instructions,
             NEW t \in Traces \cup {NoTrace}, Submit(o, i, t) \/ Request(o, i, t)
      PROVE  \A p \in Orders : ExchangeKeeps(p)
  BY <1>4, <1>0, XSubmitKeeps DEF Submit, Request, xVars
<1>5. ASSUME NEW fill \in xfills, OrderFilled(fill)
      PROVE  UNCHANGED xorders
  BY <1>5 DEF OrderFilled, xVars
<1>6. ASSUME NEW o \in Orders, OrderCreated(o) \/ OrderFailed(o) \/ OrderCompleted(o)
      PROVE  UNCHANGED xorders
  BY <1>6 DEF OrderCreated, OrderFailed, OrderCompleted, xVars
<1>7. ASSUME NEW o \in Orders, OrderCancelled(o)
      PROVE  \A p \in Orders : ExchangeKeeps(p)
  BY <1>7, <1>0, XSubmitKeeps
     DEF OrderCancelled, ReplacementDropped, ReplacementRefused, ReplacementRaises,
         SubmitReplacement, xVars
<1>8. ASSUME GateBegin \/ GateReset \/ GateEvaluate
      PROVE  UNCHANGED xorders
  BY <1>8 DEF GateBegin, GateReset, GateEvaluate, GateMoves, xVars
<1> QED
  BY LiveCases, <1>0, <1>1, <1>2, <1>3, <1>4, <1>5, <1>6, <1>7, <1>8

-----------------------------------------------------------------------------

(* SubmitReplacement is one Replaces step.                                 *)
LEMMA SubmitReplaces ==
    ASSUME LiveTypeOK, NEW o \in Orders, NEW n \in Orders, Waiting(o),
           orders[o].status # "untracked", xorders[o].status = "cancelled",
           SubmitReplacement(o, n)
    PROVE  /\ Replaces(o)
           /\ \A p \in Orders \ {o} : records'[p] = records[p]
           /\ \A p \in Orders \ {o} : orders[p].status # "untracked" =>
                                         orders'[p] = orders[p]
<1>1. n # o /\ Unused(n)
  BY DEF SubmitReplacement, Unused
<1>2. orders' = [orders EXCEPT ![o].status = "cancelled", ![n] = NewOrder]
  BY DEF SubmitReplacement
<1>3. orders \in [Orders -> OrderRecord(ExchangeIds)]
  BY DEF LiveTypeOK, TypeOK
<1>4. /\ orders'[o].status = "cancelled"
      /\ orders'[o].filled = orders[o].filled
      /\ orders'[n].status # "untracked"
      /\ \A p \in Orders \ {o, n} : orders'[p] = orders[p]
  BY <1>1, <1>2, <1>3 DEF OrderRecord, NewOrder
<1>5. /\ records'[o].state = "submitted"
      /\ records'[o].new = n
      /\ records'[o].filledAtRequest = records[o].filledAtRequest
      /\ records'[o].instruction = records[o].instruction
      /\ \A p \in Orders \ {o} : records'[p] = records[p]
  BY ResolveEffect DEF SubmitReplacement
<1>6. xorders'[n].instruction = records[o].instruction
  BY <1>1, XSubmitKeeps DEF SubmitReplacement
<1>7. Replaces(o)
  BY <1>1, <1>4, <1>5, <1>6 DEF Replaces
<1>8. \A p \in Orders \ {o} : orders[p].status # "untracked" => orders'[p] = orders[p]
  BY <1>1, <1>4 DEF Unused
<1> QED BY <1>5, <1>7, <1>8

(* Invalidate closes the record if it waits and leaves it alone if not.    *)
LEMMA InvalidateEffect ==
    ASSUME LiveTypeOK, NEW o \in Orders, Invalidate(o)
    PROVE  /\ Waiting(o) => Closes(o)
           /\ ~Waiting(o) => records'[o] = records[o]
           /\ \A p \in Orders \ {o} : records'[p] = records[p]
<1>1. CASE Waiting(o)
  BY <1>1, ResolveEffect DEF Invalidate, Closes
<1>2. CASE ~Waiting(o)
  BY <1>2 DEF Invalidate
<1> QED BY <1>1, <1>2

Explained(p) ==
    LeavesRecord(p) \/ Opens(p) \/ Closes(p) \/ Replaces(p) \/ Breaks(p)

WaitingTracked == \A o \in Orders : Waiting(o) => orders[o].status # "untracked"

LEMMA StepExplained ==
    ASSUME LiveTypeOK, WaitingTracked, LiveNext
    PROVE  \A p \in Orders : Explained(p)
<1>0. orders \in [Orders -> OrderRecord(ExchangeIds)]
  BY DEF LiveTypeOK, TypeOK
<1>1. ASSUME UNCHANGED <<orders, records>>
      PROVE  \A p \in Orders : Explained(p)
  BY <1>1 DEF Explained, LeavesRecord
<1>2. ASSUME NEW o \in Orders, XAccept(o) \/ XRefuse(o) \/ XCancel(o) \/ XLose(o)
      PROVE  UNCHANGED <<orders, records>>
  BY <1>2 DEF XAccept, XRefuse, XCancel, XLose, XMove, orderVars
<1>3. ASSUME NEW o \in Orders, NEW id \in FillIds, NEW quantity \in Quantities,
             XExecute(o, id, quantity)
      PROVE  UNCHANGED <<orders, records>>
  BY <1>3 DEF XExecute, orderVars
<1>4. ASSUME NEW t \in Traces, SubmitRefused(t)
      PROVE  UNCHANGED <<orders, records>>
  BY <1>4 DEF SubmitRefused, RefusedByClient
<1>5. ASSUME NEW n \in Orders, NEW i \in Instructions,
             NEW t \in Traces \cup {NoTrace}, Submit(n, i, t)
      PROVE  \A p \in Orders : Explained(p)
  <2>1. records' = records /\ orders' = [orders EXCEPT ![n] = NewOrder] /\ ~Waiting(n)
    BY <1>5 DEF Submit, Track, Unused, WaitingTracked
  <2> QED BY <1>0, <2>1 DEF Explained, LeavesRecord
<1>6. ASSUME NEW o \in Orders, NEW i \in Instructions,
             NEW t \in Traces \cup {NoTrace}, Request(o, i, t)
      PROVE  \A p \in Orders : Explained(p)
  <2>1. orders' = orders /\ Opens(o)
    BY <1>6 DEF Request, Opens, orderVars, LiveTypeOK
  <2>2. \A p \in Orders \ {o} : records'[p] = records[p]
    BY <1>6 DEF Request, LiveTypeOK
  <2> QED BY <2>1, <2>2 DEF Explained, LeavesRecord
<1>7. ASSUME NEW fill \in xfills, OrderFilled(fill)
      PROVE  \A p \in Orders : Explained(p)
  <2>1. fill \in Fill /\ fill.order \in Orders
    BY FillTypes DEF LiveTypeOK
  <2>2. \A p \in Orders \ {fill.order} : orders'[p] = orders[p]
    BY <1>0, <1>7, <2>1 DEF OrderFilled, OnOrderFilled, Update
  <2>3. Invalidate(fill.order)
    BY <1>7 DEF OrderFilled
  <2> QED BY <2>1, <2>2, <2>3, InvalidateEffect DEF Explained, LeavesRecord
<1>8. ASSUME NEW o \in Orders, OrderCreated(o)
      PROVE  \A p \in Orders : Explained(p)
  <2>1. /\ UNCHANGED records
        /\ orders'[o].filled = orders[o].filled
        /\ Active(orders[o]) => Active(orders'[o])
        /\ \A p \in Orders \ {o} : orders'[p] = orders[p]
    BY <1>0, <1>8 DEF OrderCreated, OnOrderCreated, Update, OrderRecord, Active,
                      ActiveStatuses, OrderStatus, TerminalStatuses
  <2> QED BY <2>1 DEF Explained, LeavesRecord
<1>9. ASSUME NEW o \in Orders, OrderFailed(o)
      PROVE  \A p \in Orders : Explained(p)
  <2>1. \A p \in Orders \ {o} : orders'[p] = orders[p]
    BY <1>0, <1>9 DEF OrderFailed, OnOrderFailure, Update, orderVars
  <2> QED
    BY <1>9, <2>1, InvalidateEffect DEF OrderFailed, Explained, LeavesRecord
<1>10. ASSUME NEW o \in Orders, OrderCompleted(o)
      PROVE  \A p \in Orders : Explained(p)
  <2>1. \A p \in Orders \ {o} : orders'[p] = orders[p]
    BY <1>0, <1>10 DEF OrderCompleted, OnOrderCompleted, Update
  <2> QED
    BY <1>10, <2>1, InvalidateEffect DEF OrderCompleted, Explained, LeavesRecord
<1>11. ASSUME NEW o \in Orders, OrderCancelled(o)
      PROVE  \A p \in Orders : Explained(p)
  <2>1. orders[o].status # "untracked" /\ xorders[o].status = "cancelled"
    BY <1>11 DEF OrderCancelled, UpdateAccepted
  <2>2. CASE ~Waiting(o) /\ OnOrderCancelled(o) /\ UNCHANGED records
    BY <2>2, CancelKeepsFills DEF Explained, LeavesRecord
  <2>3. CASE Waiting(o) /\ ReplacementDropped(o)
    BY <2>3, CancelKeepsFills, ResolveEffect
       DEF ReplacementDropped, Explained, LeavesRecord, Closes
  <2>4. CASE Waiting(o) /\ ReplacementRefused(o)
    <3>1. \A p \in Orders \ {o} : orders'[p] = orders[p]
      BY <1>0, <2>4 DEF ReplacementRefused
    <3> QED
      BY <2>4, <3>1, ResolveEffect DEF ReplacementRefused, Explained, LeavesRecord, Closes
  <2>5. CASE Waiting(o) /\ ReplacementRaises(o)
    BY <2>1, <2>5, RaisesBreaks DEF Explained, LeavesRecord
  <2>6. ASSUME NEW n \in Orders, Waiting(o), SubmitReplacement(o, n)
        PROVE  \A p \in Orders : Explained(p)
    BY <2>1, <2>6, SubmitReplaces DEF Explained, LeavesRecord, WaitingTracked
  <2> QED BY <1>11, <2>2, <2>3, <2>4, <2>5, <2>6 DEF OrderCancelled
<1>12. ASSUME GateBegin \/ GateReset \/ GateEvaluate
       PROVE  UNCHANGED <<orders, records>>
  BY <1>12 DEF GateBegin, GateReset, GateEvaluate, GateMoves, orderVars
<1> QED
  BY LiveCases, <1>1, <1>2, <1>3, <1>4, <1>5, <1>6, <1>7, <1>8, <1>9, <1>10,
     <1>11, <1>12

(* A step touches one record at most.                                      *)
LEMMA StepTouchesOneRecord ==
    ASSUME LiveTypeOK, LiveNext, NEW p \in Orders, NEW q \in Orders, p # q
    PROVE  records'[p] = records[p] \/ records'[q] = records[q]
<1>1. \/ UNCHANGED records
      \/ \E o \in Orders : \/ Invalidate(o)
                            \/ \E state, new : Resolve(o, state, new)
                            \/ \E r : records' = [records EXCEPT ![o] = r]
  <2>1. ASSUME NEW fill \in xfills, OrderFilled(fill)
        PROVE  \E o \in Orders : Invalidate(o)
    BY <2>1, FillTypes DEF OrderFilled, LiveTypeOK
  <2>2. ASSUME NEW o \in Orders, OrderCancelled(o)
        PROVE  \/ UNCHANGED records
               \/ \E state, new : Resolve(o, state, new)
               \/ \E r : records' = [records EXCEPT ![o] = r]
    BY <2>2 DEF OrderCancelled, ReplacementDropped, ReplacementRefused,
                ReplacementRaises, SubmitReplacement
  <2>3. ASSUME NEW o \in Orders, NEW i \in Instructions,
               NEW t \in Traces \cup {NoTrace}, Request(o, i, t)
        PROVE  \E r : records' = [records EXCEPT ![o] = r]
    BY <2>3 DEF Request
  <2> QED
    BY LiveCases, <2>1, <2>2, <2>3
       DEF XAccept, XRefuse, XCancel, XLose, XMove, XExecute, SubmitRefused, Submit,
           OrderCreated, OrderFailed, OrderCompleted, GateBegin, GateReset,
           GateEvaluate, GateMoves
<1>2. ASSUME NEW o \in Orders, Invalidate(o)
      PROVE  \A s \in Orders \ {o} : records'[s] = records[s]
  BY <1>2, InvalidateEffect
<1>3. ASSUME NEW o \in Orders, NEW state, NEW new, Resolve(o, state, new)
      PROVE  \A s \in Orders \ {o} : records'[s] = records[s]
  BY <1>3, ResolveEffect
<1>4. ASSUME NEW o \in Orders, NEW r, records' = [records EXCEPT ![o] = r]
      PROVE  \A s \in Orders \ {o} : records'[s] = records[s]
  BY <1>4 DEF LiveTypeOK
<1> QED BY <1>1, <1>2, <1>3, <1>4

(* A tracked order stays tracked, and one that is over stays what it was.  *)
LEMMA StepKeepsFinished ==
    ASSUME LiveTypeOK, LiveNext, NEW p \in Orders
    PROVE  /\ orders[p].status # "untracked" => orders'[p].status # "untracked"
           /\ Terminal(orders[p]) => /\ orders'[p].status = orders[p].status
                                     /\ orders'[p].filled = orders[p].filled
<1>0. orders \in [Orders -> OrderRecord(ExchangeIds)]
  BY DEF LiveTypeOK, TypeOK
<1>1. CASE \A o \in Orders : Keeps(o)
  BY <1>1 DEF Keeps
<1>2. ASSUME NEW n \in Orders, NEW i \in Instructions,
             NEW t \in Traces \cup {NoTrace}, Submit(n, i, t)
      PROVE  p # n => orders'[p] = orders[p]
  BY <1>0, <1>2 DEF Submit, Track
<1>3. ASSUME NEW n \in Orders, NEW i \in Instructions,
             NEW t \in Traces \cup {NoTrace}, Submit(n, i, t)
      PROVE  orders[n].status = "untracked"
  BY <1>3 DEF Submit, Unused
<1>4. ASSUME NEW o \in Orders, NEW n \in Orders, Waiting(o), OrderCancelled(o),
             SubmitReplacement(o, n)
      PROVE  /\ orders[p].status # "untracked" => orders'[p].status # "untracked"
             /\ Terminal(orders[p]) => /\ orders'[p].status = orders[p].status
                                       /\ orders'[p].filled = orders[p].filled
  <2>1. orders' = [orders EXCEPT ![o].status = "cancelled", ![n] = NewOrder]
        /\ orders[n].status = "untracked" /\ orders[o].status # "untracked"
        /\ UpdateAccepted(orders[o], [orders[o] EXCEPT !.status = "cancelled"])
    BY <1>4 DEF SubmitReplacement, Unused, OrderCancelled, UpdateAccepted
  <2>2. CASE p # o
    BY <1>0, <2>1, <2>2 DEF NewOrder, Terminal, TerminalStatuses
  <2>3. CASE p = o
    <3>1. orders'[o].status = "cancelled" /\ orders'[o].filled = orders[o].filled
      BY <1>0, <2>1 DEF OrderRecord
    <3>2. Terminal(orders[o]) => orders[o].status = "cancelled"
      <4>1. [orders[o] EXCEPT !.status = "cancelled"].status = "cancelled"
        BY <1>0 DEF OrderRecord
      <4> QED
        BY <2>1, <4>1 DEF UpdateAccepted, ValidTransition, AllowedTransitions,
                          Terminal, TerminalStatuses
    <3> QED BY <2>3, <3>1, <3>2
  <2> QED BY <2>2, <2>3
<1> QED
  BY LiveStepKeeps, <1>1, <1>2, <1>3, <1>4 DEF Terminal, TerminalStatuses

-----------------------------------------------------------------------------

(* A record that says "submitted" names an order.                          *)
SubmittedNames ==
    \A o \in Orders : records[o].state = "submitted" => records[o].new \in Orders

ReplacementInv == WaitingIsReplaceable /\ SubmittedNames /\ ReplacementFollowsCancel

LEMMA ReplacementInvStep ==
    ASSUME LiveTypeOK, ReplacementInv, LiveNext
    PROVE  ReplacementInv'
<1>0. WaitingIsReplaceable /\ SubmittedNames /\ ReplacementFollowsCancel
  BY DEF ReplacementInv
<1>1. \A p \in Orders : Explained(p)
  <2>1. WaitingTracked
    BY <1>0 DEF WaitingIsReplaceable, WaitingTracked, Active, ActiveStatuses, OrderStatus
  <2> QED BY <2>1, StepExplained
<1>2. WaitingIsReplaceable'
  <2> SUFFICES ASSUME NEW o \in Orders, Waiting(o)'
               PROVE  /\ orders'[o].filled = records'[o].filledAtRequest
                      /\ IF records'[o].raised
                           THEN /\ orders'[o].status = "cancelled"
                                /\ xorders'[o].status = "cancelled"
                           ELSE Active(orders'[o])
    BY DEF WaitingIsReplaceable
  <2>1. CASE LeavesRecord(o)
    <3>1. Waiting(o) /\ orders'[o].filled = records'[o].filledAtRequest
      BY <1>0, <2>1 DEF LeavesRecord, WaitingIsReplaceable, Waiting
    <3>2. CASE records[o].raised
      <4>1. orders[o].status = "cancelled" /\ xorders[o].status = "cancelled"
        BY <1>0, <3>1, <3>2 DEF WaitingIsReplaceable
      <4>2. orders'[o].status = "cancelled"
        BY <4>1, StepKeepsFinished DEF Terminal, TerminalStatuses
      <4>3. xorders'[o].status = "cancelled"
        BY <4>1, StepKeepsExchange DEF ExchangeKeeps, Unused
      <4> QED BY <2>1, <3>1, <3>2, <4>2, <4>3 DEF LeavesRecord
    <3>3. CASE ~records[o].raised
      BY <1>0, <2>1, <3>1, <3>3 DEF LeavesRecord, WaitingIsReplaceable
    <3> QED BY <3>2, <3>3
  <2>2. CASE Opens(o)
    BY <2>2 DEF Opens
  <2>3. CASE Closes(o) \/ Replaces(o)
    BY <2>3 DEF Closes, Replaces, Waiting
  <2>4. CASE Breaks(o)
    BY <1>0, <2>4 DEF Breaks, WaitingIsReplaceable
  <2> QED BY <1>1, <2>1, <2>2, <2>3, <2>4 DEF Explained
<1>3. SubmittedNames'
  BY <1>0, <1>1 DEF SubmittedNames, Explained, LeavesRecord, Opens, Closes, Replaces,
                    Breaks
<1>4. ReplacementFollowsCancel'
  <2> SUFFICES ASSUME NEW o \in Orders, records'[o].state = "submitted"
               PROVE  /\ orders'[o].status = "cancelled"
                      /\ orders'[o].filled = records'[o].filledAtRequest
                      /\ xorders'[o].status = "cancelled"
                      /\ orders'[records'[o].new].status # "untracked"
                      /\ xorders'[records'[o].new].instruction = records'[o].instruction
                      /\ \A p \in Orders \ {o} :
                            records'[p].state = "submitted"
                              => records'[p].new # records'[o].new
    BY DEF ReplacementFollowsCancel
  <2>1. \A p \in Orders : records'[p].state = "submitted"
                           => \/ /\ LeavesRecord(p)
                                 /\ records[p].state = "submitted"
                                 /\ records[p].new \in Orders
                                 /\ orders[records[p].new].status # "untracked"
                              \/ Replaces(p)
    BY <1>0, <1>1 DEF Explained, Opens, Closes, LeavesRecord, Breaks, SubmittedNames,
                      ReplacementFollowsCancel
  <2>2. \A p \in Orders \ {o} : records'[p].state = "submitted"
                                 => records'[p].new # records'[o].new
    <3> SUFFICES ASSUME NEW p \in Orders \ {o}, records'[p].state = "submitted",
                        records'[p].new = records'[o].new
                 PROVE  FALSE
      OBVIOUS
    <3>1. CASE LeavesRecord(o) /\ LeavesRecord(p)
      BY <1>0, <3>1 DEF LeavesRecord, ReplacementFollowsCancel
    <3>2. CASE Replaces(o) /\ Replaces(p)
      BY <3>2, StepTouchesOneRecord DEF Replaces, Waiting
    <3>3. CASE Replaces(o) /\ LeavesRecord(p) /\ ~Replaces(p)
      BY <2>1, <3>3 DEF Replaces, LeavesRecord, Unused
    <3>4. CASE LeavesRecord(o) /\ ~Replaces(o) /\ Replaces(p)
      BY <2>1, <3>4 DEF Replaces, LeavesRecord, Unused
    <3> QED BY <2>1, <3>1, <3>2, <3>3, <3>4
  <2>3. CASE Replaces(o)
    <3>1. xorders'[o].status = "cancelled"
      <4>1. ~Unused(o) /\ xorders[o].status = "cancelled"
        BY <2>3 DEF Replaces, Unused
      <4> QED BY <4>1, StepKeepsExchange DEF ExchangeKeeps
    <3>2. orders'[o].filled = records'[o].filledAtRequest
      BY <1>0, <2>3 DEF Replaces, WaitingIsReplaceable
    <3> QED BY <2>2, <2>3, <3>1, <3>2 DEF Replaces
  <2>4. CASE LeavesRecord(o) /\ records[o].state = "submitted"
    <3>1. /\ orders[o].status = "cancelled"
          /\ orders[o].filled = records[o].filledAtRequest
          /\ xorders[o].status = "cancelled"
          /\ records[o].new \in Orders
          /\ orders[records[o].new].status # "untracked"
          /\ xorders[records[o].new].instruction = records[o].instruction
      BY <1>0, <2>4 DEF ReplacementFollowsCancel, SubmittedNames
    <3>2. orders'[o].status = "cancelled" /\ orders'[o].filled = orders[o].filled
      BY <3>1, StepKeepsFinished DEF Terminal, TerminalStatuses
    <3>3. orders'[records[o].new].status # "untracked"
      BY <3>1, StepKeepsFinished
    <3>4. xorders'[o].status = "cancelled"
          /\ xorders'[records[o].new].instruction = records[o].instruction
      BY <3>1, StepKeepsExchange DEF ExchangeKeeps, Unused
    <3> QED BY <2>2, <2>4, <3>1, <3>2, <3>3, <3>4 DEF LeavesRecord
  <2> QED BY <2>1, <2>3, <2>4
<1> QED BY <1>2, <1>3, <1>4 DEF ReplacementInv

LEMMA ReplacementInvHolds == LiveSpec => []ReplacementInv
<1>1. LiveInit => ReplacementInv
  BY DEF LiveInit, ReplacementInv, WaitingIsReplaceable, SubmittedNames,
         ReplacementFollowsCancel, Waiting, NoRecord
<1>2. LiveTypeOK /\ ReplacementInv /\ [LiveNext]_liveVars => ReplacementInv'
  <2>1. ASSUME ReplacementInv, UNCHANGED liveVars PROVE ReplacementInv'
    BY <2>1 DEF ReplacementInv, WaitingIsReplaceable, SubmittedNames,
         ReplacementFollowsCancel, Waiting, liveVars, orderVars, xVars
  <2> QED BY <2>1, ReplacementInvStep
<1> QED BY <1>1, <1>2, LiveTypes, PTL DEF LiveSpec

(* ReplacementFollowsCancel: with lost, repeated and reordered events, and *)
(* whatever traces callers choose, a replacement exists only for an order  *)
(* that is confirmed cancelled and was untouched since the request.        *)
THEOREM ReplacementFollows == LiveSpec => []ReplacementFollowsCancel
BY ReplacementInvHolds, PTL DEF ReplacementInv

(* WaitingIsReplaceable: a record waits only for an order that is live and *)
(* has filled nothing since the request, or for one that was cancelled     *)
(* under it while an exception left the handler.                           *)
THEOREM WaitingStaysReplaceable == LiveSpec => []WaitingIsReplaceable
BY ReplacementInvHolds, PTL DEF ReplacementInv

-----------------------------------------------------------------------------
(***************************************************************************)
(* The live machinery implements QuoteSlots: a replacement is one swap.    *)
(***************************************************************************)

(* The mapped variables of QuoteSlots.                                     *)

Used == {o \in Orders : orders[o].status # "untracked"}

Asked == {o \in Orders : Waiting(o)}

(* Orders that keep their status keep their places.                        *)
LEMMA SameStatus ==
    ASSUME LiveTypeOK, \A p \in Orders : orders'[p].status = orders[p].status
    PROVE  Used' = Used /\ ActiveOrders' = ActiveOrders
BY DEF Used, ActiveOrders, Active

(* One order that ends leaves the others their places.                     *)
LEMMA EndedStatus ==
    ASSUME LiveTypeOK, NEW o \in Orders, orders[o].status # "untracked",
           orders'[o].status \in TerminalStatuses,
           \A p \in Orders \ {o} : orders'[p].status = orders[p].status
    PROVE  Used' = Used /\ ActiveOrders' = ActiveOrders \ {o}
BY DEF Used, ActiveOrders, Active, ActiveStatuses, TerminalStatuses

(* What resolving a record does to the waiting ones.                       *)
LEMMA ResolvedAsked ==
    ASSUME LiveTypeOK, NEW o \in Orders, NEW state, NEW new,
           Resolve(o, state, new), state # "waiting_for_cancel"
    PROVE  Asked' = Asked \ {o}
BY ResolveEffect DEF Asked, Waiting

LEMMA InvalidatedAsked ==
    ASSUME LiveTypeOK, NEW o \in Orders, Invalidate(o)
    PROVE  Asked' = Asked \ {o}
BY ResolvedAsked DEF Invalidate, Asked, Waiting

SlotStep == [Slots!SlotNext]_(Slots!slotVars)

(* The kinds of steps that are no new order.                               *)
LEMMA NoNewOrder ==
    ASSUME NEW o \in Orders, Used' = Used,
           \/ ActiveOrders' = ActiveOrders /\ Asked' = Asked
           \/ ActiveOrders' = ActiveOrders /\ Asked' = Asked \ {o}
           \/ ActiveOrders' = ActiveOrders \ {o} /\ Asked' = Asked \ {o}
           \/ o \in Asked /\ ActiveOrders' = ActiveOrders \ {o} /\ Asked' = Asked
    PROVE  SlotStep
<1>1. CASE ActiveOrders' = ActiveOrders /\ Asked' = Asked
  BY <1>1 DEF SlotStep, Slots!slotVars, Used, Asked
<1>2. CASE ActiveOrders' = ActiveOrders /\ Asked' = Asked \ {o}
  <2>1. Slots!Withdraw(o)
    BY <1>2 DEF Slots!Withdraw, Used, Asked
  <2> QED BY <2>1 DEF SlotStep, Slots!SlotNext
<1>3. CASE o \in ActiveOrders /\ ActiveOrders' = ActiveOrders \ {o}
           /\ Asked' = Asked \ {o}
  <2>1. Slots!End(o)
    BY <1>3 DEF Slots!End, Used, Asked
  <2> QED BY <2>1 DEF SlotStep, Slots!SlotNext
<1>4. CASE o \in Asked /\ o \in ActiveOrders /\ ActiveOrders' = ActiveOrders \ {o}
           /\ Asked' = Asked
  <2>1. Slots!Stall(o)
    BY <1>4 DEF Slots!Stall, Used, Asked
  <2> QED BY <2>1 DEF SlotStep, Slots!SlotNext
<1> QED BY <1>1, <1>2, <1>3, <1>4

LEMMA SubmitPlaces ==
    ASSUME LiveTypeOK, NEW n \in Orders, NEW i \in Instructions,
           NEW t \in Traces \cup {NoTrace}, Submit(n, i, t)
    PROVE  SlotStep
<1>1. orders' = [orders EXCEPT ![n] = NewOrder] /\ orders[n].status = "untracked"
      /\ UNCHANGED records
  BY DEF Submit, Track
<1>2. orders \in [Orders -> OrderRecord(ExchangeIds)]
  BY DEF LiveTypeOK, TypeOK
<1>3. n \notin Used /\ Used' = Used \cup {n}
  BY <1>1, <1>2 DEF Used, NewOrder
<1>4. ActiveOrders' = ActiveOrders \cup {n}
  BY <1>1, <1>2 DEF ActiveOrders, Active, NewOrder, ActiveStatuses, OrderStatus,
                    TerminalStatuses
<1>5. Asked' = Asked
  BY <1>1 DEF Asked, Waiting
<1>6. Cardinality(ActiveOrders) < MaxOpenOrders
  BY DEF Submit, Approved
<1>7. Slots!Cardinality(ActiveOrders) = Cardinality(ActiveOrders)
  BY DEF Slots!Cardinality, Cardinality
<1>8. Slots!Place(n)
  BY <1>3, <1>4, <1>5, <1>6, <1>7 DEF Slots!Place, Used, Asked
<1> QED BY <1>8 DEF SlotStep, Slots!SlotNext

LEMMA RequestAsks ==
    ASSUME LiveTypeOK, NEW o \in Orders, NEW i \in Instructions,
           NEW t \in Traces \cup {NoTrace}, Request(o, i, t)
    PROVE  SlotStep
<1>1. o \in ActiveOrders \ Asked
  BY DEF Request, ActiveOrders, Asked
<1>2. Asked' = Asked \cup {o}
  BY DEF Request, Asked, Waiting, LiveTypeOK
<1>3. Used' = Used /\ ActiveOrders' = ActiveOrders
  BY DEF Request, orderVars, Used, ActiveOrders
<1>4. Slots!Ask(o)
  BY <1>1, <1>2, <1>3 DEF Slots!Ask, Used, Asked
<1> QED BY <1>4 DEF SlotStep, Slots!SlotNext

LEMMA SubmitReplacementSwaps ==
    ASSUME LiveTypeOK, NEW o \in Orders, NEW n \in Orders, Waiting(o),
           orders[o].status # "untracked", SubmitReplacement(o, n)
    PROVE  SlotStep
<1>1. orders' = [orders EXCEPT ![o].status = "cancelled", ![n] = NewOrder]
      /\ orders[n].status = "untracked" /\ n # o
  BY DEF SubmitReplacement, Unused
<1>2. orders \in [Orders -> OrderRecord(ExchangeIds)]
  BY DEF LiveTypeOK, TypeOK
<1>3. /\ orders'[o].status = "cancelled"
      /\ orders'[n].status = "pending"
      /\ \A p \in Orders \ {o, n} : orders'[p].status = orders[p].status
  BY <1>1, <1>2 DEF OrderRecord, NewOrder
<1>4. n \notin Used /\ Used' = Used \cup {n}
  BY <1>1, <1>3 DEF Used
<1>5. ActiveOrders' = (ActiveOrders \ {o}) \cup {n}
  BY <1>1, <1>3 DEF ActiveOrders, Active, ActiveStatuses, OrderStatus, TerminalStatuses
<1>6. o \in Asked /\ Asked' = Asked \ {o}
  BY ResolvedAsked DEF SubmitReplacement, Asked
<1>7. Cardinality(ActiveOrders \ {o}) < MaxOpenOrders
  BY DEF SubmitReplacement, ClientCalled, Approved
<1>8. Slots!Cardinality(ActiveOrders \ {o}) = Cardinality(ActiveOrders \ {o})
  BY DEF Slots!Cardinality, Cardinality
<1>9. Slots!Swap(o, n)
  BY <1>4, <1>5, <1>6, <1>7, <1>8 DEF Slots!Swap, Used, Asked
<1> QED BY <1>9 DEF SlotStep, Slots!SlotNext

(* The bridge's handlers that submit nothing.                              *)
LEMMA EventEndsOrLeaves ==
    ASSUME LiveTypeOK, NEW o \in Orders,
           \/ OrderCreated(o) \/ OrderFailed(o) \/ OrderCompleted(o)
           \/ \E fill \in xfills : fill.order = o /\ OrderFilled(fill)
    PROVE  SlotStep
<1>1. orders \in [Orders -> OrderRecord(ExchangeIds)]
  BY DEF LiveTypeOK, TypeOK
<1>2. CASE OrderCreated(o)
  <2>1. UNCHANGED records /\ \A p \in Orders : Active(orders'[p]) = Active(orders[p])
        /\ (orders'[p].status = "untracked") = (orders[p].status = "untracked")
    BY <1>1, <1>2 DEF OrderCreated, OnOrderCreated, Update, OrderRecord, Active,
                      ActiveStatuses, OrderStatus, TerminalStatuses
  <2>2. Used' = Used /\ ActiveOrders' = ActiveOrders /\ Asked' = Asked
    BY <2>1 DEF Used, ActiveOrders, Asked, Waiting
  <2> QED BY <2>2, NoNewOrder
<1>3. CASE OrderFailed(o)
  <2>1. Asked' = Asked \ {o}
    BY <1>3, InvalidatedAsked DEF OrderFailed
  <2>2. CASE OnOrderFailure(o)
    <3>1. orders[o].status # "untracked" /\ orders'[o].status = "rejected"
          /\ \A p \in Orders \ {o} : orders'[p].status = orders[p].status
      BY <1>1, <2>2 DEF OnOrderFailure, Update, UpdateAccepted, OrderRecord
    <3> QED BY <2>1, <3>1, EndedStatus, NoNewOrder DEF TerminalStatuses
  <2>3. CASE UNCHANGED orderVars
    BY <2>1, <2>3, SameStatus, NoNewOrder DEF orderVars
  <2> QED BY <1>3, <2>2, <2>3 DEF OrderFailed
<1>4. CASE OrderCompleted(o)
  <2>1. Asked' = Asked \ {o}
    BY <1>4, InvalidatedAsked DEF OrderCompleted
  <2>2. orders[o].status # "untracked" /\ orders'[o].status = "filled"
        /\ \A p \in Orders \ {o} : orders'[p].status = orders[p].status
    BY <1>1, <1>4 DEF OrderCompleted, OnOrderCompleted, Update, UpdateAccepted, OrderRecord
  <2> QED BY <2>1, <2>2, EndedStatus, NoNewOrder DEF TerminalStatuses
<1>5. ASSUME NEW fill \in xfills, fill.order = o, OrderFilled(fill)
      PROVE  SlotStep
  <2>1. Asked' = Asked \ {o}
    BY <1>5, InvalidatedAsked DEF OrderFilled
  <2>2. /\ orders'[o].status = "partially_filled"
        /\ \A p \in Orders \ {o} : orders'[p] = orders[p]
        /\ orders[o].status # "untracked"
        /\ ValidTransition(orders[o].status, "partially_filled")
    BY <1>1, <1>5 DEF OrderFilled, OnOrderFilled, Update, UpdateAccepted
  <2>3. Active(orders[o]) /\ Active(orders'[o])
    BY <1>1, <2>2 DEF ValidTransition, AllowedTransitions, Active, ActiveStatuses,
          OrderStatus, TerminalStatuses, OrderRecord, TrackedStatus
  <2>4. Used' = Used /\ ActiveOrders' = ActiveOrders
    BY <2>2, <2>3 DEF Used, ActiveOrders
  <2> QED BY <2>1, <2>4, NoNewOrder
<1> QED BY <1>2, <1>3, <1>4, <1>5

(* A confirmed cancellation ends the order, swaps it or leaves it asked.   *)
LEMMA CancellationEndsOrSwaps ==
    ASSUME LiveTypeOK, NEW o \in Orders, OrderCancelled(o)
    PROVE  SlotStep
<1>1. orders \in [Orders -> OrderRecord(ExchangeIds)]
  BY DEF LiveTypeOK, TypeOK
<1>2. orders[o].status # "untracked"
  BY DEF OrderCancelled, UpdateAccepted
<1>3. ASSUME orders' = [orders EXCEPT ![o].status = "cancelled"]
      PROVE  Used' = Used /\ ActiveOrders' = ActiveOrders \ {o}
  <2>1. orders'[o].status = "cancelled"
        /\ \A p \in Orders \ {o} : orders'[p].status = orders[p].status
    BY <1>1, <1>3 DEF OrderRecord
  <2> QED BY <1>2, <2>1, EndedStatus DEF TerminalStatuses
<1>4. OnOrderCancelled(o) => orders' = [orders EXCEPT ![o].status = "cancelled"]
  BY DEF OnOrderCancelled, Update
<1>5. CASE ~Waiting(o) /\ OnOrderCancelled(o) /\ UNCHANGED records
  <2>1. Asked' = Asked \ {o}
    BY <1>5 DEF Asked, Waiting
  <2> QED BY <1>3, <1>4, <1>5, <2>1, NoNewOrder
<1>6. CASE ReplacementDropped(o) \/ ReplacementRefused(o)
  <2>1. Asked' = Asked \ {o}
    BY <1>6, ResolvedAsked DEF ReplacementDropped, ReplacementRefused
  <2> QED
    BY <1>3, <1>4, <1>6, <2>1, NoNewOrder DEF ReplacementDropped, ReplacementRefused
<1>7. CASE Waiting(o) /\ ReplacementRaises(o)
  <2>1. o \in Asked /\ Asked' = Asked
    <3>1. xorders[o].status = "cancelled"
      BY DEF OrderCancelled
    <3>2. Waiting(o)' /\ \A p \in Orders \ {o} : records'[p] = records[p]
      BY <1>7, <3>1, RaisesBreaks DEF Breaks, Waiting
    <3> QED BY <1>7, <3>2 DEF Asked, Waiting
  <2> QED BY <1>3, <1>7, <2>1, NoNewOrder DEF ReplacementRaises
<1>8. ASSUME Waiting(o), NEW n \in Orders, SubmitReplacement(o, n)
      PROVE  SlotStep
  BY <1>2, <1>8, SubmitReplacementSwaps
<1> QED BY <1>5, <1>6, <1>7, <1>8 DEF OrderCancelled

-----------------------------------------------------------------------------

LEMMA StepImplements ==
    ASSUME LiveTypeOK, LiveNext
    PROVE  SlotStep
<1>1. UNCHANGED <<orders, records>> => SlotStep
  BY DEF SlotStep, Slots!slotVars, ActiveOrders, Waiting
<1>2. ASSUME NEW fill \in xfills, OrderFilled(fill)
      PROVE  SlotStep
  BY <1>2, FillTypes, EventEndsOrLeaves DEF LiveTypeOK
<1>3. ASSUME NEW o \in Orders, NEW id \in FillIds, NEW quantity \in Quantities,
             XExecute(o, id, quantity)
      PROVE  UNCHANGED <<orders, records>>
  BY <1>3 DEF XExecute, orderVars
<1>4. ASSUME NEW t \in Traces, SubmitRefused(t)
      PROVE  UNCHANGED <<orders, records>>
  BY <1>4 DEF SubmitRefused, RefusedByClient
<1>5. ASSUME NEW o \in Orders, XAccept(o) \/ XRefuse(o) \/ XCancel(o) \/ XLose(o)
      PROVE  UNCHANGED <<orders, records>>
  BY <1>5 DEF XAccept, XRefuse, XCancel, XLose, XMove, orderVars
<1>6. ASSUME GateBegin \/ GateReset \/ GateEvaluate
      PROVE  UNCHANGED <<orders, records>>
  BY <1>6 DEF GateBegin, GateReset, GateEvaluate, GateMoves, orderVars
<1> QED
  BY LiveCases, <1>1, <1>2, <1>3, <1>4, <1>5, <1>6, SubmitPlaces, RequestAsks,
     EventEndsOrLeaves, CancellationEndsOrSwaps

(* ReplacesAtomically: every behaviour of the live machinery, the ones in  *)
(* which an exception leaves a handler included, is one of QuoteSlots.     *)
THEOREM LiveImplementsSlots == LiveSpec => ReplacesAtomically
<1>1. LiveInit => Slots!SlotInit
  BY DEF LiveInit, OrderInit, Slots!SlotInit, ActiveOrders, Active, Untracked,
         ActiveStatuses, OrderStatus, Waiting, NoRecord
<1>2. LiveTypeOK /\ [LiveNext]_liveVars => SlotStep
  <2>1. ASSUME UNCHANGED liveVars PROVE SlotStep
    BY <2>1 DEF SlotStep, Slots!slotVars, liveVars, orderVars, ActiveOrders, Waiting
  <2> QED BY <2>1, StepImplements
<1> QED
  BY <1>1, <1>2, LiveTypes, PTL
     DEF LiveSpec, ReplacesAtomically, Slots!SlotSpec, SlotStep

-----------------------------------------------------------------------------
(***************************************************************************)
(* The account's position.                                                 *)
(*                                                                         *)
(* PositionIsSumOfFills is not inductive: it needs that a tracked order is *)
(* one the exchange has been given, and that an execution carries the coin *)
(* and the side of its order (FillsInv).                                   *)
(***************************************************************************)

OnExchange(o) == xorders[o].status # "none"

(* An execution belongs to its order, its id is its own, and what has been *)
(* booked was executed.                                                    *)
FillsBelong ==
    /\ IsFiniteSet(xfills)
    /\ \A f \in xfills : /\ OnExchange(f.order)
                         /\ f.coin = xorders[f.order].instruction.coin
                         /\ f.side = xorders[f.order].instruction.side
    /\ \A f, g \in xfills : f.id = g.id => f = g
    /\ fillIds \subseteq {f.id : f \in xfills}

TrackedOnExchange ==
    \A o \in Orders : orders[o].status # "untracked" => OnExchange(o)

-----------------------------------------------------------------------------
(* The steps, seen from the account.                                       *)

(* Nothing is booked.                                                      *)
Quiet ==
    /\ UNCHANGED <<fillIds, position>>
    /\ \A o \in Orders : orders'[o].filled = orders[o].filled

(* The execution is booked, in the tracker and in the account.             *)
Books(fill) ==
    /\ fill.id \notin fillIds
    /\ fillIds' = fillIds \cup {fill.id}
    /\ Active(orders[fill.order])
    /\ Active(orders'[fill.order])
    /\ \A o \in Orders \ {fill.order} : orders'[o] = orders[o]
    /\ orders'[fill.order].filled = orders[fill.order].filled + fill.quantity
    /\ position'[fill.coin] = position[fill.coin] + fill.side * fill.quantity
    /\ \A c \in Coins \ {fill.coin} : position'[c] = position[c]
    /\ UNCHANGED xVars

LEMMA FilledBooks ==
    ASSUME LiveTypeOK, NEW fill \in xfills, OrderFilled(fill)
    PROVE  Books(fill)
<1>0. /\ orders \in [Orders -> OrderRecord(ExchangeIds)]
      /\ position \in [Coins -> Int]
      /\ fill \in Fill
  BY DEF LiveTypeOK, TypeOK
<1>1. fill.order \in Orders /\ fill.coin \in Coins
  BY <1>0, FillTypes
<1> DEFINE new == [status     |-> "partially_filled",
                   exchangeId |-> KnownOr(fill.exchangeId, orders[fill.order].exchangeId),
                   filled     |-> orders[fill.order].filled + fill.quantity]
<1>2. /\ fill.id \notin fillIds
      /\ fillIds' = fillIds \cup {fill.id}
      /\ UpdateAccepted(orders[fill.order], new)
      /\ orders' = [orders EXCEPT ![fill.order] = new]
      /\ position' = [position EXCEPT ![fill.coin] = @ + SignedQuantity(fill)]
      /\ UNCHANGED xVars
  BY DEF OrderFilled, OnOrderFilled, Update
<1>3. /\ new.filled = orders[fill.order].filled + fill.quantity
      /\ new.status = "partially_filled"
  OBVIOUS
<1> HIDE DEF new
<1>4. Active(orders[fill.order]) /\ Active(new)
  <2>1. orders[fill.order].status \in TrackedStatus
    BY <1>0, <1>1 DEF OrderRecord
  <2>2. /\ orders[fill.order].status # "untracked"
        /\ ValidTransition(orders[fill.order].status, "partially_filled")
    BY <1>2, <1>3 DEF UpdateAccepted
  <2> QED
    BY <1>3, <2>1, <2>2 DEF ValidTransition, AllowedTransitions, Active, ActiveStatuses,
                          TerminalStatuses, OrderStatus, TrackedStatus
<1>5. /\ orders'[fill.order] = new
      /\ \A o \in Orders \ {fill.order} : orders'[o] = orders[o]
  BY <1>0, <1>1, <1>2
<1>6. /\ position'[fill.coin] = position[fill.coin] + fill.side * fill.quantity
      /\ \A c \in Coins \ {fill.coin} : position'[c] = position[c]
  BY <1>0, <1>1, <1>2 DEF SignedQuantity
<1> QED BY <1>2, <1>3, <1>4, <1>5, <1>6 DEF Books

LEMMA StepBooks ==
    ASSUME LiveTypeOK, UntrackedIsBlank, LiveNext
    PROVE  Quiet \/ \E fill \in xfills : OrderFilled(fill)
<1>1. CASE UNCHANGED fillIds
  <2>1. [Together]_orderVars
    BY LiveStepMoves
  <2>2. CASE UNCHANGED orderVars
    BY <2>2 DEF orderVars, Quiet
  <2>3. CASE Together
    BY <1>1, <2>3 DEF Together, Quiet
  <2> QED BY <2>1, <2>2, <2>3
<1>2. UNCHANGED fillIds \/ \E fill \in xfills : OrderFilled(fill)
  <2>1. ASSUME NEW o \in Orders, OrderCancelled(o)
        PROVE  UNCHANGED fillIds
    BY <2>1 DEF OrderCancelled, OnOrderCancelled, ReplacementDropped, ReplacementRefused,
                ReplacementRaises, SubmitReplacement
  <2>2. ASSUME NEW o \in Orders, XAccept(o) \/ XRefuse(o) \/ XCancel(o) \/ XLose(o)
        PROVE  UNCHANGED fillIds
    BY <2>2 DEF XAccept, XRefuse, XCancel, XLose, XMove, orderVars
  <2>3. ASSUME NEW o \in Orders, OrderCreated(o) \/ OrderFailed(o) \/ OrderCompleted(o)
        PROVE  UNCHANGED fillIds
    BY <2>3 DEF OrderCreated, OnOrderCreated, OrderFailed, OnOrderFailure,
                OrderCompleted, OnOrderCompleted, orderVars
  <2>4. ASSUME NEW o \in Orders, NEW i \in Instructions, NEW t \in Traces \cup {NoTrace},
               Submit(o, i, t) \/ Request(o, i, t)
        PROVE  UNCHANGED fillIds
    BY <2>4 DEF Submit, Track, Request, orderVars
  <2>5. ASSUME NEW t \in Traces, SubmitRefused(t)
        PROVE  UNCHANGED fillIds
    BY <2>5 DEF SubmitRefused, RefusedByClient
  <2> QED
    BY LiveCases, <2>1, <2>2, <2>3, <2>4, <2>5
       DEF XExecute, GateBegin, GateReset, GateEvaluate, GateMoves, orderVars
<1> QED BY <1>1, <1>2

LEMMA FilledTypes ==
    ASSUME LiveTypeOK
    PROVE  \A o \in Orders : orders[o].filled \in Nat /\ xorders[o].filled \in Nat
<1> SUFFICES ASSUME NEW o \in Orders
             PROVE  orders[o].filled \in Nat /\ xorders[o].filled \in Nat
  OBVIOUS
<1>1. orders[o] \in OrderRecord(ExchangeIds) /\ xorders[o] \in XOrder \cup {NoXOrder}
  BY DEF LiveTypeOK, TypeOK
<1>2. orders[o].filled \in Nat
  BY <1>1 DEF OrderRecord
<1>3. xorders[o].filled \in Nat
  BY <1>1 DEF XOrder, NoXOrder
<1> QED BY <1>2, <1>3

(* What happens to an order on the exchange while nothing executes.        *)
StaysOnExchange(p) ==
    \/ xorders'[p] = xorders[p]
    \/ /\ OnExchange(p)
       /\ xorders'[p].status # "none"
       /\ xorders'[p].instruction = xorders[p].instruction
    \/ Unused(p) /\ xorders'[p].status # "none"

LEMMA PlacedStays ==
    ASSUME LiveTypeOK, NEW n \in Orders, NEW i, Unused(n), XSubmit(n, i)
    PROVE  \A p \in Orders : StaysOnExchange(p)
BY DEF XSubmit, StaysOnExchange, LiveTypeOK

LEMMA ExchangeSteps ==
    ASSUME LiveTypeOK, LiveNext
    PROVE  \/ \E o \in Orders, id \in FillIds, quantity \in Quantities :
                 XExecute(o, id, quantity)
           \/ UNCHANGED xfills /\ \A p \in Orders : StaysOnExchange(p)
<1>0. UNCHANGED xorders => \A p \in Orders : StaysOnExchange(p)
  BY DEF StaysOnExchange
<1>1. ASSUME NEW o \in Orders, XAccept(o) \/ XRefuse(o) \/ XCancel(o) \/ XLose(o)
      PROVE  UNCHANGED xfills /\ \A p \in Orders : StaysOnExchange(p)
  <2>1. PICK to \in XStatus \ {"none"} :
           /\ xorders[o].status # "none"
           /\ xorders' = [xorders EXCEPT ![o].status = to]
           /\ UNCHANGED xfills
    BY <1>1 DEF XAccept, XRefuse, XCancel, XLose, XMove, XStatus
  <2>2. xorders[o] \in XOrder
    BY <2>1 DEF LiveTypeOK, NoXOrder
  <2>3. /\ [xorders[o] EXCEPT !.status = to].instruction = xorders[o].instruction
        /\ [xorders[o] EXCEPT !.status = to].status = to
    BY <2>2 DEF XOrder
  <2> QED BY <2>1, <2>3 DEF StaysOnExchange, LiveTypeOK, OnExchange
<1>2. ASSUME NEW t \in Traces, SubmitRefused(t)
      PROVE  UNCHANGED <<xorders, xfills>>
  BY <1>2 DEF SubmitRefused, xVars
<1>3. ASSUME NEW n \in Orders, NEW i \in Instructions,
             NEW t \in Traces \cup {NoTrace}, Submit(n, i, t)
      PROVE  UNCHANGED xfills /\ \A p \in Orders : StaysOnExchange(p)
  BY <1>3, PlacedStays DEF Submit
<1>4. ASSUME NEW o \in Orders, NEW i \in Instructions,
             NEW t \in Traces \cup {NoTrace}, Request(o, i, t)
      PROVE  UNCHANGED <<xorders, xfills>>
  BY <1>4 DEF Request, xVars
<1>5. ASSUME NEW fill \in xfills, OrderFilled(fill)
      PROVE  UNCHANGED <<xorders, xfills>>
  BY <1>5 DEF OrderFilled, xVars
<1>6. ASSUME NEW o \in Orders, OrderCreated(o) \/ OrderFailed(o) \/ OrderCompleted(o)
      PROVE  UNCHANGED <<xorders, xfills>>
  BY <1>6 DEF OrderCreated, OrderFailed, OrderCompleted, xVars
<1>7. ASSUME NEW o \in Orders, OrderCancelled(o)
      PROVE  UNCHANGED xfills /\ \A p \in Orders : StaysOnExchange(p)
  <2>1. ASSUME NEW n \in Orders, Waiting(o), SubmitReplacement(o, n)
        PROVE  UNCHANGED xfills /\ \A p \in Orders : StaysOnExchange(p)
    BY <2>1, PlacedStays DEF SubmitReplacement
  <2> QED
    BY <1>0, <1>7, <2>1
       DEF OrderCancelled, ReplacementDropped, ReplacementRefused, ReplacementRaises, xVars
<1>8. ASSUME GateBegin \/ GateReset \/ GateEvaluate
      PROVE  UNCHANGED <<xorders, xfills>>
  BY <1>8 DEF GateBegin, GateReset, GateEvaluate, GateMoves, xVars
<1> QED
  BY LiveCases, <1>0, <1>1, <1>2, <1>3, <1>4, <1>5, <1>6, <1>7, <1>8

(* An execution, field by field.                                           *)
Executes(o, fill) ==
    /\ OnExchange(o)
    /\ fill \in Fill
    /\ fill.order = o
    /\ fill.coin = xorders[o].instruction.coin
    /\ fill.side = xorders[o].instruction.side
    /\ \A f \in xfills : f.id # fill.id
    /\ xfills' = xfills \cup {fill}
    /\ xorders'[o].status # "none"
    /\ xorders'[o].instruction = xorders[o].instruction
    /\ \A p \in Orders \ {o} : xorders'[p] = xorders[p]
    /\ UNCHANGED orderVars

LEMMA XExecuteExecutes ==
    ASSUME LiveTypeOK, NEW o \in Orders, NEW id \in FillIds,
           NEW quantity \in Quantities, XExecute(o, id, quantity)
    PROVE  \E fill \in Fill : Executes(o, fill)
<1> DEFINE i == xorders[o].instruction
           fill == [id |-> id, order |-> o, coin |-> i.coin, side |-> i.side,
                    quantity |-> quantity, exchangeId |-> o]
           done == [xorders[o] EXCEPT
                      !.filled = @ + quantity,
                      !.status = IF xorders[o].filled + quantity = xorders[o].amount
                                   THEN "filled" ELSE @]
<1>1. /\ xorders[o].status = "working"
      /\ \A f \in xfills : f.id # id
      /\ xfills' = xfills \cup {fill}
      /\ xorders' = [xorders EXCEPT ![o] = done]
      /\ UNCHANGED orderVars
  BY DEF XExecute, LiveTypeOK
<1>2. xorders[o] \in XOrder
  BY <1>1 DEF LiveTypeOK, NoXOrder
<1>3. i \in Instruction
  BY <1>2, LiveAssumption DEF XOrder
<1>4. fill \in Fill
  BY <1>3, LiveAssumption DEF Fill, Instruction
<1>5. done.status # "none" /\ done.instruction = i
  BY <1>1, <1>2 DEF XOrder
<1>6. /\ fill.id = id /\ fill.order = o /\ fill.coin = i.coin /\ fill.side = i.side
  OBVIOUS
<1> HIDE DEF done, fill
<1>7. xorders'[o] = done /\ \A p \in Orders \ {o} : xorders'[p] = xorders[p]
  BY <1>1 DEF LiveTypeOK
<1>8. Executes(o, fill)
  BY <1>1, <1>4, <1>5, <1>6, <1>7 DEF Executes, OnExchange
<1> QED BY <1>4, <1>8

-----------------------------------------------------------------------------
(* What the account and the exchange know of the same executions.          *)

FillsInv == FillsBelong /\ TrackedOnExchange

(* Once on the exchange, always there, with the same instruction.          *)
LEMMA StaysPlaced ==
    ASSUME LiveTypeOK, LiveNext
    PROVE  \A p \in Orders : OnExchange(p) =>
              /\ OnExchange(p)'
              /\ xorders'[p].instruction = xorders[p].instruction
<1>1. ASSUME NEW o \in Orders, NEW fill \in Fill, Executes(o, fill)
      PROVE  \A p \in Orders : OnExchange(p) =>
              /\ OnExchange(p)'
              /\ xorders'[p].instruction = xorders[p].instruction
  BY <1>1 DEF Executes, OnExchange
<1>2. ASSUME \A p \in Orders : StaysOnExchange(p)
      PROVE  \A p \in Orders : OnExchange(p) =>
              /\ OnExchange(p)'
              /\ xorders'[p].instruction = xorders[p].instruction
  BY <1>2 DEF StaysOnExchange, OnExchange, Unused
<1> QED BY <1>1, <1>2, ExchangeSteps, XExecuteExecutes

LEMMA FillsBelongStep ==
    ASSUME LiveTypeOK, UntrackedIsBlank, FillsBelong, LiveNext
    PROVE  FillsBelong'
<1>1. \A f \in xfills : /\ OnExchange(f.order)'
                        /\ f.coin = xorders'[f.order].instruction.coin
                        /\ f.side = xorders'[f.order].instruction.side
  <2>1. \A f \in xfills : f.order \in Orders
    BY FillTypes DEF LiveTypeOK
  <2> QED BY <2>1, StaysPlaced DEF FillsBelong
<1>2. \/ fillIds' = fillIds /\ xfills \subseteq xfills'
      \/ \E fill \in xfills : fillIds' = fillIds \cup {fill.id} /\ xfills' = xfills
  <2>1. xfills \subseteq xfills'
    BY ExchangeSteps, XExecuteExecutes DEF Executes
  <2>2. CASE Quiet
    BY <2>1, <2>2 DEF Quiet
  <2>3. ASSUME NEW fill \in xfills, OrderFilled(fill)
        PROVE  fillIds' = fillIds \cup {fill.id} /\ xfills' = xfills
    BY <2>3, FilledBooks DEF Books, xVars
  <2> QED BY <2>2, <2>3, StepBooks
<1>3. fillIds' \subseteq {f.id : f \in xfills'}
  BY <1>2 DEF FillsBelong
<1>4. CASE UNCHANGED xfills
  BY <1>1, <1>3, <1>4 DEF FillsBelong
<1>5. ASSUME NEW o \in Orders, NEW fill \in Fill, Executes(o, fill)
      PROVE  FillsBelong'
  <2>1. IsFiniteSet(xfills')
    BY <1>5, FS_AddElement DEF Executes, FillsBelong
  <2>2. \A f, g \in xfills' : f.id = g.id => f = g
    BY <1>5 DEF Executes, FillsBelong
  <2>3. \A f \in xfills' : /\ OnExchange(f.order)'
                           /\ f.coin = xorders'[f.order].instruction.coin
                           /\ f.side = xorders'[f.order].instruction.side
    BY <1>1, <1>5 DEF Executes, OnExchange
  <2> QED BY <1>3, <2>1, <2>2, <2>3 DEF FillsBelong
<1> QED BY <1>4, <1>5, ExchangeSteps, XExecuteExecutes

(* Only the two handlers that place an order make one tracked.             *)
LEMMA TrackedStep ==
    ASSUME LiveTypeOK, TrackedOnExchange, LiveNext
    PROVE  TrackedOnExchange'
<1> SUFFICES ASSUME NEW p \in Orders, orders'[p].status # "untracked"
             PROVE  OnExchange(p)'
  BY DEF TrackedOnExchange
<1>1. CASE orders[p].status # "untracked"
  BY <1>1, StaysPlaced DEF TrackedOnExchange
<1>2. CASE orders[p].status = "untracked"
  <2>1. CASE \A q \in Orders : Keeps(q)
    BY <1>2, <2>1 DEF Keeps
  <2>2. ASSUME NEW n \in Orders, NEW i, XSubmit(n, i),
               \A q \in Orders \ {n} : orders'[q].status = "untracked"
                                           <=> orders[q].status = "untracked"
        PROVE  OnExchange(p)'
    <3>1. p = n
      BY <1>2, <2>2
    <3> QED BY <2>2, <3>1 DEF XSubmit, OnExchange, LiveTypeOK
  <2>3. ASSUME NEW n \in Orders, NEW i \in Instructions,
               NEW t \in Traces \cup {NoTrace}, Submit(n, i, t)
        PROVE  OnExchange(p)'
    <3>1. orders' = [orders EXCEPT ![n] = NewOrder] /\ XSubmit(n, i)
      BY <2>3 DEF Submit, Track
    <3> QED BY <2>2, <3>1 DEF LiveTypeOK, TypeOK
  <2>4. ASSUME NEW o \in Orders, NEW n \in Orders, OrderCancelled(o), SubmitReplacement(o, n)
        PROVE  OnExchange(p)'
    <3>1. /\ orders' = [orders EXCEPT ![o].status = "cancelled", ![n] = NewOrder]
          /\ XSubmit(n, records[o].instruction)
      BY <2>4 DEF SubmitReplacement
    <3>2. orders[o].status # "untracked"
      BY <2>4 DEF OrderCancelled, UpdateAccepted
    <3>3. \A q \in Orders \ {n} : q # o => orders'[q] = orders[q]
      BY <3>1 DEF LiveTypeOK, TypeOK
    <3>4. o # n => orders'[o].status = "cancelled"
      BY <3>1 DEF LiveTypeOK, TypeOK, OrderRecord
    <3> QED BY <2>2, <3>1, <3>2, <3>3, <3>4
  <2> QED BY <2>1, <2>3, <2>4, LiveStepKeeps
<1> QED BY <1>1, <1>2

LEMMA FillsInvHolds == LiveSpec => []FillsInv
<1>1. LiveInit => FillsInv
  <2> SUFFICES ASSUME LiveInit PROVE FillsInv
    OBVIOUS
  <2>1. /\ xfills = {} /\ fillIds = {}
        /\ \A o \in Orders : orders[o].status = "untracked"
    BY DEF LiveInit, OrderInit, Untracked
  <2>2. FillsBelong
    BY <2>1, FS_EmptySet DEF FillsBelong
  <2> QED BY <2>1, <2>2 DEF FillsInv, TrackedOnExchange
<1>2. LiveTypeOK /\ UntrackedIsBlank /\ FillsInv /\ [LiveNext]_liveVars => FillsInv'
  <2>1. ASSUME FillsInv, UNCHANGED liveVars PROVE FillsInv'
    BY <2>1 DEF FillsInv, FillsBelong, TrackedOnExchange, OnExchange, liveVars,
                orderVars, xVars
  <2> QED BY <2>1, FillsBelongStep, TrackedStep DEF FillsInv
<1> QED BY <1>1, <1>2, LiveTypes, LiveStaysBlank, PTL DEF LiveSpec

-----------------------------------------------------------------------------
(* The position is the sum of the fills.                                   *)

SignedOf == [o \in Orders |-> Signed(o)]

LEMMA InstructionTypes ==
    ASSUME LiveTypeOK, NEW o \in Orders, OnExchange(o)
    PROVE  /\ xorders[o].instruction \in Instructions
           /\ xorders[o].instruction.coin \in Coins
           /\ xorders[o].instruction.side \in {1, -1}
<1>1. xorders[o] \in XOrder
  BY DEF LiveTypeOK, OnExchange, NoXOrder
<1>2. xorders[o].instruction \in Instructions
  BY <1>1 DEF XOrder
<1> QED BY <1>2, LiveAssumption DEF Instruction, Sides

(* An order with fills is on the exchange, and its fills have a sign.      *)
LEMMA SignedTypes ==
    ASSUME LiveTypeOK, UntrackedIsBlank, TrackedOnExchange, NEW o \in Orders
    PROVE  /\ orders[o].filled > 0 => OnExchange(o)
           /\ SignedOf[o] = Signed(o)
           /\ Signed(o) \in Int
<1>1. orders[o].filled \in Nat
  BY FilledTypes
<1>2. orders[o].filled > 0 => OnExchange(o)
  BY DEF UntrackedIsBlank, Untracked, TrackedOnExchange
<1>3. orders[o].filled > 0 => xorders[o].instruction.side \in {1, -1}
  BY <1>2, InstructionTypes
<1>4. Signed(o) \in Int
  BY <1>1, <1>3 DEF Signed
<1> QED BY <1>2, <1>4 DEF SignedOf

PositionTotals == \A c \in Coins : position[c] = Total(SignedOf, Filling(c))

LEMMA PositionIsTotal == PositionIsSumOfFills <=> PositionTotals
BY DEF PositionIsSumOfFills, PositionTotals, Total, SignedOf

LEMMA PositionStep ==
    ASSUME LiveTypeOK, UntrackedIsBlank, FillsInv, PositionTotals, LiveNext
    PROVE  PositionTotals'
<1>0. /\ FillsBelong /\ TrackedOnExchange /\ IsFiniteSet(Orders)
      /\ \A o \in Orders : orders[o].filled \in Nat
  BY FilledTypes, OrderEventsAssumption DEF FillsInv
<1> SUFFICES ASSUME NEW c \in Coins
             PROVE  position'[c] = Total(SignedOf', Filling(c)')
  BY DEF PositionTotals
<1> DEFINE S == Filling(c)
           total == Total(SignedOf, S)
<1>1. S \subseteq Orders /\ IsFiniteSet(S) /\ Filling(c)' \subseteq Orders
  BY <1>0, FS_Subset DEF Filling
<1>2. \A o \in Orders : SignedOf[o] = Signed(o) /\ SignedOf[o] \in Int
  BY <1>0, SignedTypes
<1>3. total \in Int /\ position[c] = total
  BY <1>1, <1>2, TotalType DEF PositionTotals
<1>4. \A o \in Orders : SignedOf'[o] = Signed(o)'
  BY DEF SignedOf
<1>5. CASE Quiet
  <2>1. \A o \in Orders : orders[o].filled > 0 =>
            xorders'[o].instruction = xorders[o].instruction
    BY <1>0, SignedTypes, StaysPlaced
  <2>2. \A o \in Orders : Signed(o)' = Signed(o)
    BY <1>0, <1>5, <2>1 DEF Signed, Quiet
  <2>3. Filling(c)' = S
    BY <1>0, <1>5, <2>1 DEF Filling, Quiet
  <2>4. \A o \in S : SignedOf'[o] = SignedOf[o]
    BY <1>1, <1>2, <1>4, <2>2
  <2>5. Total(SignedOf', S) = total
    BY <1>1, <2>4, TotalSame
  <2> QED BY <1>3, <1>5, <2>3, <2>5 DEF Quiet
<1>6. ASSUME NEW fill \in xfills, Books(fill)
      PROVE  position'[c] = Total(SignedOf', Filling(c)')
  <2> DEFINE o == fill.order
             delta == fill.side * fill.quantity
  <2>1. /\ o \in Orders /\ fill.coin \in Coins
        /\ fill.quantity \in Nat \ {0} /\ delta \in Int
    BY FillTypes DEF LiveTypeOK, SignedQuantity
  <2>2. /\ fill.coin = xorders[o].instruction.coin
        /\ fill.side = xorders[o].instruction.side
        /\ fill.side \in {1, -1}
        /\ UNCHANGED xorders
    BY <1>0, <1>6, <2>1, InstructionTypes DEF FillsBelong, Books, xVars
  <2>3. \A p \in Orders \ {o} : Signed(p)' = Signed(p)
    BY <1>6, <2>2 DEF Signed, Books
  <2>4. Signed(o)' = Signed(o) + delta
    <3>1. /\ orders'[o].filled = orders[o].filled + fill.quantity
          /\ orders[o].filled \in Nat
      BY <1>0, <1>6, <2>1 DEF Books
    <3>2. CASE fill.side = 1
      BY <2>1, <2>2, <3>1, <3>2 DEF Signed
    <3>3. CASE fill.side = -1
      BY <2>1, <2>2, <3>1, <3>3 DEF Signed
    <3> QED BY <2>2, <3>2, <3>3
  <2>5. CASE c # fill.coin
    <3>1. Filling(c)' = S /\ o \notin S
      BY <1>0, <1>6, <2>2, <2>5 DEF Filling, Books
    <3>2. \A p \in S : SignedOf'[p] = SignedOf[p]
      BY <1>1, <1>2, <1>4, <2>3, <3>1
    <3>3. Total(SignedOf', S) = total
      BY <1>1, <3>2, TotalSame
    <3>4. position'[c] = position[c]
      BY <1>6, <2>5 DEF Books
    <3> QED BY <1>3, <3>1, <3>3, <3>4
  <2>6. CASE c = fill.coin
    <3>1. Filling(c)' = S \cup {o}
      <4>1. orders'[o].filled = orders[o].filled + fill.quantity
        BY <1>6 DEF Books
      <4>2. orders'[o].filled > 0
        BY <1>0, <2>1, <4>1
      <4> QED BY <1>6, <2>1, <2>2, <2>6, <4>2 DEF Filling, Books
    <3>2. o \notin S => SignedOf[o] = 0
      BY <1>0, <1>2, <2>1, <2>2, <2>6 DEF Filling, Signed
    <3>3. /\ SignedOf'[o] = SignedOf[o] + delta
          /\ SignedOf'[o] \in Int
          /\ \A p \in S \ {o} : SignedOf'[p] = SignedOf[p]
      BY <1>1, <1>2, <1>4, <2>1, <2>3, <2>4
    <3>4. Total(SignedOf', S \cup {o})
            = IF o \in S THEN total + SignedOf'[o] - SignedOf[o]
              ELSE total + SignedOf'[o]
      <4>1. \A p \in S : SignedOf[p] \in Int
        BY <1>1, <1>2
      <4> DEFINE f == SignedOf
                 g == SignedOf'
      <4>2. /\ IsFiniteSet(S)
            /\ g[o] \in Int
            /\ \A p \in S : f[p] \in Int
            /\ \A p \in S \ {o} : g[p] = f[p]
        BY <1>1, <3>3, <4>1
      <4> HIDE DEF S, o, f, g
      <4>3. Total(g, S \cup {o})
              = IF o \in S THEN Total(f, S) + g[o] - f[o] ELSE Total(f, S) + g[o]
        BY <4>2, TotalChanges
      <4>4. Total(SignedOf', S \cup {o})
              = IF o \in S THEN Total(SignedOf, S) + SignedOf'[o] - SignedOf[o]
                ELSE Total(SignedOf, S) + SignedOf'[o]
        BY <4>3 DEF f, g
      <4> QED BY <4>4
    <3>5. position'[c] = position[c] + delta
      BY <1>6, <2>6 DEF Books
    <3>6. SignedOf[o] \in Int
      BY <1>2, <2>1
    <3> HIDE DEF total, S, delta, o
    <3> QED BY <1>3, <2>1, <3>1, <3>2, <3>3, <3>4, <3>5, <3>6
  <2> QED BY <2>5, <2>6
<1> QED BY <1>5, <1>6, StepBooks, FilledBooks

(* PositionIsSumOfFills: whatever the connector loses, repeats or delays,  *)
(* the account holds what the tracker's orders filled, coin by coin.       *)
THEOREM PositionAddsUp == LiveSpec => []PositionIsSumOfFills
<1>1. LiveInit => PositionTotals
  <2> SUFFICES ASSUME LiveInit PROVE PositionTotals
    OBVIOUS
  <2>1. \A c \in Coins : Filling(c) = {} /\ position[c] = 0
    BY DEF LiveInit, OrderInit, Untracked, Filling
  <2> QED BY <2>1, TotalEmpty DEF PositionTotals
<1>2. LiveTypeOK /\ UntrackedIsBlank /\ FillsInv /\ PositionTotals
        /\ [LiveNext]_liveVars => PositionTotals'
  <2>1. ASSUME PositionTotals, UNCHANGED liveVars PROVE PositionTotals'
    BY <2>1 DEF PositionTotals, SignedOf, Signed, Filling, liveVars, orderVars, xVars
  <2> QED BY <2>1, PositionStep
<1> QED
  BY <1>1, <1>2, LiveTypes, LiveStaysBlank, FillsInvHolds, PositionIsTotal, PTL DEF LiveSpec

=============================================================================
