----------------------------- MODULE OrderState -----------------------------
(***************************************************************************)
(* The order record of hlbot.execution.order_state and the checks that     *)
(* OrderTracker.update makes before it stores a new record.  Timestamps,   *)
(* prices and reasons are abstracted: updated_ts is always                 *)
(* max(timestamp, current.updated_ts), so its check cannot fail, and the   *)
(* average price is present exactly when filled_quantity is positive.      *)
(***************************************************************************)
EXTENDS Integers

CONSTANT NoId    \* exchange_order_id of an order that has not been told one

OrderStatus == {"pending", "open", "partially_filled", "filled",
                "rejected", "cancelled"}

TerminalStatuses == {"filled", "rejected", "cancelled"}

ActiveStatuses == OrderStatus \ TerminalStatuses

(* Status "untracked" stands for a client_order_id that is no key of the   *)
(* tracker's dictionary: get() raises KeyError for it.                     *)
TrackedStatus == OrderStatus \cup {"untracked"}

(* Faulty variant: a cancelled order may still fill.                       *)
TransitionsWithLateFills ==
    [pending          |-> {"open", "partially_filled", "filled",
                           "rejected", "cancelled"},
     open             |-> {"partially_filled", "filled", "cancelled"},
     partially_filled |-> {"partially_filled", "filled", "cancelled"},
     filled           |-> {},
     rejected         |-> {},
     cancelled        |-> {"partially_filled"}]

AllowedTransitions ==
    [pending          |-> {"open", "partially_filled", "filled",
                           "rejected", "cancelled"},
     open             |-> {"partially_filled", "filled", "cancelled"},
     partially_filled |-> {"partially_filled", "filled", "cancelled"},
     filled           |-> {},
     rejected         |-> {},
     cancelled        |-> {}]

ValidTransition(current, new) ==
    \/ new = current
    \/ new \in AllowedTransitions[current]

OrderRecord(ExchangeIds) ==
    [status : TrackedStatus, exchangeId : ExchangeIds \cup {NoId}, filled : Nat]

Untracked == [status |-> "untracked", exchangeId |-> NoId, filled |-> 0]

NewOrder == [status |-> "pending", exchangeId |-> NoId, filled |-> 0]

Active(order) == order.status \in ActiveStatuses

Terminal(order) == order.status \in TerminalStatuses

(* ExecutionOrderState.__post_init__: the records the program can build.   *)
WellFormed(order) ==
    /\ order.filled >= 0
    /\ order.status \in {"partially_filled", "filled"} => order.filled > 0
    /\ order.status = "rejected" => order.filled = 0

(* The checks between reading the current record and storing the new one;  *)
(* when one fails the code raises and the tracker is left alone.           *)
UpdateAccepted(current, new) ==
    /\ current.status # "untracked"
    /\ WellFormed(new)
    /\ ValidTransition(current.status, new.status)
    /\ new.filled >= current.filled
    /\ current.exchangeId # NoId => new.exchangeId = current.exchangeId
=============================================================================
