---------------------------- MODULE Subscriptions ----------------------------
(***************************************************************************)
(* The collector that follows the collection universe of MarketPipeline:   *)
(* its universe_watcher reads the file now and then and changes the        *)
(* subscriptions of the connection one message at a time, and updates the  *)
(* coins that the reading loop lets through, active, only at the end.      *)
(* A connection may be lost between two messages.                          *)
(***************************************************************************)
EXTENDS MarketPipeline

VARIABLES connection,   \* "open" or "lost"
          active,       \* active_coins
          subscribed,   \* what the exchange streams on this connection
          syncing,      \* inside sync_subscriptions
          removed, added, unsent

syncVars == <<syncing, removed, added, unsent>>
collectorVars == <<connection, active, subscribed, syncVars>>
vars == <<pipelineVars, collectorVars>>

Asleep == syncing' = FALSE /\ removed' = {} /\ added' = {} /\ unsent' = {}

Init ==
    /\ PipelineInit
    /\ connection = "lost"
    /\ active = {} /\ subscribed = {}
    /\ syncing = FALSE
    /\ removed = {} /\ added = {} /\ unsent = {}

CoinsOf(file) == IF file = None \/ DOMAIN file.members = {}
                 THEN FallbackCoins ELSE DOMAIN file.members

LoadUniverseCoins == CoinsOf(collection)

PipelineUnchangedBut == UNCHANGED <<worldVars, builder, files, checker, profiler, gate, historyVars>>

(* collect_connection: the coins are loaded, the connection is opened and  *)
(* all of them are subscribed before the first message is read.            *)
Connect ==
    /\ connection = "lost"
    /\ Started
    /\ connection' = "open"
    /\ active' = LoadUniverseCoins
    /\ subscribed' = LoadUniverseCoins
    /\ UNCHANGED syncVars
    /\ PipelineUnchangedBut

(* The watcher task ends with the connection; its sends raise.             *)
Disconnect ==
    /\ connection = "open"
    /\ connection' = "lost"
    /\ subscribed' = {}
    /\ Asleep
    /\ UNCHANGED <<pipelineVars, active>>

(* sync_subscriptions up to its first await                                *)
Refresh ==
    /\ connection = "open" /\ ~syncing
    /\ Started
    /\ syncing' = TRUE
    /\ removed' = active \ LoadUniverseCoins
    /\ added' = LoadUniverseCoins \ active
    /\ unsent' = removed' \cup added'
    /\ UNCHANGED <<connection, active, subscribed>>
    /\ PipelineUnchangedBut

Unsubscribe(c) ==
    /\ syncing /\ c \in unsent \cap removed
    /\ unsent' = unsent \ {c}
    /\ subscribed' = subscribed \ {c}
    /\ UNCHANGED <<pipelineVars, connection, active, syncing, removed, added>>

Subscribe(c) ==
    /\ syncing /\ unsent \cap removed = {} /\ c \in unsent
    /\ unsent' = unsent \ {c}
    /\ subscribed' = subscribed \cup {c}
    /\ UNCHANGED <<pipelineVars, connection, active, syncing, removed, added>>

(* Faulty variant: coins that left are still let through.                  *)
SyncedKeepsRemoved ==
    /\ syncing /\ unsent = {}
    /\ active' = active \cup added
    /\ Asleep
    /\ UNCHANGED <<pipelineVars, connection, subscribed>>

(* Every message was sent: active -= removed; active |= added              *)
Synced ==
    /\ syncing /\ unsent = {}
    /\ active' = (active \ removed) \cup added
    /\ Asleep
    /\ UNCHANGED <<pipelineVars, connection, subscribed>>

Collect ==
    \/ Connect \/ Disconnect \/ Refresh \/ Synced
    \/ \E c \in Coins : Unsubscribe(c) \/ Subscribe(c)

Next ==
    \/ PipelineNext /\ UNCHANGED collectorVars
    \/ Collect

Spec == Init /\ [][Next]_vars

-----------------------------------------------------------------------------

(* Between refreshes the connection streams exactly the coins that the     *)
(* reading loop lets through, which are those of one collection the builder*)
(* published (or the fallback); during a refresh no coin that stays in the *)
(* collection is interrupted and no other coin is streamed.                *)
StreamsTheCollection ==
    connection = "open" =>
        /\ active \in {CoinsOf(plans[e]) : e \in 1..MaxEpoch} \cup {FallbackCoins}
        /\ active \ removed \subseteq subscribed
        /\ subscribed \subseteq active \cup added
        /\ ~syncing => subscribed = active
=============================================================================
