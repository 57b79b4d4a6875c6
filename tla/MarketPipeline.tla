--------------------------- MODULE MarketPipeline ----------------------------
(***************************************************************************)
(* The market selection pipeline: separate scripts that hand artifacts to  *)
(* each other through files, each file replaced atomically, and the live   *)
(* collector that follows the collection universe.                         *)
(*   build_stable_market_universe  writes collection, trading and state    *)
(*   check_l2_readiness            collection             -> readiness     *)
(*   build_execution_profile       collection, readiness  -> profile       *)
(*   build_trading_universe        collection, profile    -> trading       *)
(*   the collector's universe_watcher  collection -> subscriptions         *)
(* A script reads its inputs one after another and writes later; it may be *)
(* killed anywhere.  Market data, and the time of day, are free choices.   *)
(***************************************************************************)
EXTENDS StableSelection

CONSTANTS Coins,
          Supported,       \* coins of the main dex
          FallbackCoins,   \* the collector's own coins
          Windows,         \* the windows of snapshots that may be collected
          MaxEpoch,        \* bound
          MaxStarts        \* bound: scripts and refreshes started

ASSUME PipelineAssumption ==
    /\ Supported \subseteq Coins
    /\ FallbackCoins \subseteq Coins /\ FallbackCoins # {}
    /\ Windows \subseteq Seq(Seq([coin : Coins, score : Int]))
    /\ MaxEpoch \in Nat \ {0} /\ MaxStarts \in Nat

VARIABLES epoch, window,                  \* the last completed epoch's snapshots
          builder,                        \* the script build_stable_market_universe
          collection, trading, selectionState, readiness, profile,   \* files
          checker, profiler, gate,        \* the other scripts
          starts,                         \* how many of those were started
          plans, since, lost, checkedReady  \* history

files == <<collection, trading, selectionState, readiness, profile>>
worldVars == <<epoch, window>>
scriptVars == <<checker, profiler, gate, starts>>
historyVars == <<plans, since, lost, checkedReady>>
pipelineVars == <<worldVars, builder, files, scriptVars, historyVars>>

None == [epoch |-> 0]

NoMembers == [c \in {} |-> 0]

NotRunning == [at |-> "idle"]

PipelineInit ==
    /\ epoch = 1
    /\ window \in Windows
    /\ builder = NotRunning
    /\ collection = None /\ trading = None /\ selectionState = None
    /\ readiness = None /\ profile = None
    /\ checker = NotRunning /\ profiler = NotRunning /\ gate = NotRunning
    /\ starts = 0
    /\ plans = [e \in 1..MaxEpoch |-> None]
    /\ since = NoMembers
    /\ lost = FALSE
    /\ checkedReady = {}

(* The first snapshot of a new epoch completes the window of the last one; *)
(* later snapshots of the epoch do not matter before the next.             *)
NewEpoch(w) ==
    /\ epoch < MaxEpoch
    /\ epoch' = epoch + 1
    /\ window' = w
    /\ UNCHANGED <<builder, files, scriptVars, historyVars>>

-----------------------------------------------------------------------------
(* build_stable_market_universe                                            *)

(* load_state                                                              *)
Previous == IF selectionState = None THEN NoMembers ELSE selectionState.since

(* The rankings, the state and the plan; a state newer than the epoch ends *)
(* the script.  What an interrupted build left is lost when the next build *)
(* is for a later epoch.                                                   *)
StartBuild ==
    /\ builder = NotRunning
    /\ selectionState.epoch <= epoch
    /\ window # <<>>
    /\ LET ranking == AggregateMarketSelection(window)
       IN builder' = [at |-> "collection", epoch |-> epoch, ranking |-> ranking,
                      plan |-> BuildStableSelectionPlan(ranking, epoch, Previous)]
    /\ lost' = (\/ lost
                \/ selectionState.epoch < collection.epoch /\ collection.epoch < epoch)
    /\ UNCHANGED <<worldVars, files, scriptVars, plans, since, checkedReady>>

(* stable_ranking.json, which nothing reads, then collection_universe.json *)
WriteCollection ==
    /\ builder.at = "collection"
    /\ collection' = [epoch |-> builder.epoch, members |-> builder.plan]
    /\ builder' = [builder EXCEPT !.at = "trading"]
    /\ plans' = [plans EXCEPT ![builder.epoch] = collection']
    /\ since' = [c \in DOMAIN builder.plan |->
                    IF c \in DOMAIN since THEN since[c] ELSE builder.epoch]
    /\ UNCHANGED <<worldVars, trading, selectionState, readiness, profile, scriptVars,
                   lost, checkedReady>>

(* trading_universe.json, marked requires_l2_validation                    *)
WriteCandidates ==
    /\ builder.at = "trading"
    /\ trading' = [epoch |-> builder.epoch, validated |-> FALSE,
                   coins |-> TradingCandidates(builder.plan)]
    /\ builder' = [builder EXCEPT !.at = "state"]
    /\ UNCHANGED <<worldVars, collection, selectionState, readiness, profile,
                   scriptVars, historyVars>>

(* Faulty variant: markets that left the collection stay in the state.     *)
WriteStateKeepsLeft ==
    /\ builder.at = "state"
    /\ selectionState' = [epoch |-> builder.epoch,
                          since |-> CollectionSinceMap(builder.plan) @@ Previous]
    /\ builder' = NotRunning
    /\ UNCHANGED <<worldVars, collection, trading, readiness, profile,
                   scriptVars, historyVars>>

(* stable_selection_state.json, last                                       *)
WriteState ==
    /\ builder.at = "state"
    /\ selectionState' = [epoch |-> builder.epoch,
                          since |-> CollectionSinceMap(builder.plan)]
    /\ builder' = NotRunning
    /\ UNCHANGED <<worldVars, collection, trading, readiness, profile,
                   scriptVars, historyVars>>

KillBuild ==
    /\ builder # NotRunning
    /\ builder' = NotRunning
    /\ UNCHANGED <<worldVars, files, scriptVars, historyVars>>

-----------------------------------------------------------------------------
(* The validating scripts.  Starting one again, or a second one, replaces  *)
(* what the earlier one had in memory: it was killed or lost the race.     *)

Started == starts < MaxStarts /\ starts' = starts + 1

StartCheck ==
    /\ Started
    /\ collection # None
    /\ checker' = [at |-> "checking", selection |-> collection]
    /\ UNCHANGED <<worldVars, builder, files, profiler, gate, historyVars>>

(* check_l2_coverage decides for each market from the recorded books.      *)
FinishCheck(ready) ==
    /\ checker # NotRunning
    /\ ready \subseteq DOMAIN checker.selection.members
    /\ readiness' = [epoch |-> checker.selection.epoch, ready |-> ready]
    /\ checker' = NotRunning
    /\ checkedReady' = checkedReady \cup {<<checker.selection.epoch, c>> : c \in ready}
    /\ UNCHANGED <<worldVars, starts, builder, collection, trading, selectionState,
                   profile, profiler, gate, plans, since, lost>>

StartProfile ==
    /\ Started
    /\ collection # None
    /\ profiler' = [at |-> "selection", selection |-> collection]
    /\ UNCHANGED <<worldVars, builder, files, checker, gate, historyVars>>

(* Faulty variant: readiness of another epoch is accepted.                 *)
ReadReadinessUnchecked ==
    /\ profiler.at = "selection"
    /\ readiness # None
    /\ profiler' = [at |-> "analysing", selection |-> profiler.selection,
                    ready |-> readiness.ready]
    /\ UNCHANGED <<worldVars, starts, builder, files, checker, gate, historyVars>>

(* Readiness of another epoch ends the script.                             *)
ReadReadiness ==
    /\ profiler.at = "selection"
    /\ readiness # None
    /\ profiler' = IF readiness.epoch = profiler.selection.epoch
                   THEN [at |-> "analysing", selection |-> profiler.selection,
                         ready |-> readiness.ready]
                   ELSE NotRunning
    /\ UNCHANGED <<worldVars, starts, builder, files, checker, gate, historyVars>>

(* build_execution_profile: a row for every market, with a capacity for    *)
(* those that are supported and ready.                                     *)
BuildExecutionProfile(selection, ready) ==
    [epoch |-> selection.epoch, members |-> selection.members,
     ready |-> ready \cap Supported \cap DOMAIN selection.members]

FinishProfile ==
    /\ profiler.at = "analysing"
    /\ profile' = BuildExecutionProfile(profiler.selection, profiler.ready)
    /\ profiler' = NotRunning
    /\ UNCHANGED <<worldVars, starts, builder, collection, trading, selectionState,
                   readiness, checker, gate, historyVars>>

StartGate ==
    /\ Started
    /\ collection # None
    /\ gate' = [at |-> "selection", epoch |-> collection.epoch]
    /\ UNCHANGED <<worldVars, builder, files, checker, profiler, historyVars>>

(* A profile of another epoch, or one that is too old, ends the script.    *)
ReadProfile(stale) ==
    /\ gate.at = "selection"
    /\ profile # None
    /\ gate' = IF profile.epoch = gate.epoch /\ ~stale
               THEN [at |-> "gating", profile |-> profile]
               ELSE NotRunning
    /\ UNCHANGED <<worldVars, starts, builder, files, checker, profiler, historyVars>>

(* Which markets may be traded at all, at the volatility and the costs of  *)
(* the moment.                                                             *)
Tradeable(p) == {c \in p.ready : p.members[c].rank <= TradingRank}

FinishGate(coins) ==
    /\ gate.at = "gating"
    /\ coins \subseteq Tradeable(gate.profile)
    /\ trading' = [epoch |-> gate.profile.epoch, validated |-> TRUE, coins |-> coins]
    /\ gate' = NotRunning
    /\ UNCHANGED <<worldVars, starts, builder, collection, selectionState, readiness,
                   profile, checker, profiler, historyVars>>

Scripts ==
    \/ StartCheck \/ \E ready \in SUBSET Coins : FinishCheck(ready)
    \/ StartProfile \/ ReadReadiness \/ FinishProfile
    \/ StartGate \/ \E stale \in BOOLEAN : ReadProfile(stale)
    \/ \E coins \in SUBSET Coins : FinishGate(coins)

Build == StartBuild \/ WriteCollection \/ WriteCandidates \/ WriteState \/ KillBuild

PipelineNext ==
    \/ \E w \in Windows : NewEpoch(w)
    \/ Build
    \/ Scripts

-----------------------------------------------------------------------------

(* collection_since, from which the warm-up is counted, is honest: a market*)
(* of the collection has been in every collection file since.  A build that*)
(* was killed before it wrote the state, and not repeated in its epoch,    *)
(* breaks this, and nothing else does.                                     *)
CollectedSinceStated ==
    collection # None /\ ~lost =>
        \A c \in DOMAIN collection.members : since[c] <= collection.members[c].since

(* However often the build runs, dies and runs again within an epoch, it   *)
(* writes the same collection for that epoch.                              *)
OnePlanPerEpoch ==
    [][\A e \in 1..MaxEpoch : plans[e] # None => plans'[e] = plans[e]]_pipelineVars

(* Hysteresis: from one epoch to the next a market leaves the collection   *)
(* only when it fell beyond the retention rank or out of the ranking.      *)
LeavesOnlyBelowRetention ==
    [][collection' # collection /\ collection # None /\ ~lost =>
         \A c \in DOMAIN collection.members \ DOMAIN collection'.members :
            \A i \in DOMAIN builder.ranking :
               builder.ranking[i] = c => i > RetentionRank]_pipelineVars

(* The collection is stable: within an epoch it is one plan, and from one  *)
(* epoch to the next it lets go only of markets that fell far enough.      *)
(* Hazard: the files are written one after the other and the next build    *)
(* starts from the last of them.                                           *)
PlansAreStable == OnePlanPerEpoch /\ LeavesOnlyBelowRetention

(* A validated trading universe only names markets that the collection of  *)
(* its own epoch ranked high enough and that a readiness check of that same*)
(* epoch found ready, whatever was rewritten while the scripts ran.        *)
TradedWasValidated ==
    trading # None /\ trading.validated =>
        \A c \in trading.coins :
            /\ c \in DOMAIN plans[trading.epoch].members
            /\ plans[trading.epoch].members[c].rank <= TradingRank
            /\ <<trading.epoch, c>> \in checkedReady
=============================================================================
